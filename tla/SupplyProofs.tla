----------------------------- MODULE SupplyProofs -----------------------------
(***************************************************************************)
(* Theorems about the data the platform works on (PrefixTree, Collection,  *)
(* Sources), for addresses of any width, any targets, any trust anchors    *)
(* and any answers of the servers:                                         *)
(*  - PrefixTree: TreeInv says of every node that it holds the data of the *)
(*    ROAs inserted at its path, in their order, and that the way from the *)
(*    root to it is there.  An answer of the tree is then a list of places *)
(*    in the list of what was inserted, and a value occurs in it as often  *)
(*    as it hangs at those places (Count).                                 *)
(*  - Sources: BatchInv types a batch; what stays of it is the newest of   *)
(*    every origin by induction over the announcements seen.               *)
(*  - Collection: CollectionInv types the tables, keeps of every trust     *)
(*    anchor and object at most one that a collection made, and says that  *)
(*    what the collection in progress found is still in its tables, under  *)
(*    its own name, when it commits: no other call takes a row away.       *)
(***************************************************************************)
EXTENDS ManagementProofs

(***************************************************************************)
(* Lists: the entries at some places, and how often a value occurs.        *)
(***************************************************************************)

(* The entries of a list at some of its places: Listing says that g counts *)
(* the places of P in their order.                                         *)
Listing(g, m, P) ==
  /\ g \in [1 .. m -> P]
  /\ \A i, j \in 1 .. m : i < j => g[i] < g[j]
  /\ \A p \in P : \E i \in 1 .. m : g[i] = p

LEMMA ListingPut ==
  ASSUME NEW k \in Nat, NEW P \in SUBSET (1 .. k), NEW m \in Nat, NEW g, Listing(g, m, P)
  PROVE  Listing([i \in 1 .. m + 1 |-> IF i = m + 1 THEN k + 1 ELSE g[i]], m + 1, P \cup {k + 1})
<1> DEFINE h == [i \in 1 .. m + 1 |-> IF i = m + 1 THEN k + 1 ELSE g[i]]
           Q == P \cup {k + 1}
<1>1. \A i \in 1 .. m + 1 : i # m + 1 => i \in 1 .. m
  OBVIOUS
<1>2. \A i \in 1 .. m : i \in 1 .. m + 1 /\ i # m + 1 /\ h[i] = g[i] /\ g[i] \in P
  BY DEF Listing
<1>3. h[m + 1] = k + 1
  OBVIOUS
<1>4. h \in [1 .. m + 1 -> Q]
  BY <1>1, <1>2
<1> HIDE DEF h
<1>5. ASSUME NEW i \in 1 .. m + 1, NEW j \in 1 .. m + 1, i < j PROVE h[i] < h[j]
  <2>1. i \in 1 .. m
    BY <1>1, <1>5
  <2>2. CASE j = m + 1
    <3>1. h[i] \in 1 .. k
      BY <2>1, <1>2
    <3> QED
      BY <3>1, <2>2, <1>3
  <2>3. CASE j # m + 1
    <3>1. j \in 1 .. m
      BY <1>1, <2>3
    <3> QED
      BY <3>1, <2>1, <1>2, <1>5 DEF Listing
  <2> QED
    BY <2>2, <2>3
<1>6. ASSUME NEW p \in Q PROVE \E i \in 1 .. m + 1 : h[i] = p
  <2>1. CASE p = k + 1
    BY <2>1, <1>3
  <2>2. CASE p # k + 1
    <3>1. PICK i \in 1 .. m : g[i] = p
      BY <2>2 DEF Listing
    <3> QED
      BY <3>1, <1>2
  <2> QED
    BY <2>1, <2>2
<1>7. Listing(h, m + 1, Q)
  BY <1>4, <1>5, <1>6 DEF Listing
<1> QED
  BY <1>7 DEF h

LEMMA Enumerated ==
  ASSUME NEW n \in Nat, NEW P \in SUBSET (1 .. n)
  PROVE  \E m \in Nat : \E g : Listing(g, m, P)
<1> DEFINE S == {k \in Nat : \A Q \in SUBSET (1 .. k) : \E m \in Nat : \E g : Listing(g, m, Q)}
<1>1. 0 \in S
  <2>1. ASSUME NEW Q \in SUBSET (1 .. 0) PROVE \E m \in Nat : \E g : Listing(g, m, Q)
    <3>1. Q = {}
      OBVIOUS
    <3>2. Listing([i \in 1 .. 0 |-> 0], 0, Q)
      BY <3>1 DEF Listing
    <3> QED
      BY <3>2
  <2> QED
    BY <2>1
<1>2. ASSUME NEW k \in S PROVE k + 1 \in S
  <2>1. ASSUME NEW Q \in SUBSET (1 .. k + 1) PROVE \E m \in Nat : \E g : Listing(g, m, Q)
    <3> DEFINE R == Q \ {k + 1}
    <3>1. R \in SUBSET (1 .. k) /\ k \in Nat
      OBVIOUS
    <3>2. PICK m \in Nat : \E g : Listing(g, m, R)
      BY <3>1
    <3>3. PICK g : Listing(g, m, R)
      BY <3>2
    <3>4. CASE k + 1 \in Q
      <4>1. R \cup {k + 1} = Q
        BY <3>4
      <4> HIDE DEF R
      <4> DEFINE h == [i \in 1 .. m + 1 |-> IF i = m + 1 THEN k + 1 ELSE g[i]]
      <4>2. Listing(h, m + 1, R \cup {k + 1})
        BY <3>1, <3>3, ListingPut
      <4> HIDE DEF h
      <4> QED
        BY <4>1, <4>2
    <3>5. CASE k + 1 \notin Q
      <4>1. Q = R
        BY <3>5
      <4> QED
        BY <3>3, <4>1
    <3> QED
      BY <3>4, <3>5
  <2> QED
    BY <2>1
<1>3. S \in SUBSET Nat
  OBVIOUS
<1>4. \A k \in Nat : k \in S
  <2> HIDE DEF S
  <2> QED
    BY <1>1, <1>2, <1>3, SetInduction
<1> QED
  BY <1>4

LEMMA ListingCounts ==
  ASSUME NEW m \in Nat, NEW P \in SUBSET Nat, NEW g, Listing(g, m, P)
  PROVE  /\ IsFiniteSet(P) /\ Cardinality(P) = m
         /\ \A n \in 1 .. m : (CHOOSE i \in P : Cardinality({j \in P : j < i}) = n - 1) = g[n]
<1> DEFINE first(k) == {g[i] : i \in 1 .. k}
           C == {k \in Nat : k <= m => IsFiniteSet(first(k)) /\ Cardinality(first(k)) = k}
<1>0. \A i \in 1 .. m : g[i] \in P /\ g[i] \in Nat
  BY DEF Listing
<1>1. 0 \in C
  <2>1. first(0) = {}
    OBVIOUS
  <2> QED
    BY <2>1, FS_EmptySet
<1>2. ASSUME NEW k \in C PROVE k + 1 \in C
  <2> SUFFICES ASSUME k + 1 <= m PROVE IsFiniteSet(first(k + 1)) /\ Cardinality(first(k + 1)) = k + 1
    OBVIOUS
  <2>1. k \in Nat /\ IsFiniteSet(first(k)) /\ Cardinality(first(k)) = k
    OBVIOUS
  <2>2. first(k + 1) = first(k) \cup {g[k + 1]}
    <3>1. 1 .. k + 1 = (1 .. k) \cup {k + 1}
      BY <2>1
    <3> QED
      BY <3>1
  <2>3. g[k + 1] \notin first(k)
    <3>1. ASSUME NEW i \in 1 .. k PROVE g[i] # g[k + 1]
      <4>1. i \in 1 .. m /\ k + 1 \in 1 .. m /\ i < k + 1
        BY <2>1
      <4> QED
        BY <4>1, <1>0 DEF Listing
    <3> QED
      BY <3>1
  <2> HIDE DEF first
  <2> QED
    BY <2>1, <2>2, <2>3, FS_AddElement
<1>3. C \in SUBSET Nat
  OBVIOUS
<1>4. \A k \in 0 .. m : IsFiniteSet(first(k)) /\ Cardinality(first(k)) = k
  <2>1. \A k \in Nat : k \in C
    <3> HIDE DEF C
    <3> QED
      BY <1>1, <1>2, <1>3, SetInduction
  <2> HIDE DEF first
  <2> QED
    BY <2>1
<1>5. P = first(m)
  BY DEF Listing
<1>6. ASSUME NEW n \in 1 .. m PROVE {j \in P : j < g[n]} = first(n - 1)
  <2>1. ASSUME NEW i \in 1 .. m PROVE g[i] < g[n] <=> i <= n - 1
    <3>1. i < n => g[i] < g[n]
      BY DEF Listing
    <3>2. n < i => g[n] < g[i]
      BY DEF Listing
    <3>3. g[i] \in Nat /\ g[n] \in Nat
      BY <1>0
    <3> QED
      BY <3>1, <3>2, <3>3
  <2>2. \A i \in 1 .. n - 1 : i \in 1 .. m /\ i <= n - 1
    OBVIOUS
  <2>3. \A i \in 1 .. m : i <= n - 1 => i \in 1 .. n - 1
    OBVIOUS
  <2> QED
    BY <2>1, <2>2, <2>3, <1>0, <1>5
<1>7. ASSUME NEW n \in 1 .. m PROVE (CHOOSE i \in P : Cardinality({j \in P : j < i}) = n - 1) = g[n]
  <2> DEFINE Fits(i) == Cardinality({j \in P : j < i}) = n - 1
  <2>1. Fits(g[n])
    <3>1. n - 1 \in 0 .. m
      OBVIOUS
    <3> HIDE DEF first
    <3> QED
      BY <1>4, <1>6, <3>1
  <2>2. ASSUME NEW i \in P, Fits(i) PROVE i = g[n]
    <3>1. PICK k \in 1 .. m : g[k] = i
      BY DEF Listing
    <3>2. k - 1 \in 0 .. m /\ {j \in P : j < i} = first(k - 1)
      BY <3>1, <1>6
    <3> HIDE DEF first
    <3>3. k - 1 = n - 1
      BY <3>2, <2>2, <1>4
    <3> QED
      BY <3>1, <3>3
  <2> HIDE DEF Fits
  <2>3. (CHOOSE i \in P : Fits(i)) = g[n]
    BY <2>1, <2>2, <1>0
  <2> QED
    BY <2>3 DEF Fits
<1>8. m \in 0 .. m
  OBVIOUS
<1> HIDE DEF first
<1>9. IsFiniteSet(P) /\ Cardinality(P) = m
  BY <1>4, <1>5, <1>8
<1> QED
  BY <1>7, <1>9

LEMMA EntriesAre ==
  ASSUME NEW A, NEW list \in Seq(A), NEW P \in SUBSET (1 .. Len(list)), NEW m \in Nat, NEW g, Listing(g, m, P)
  PROVE  /\ EntriesAt(list, P) \in Seq(A) /\ Len(EntriesAt(list, P)) = m
         /\ \A n \in 1 .. m : EntriesAt(list, P)[n] = list[g[n]] /\ g[n] \in P
<1>1. P \in SUBSET Nat /\ \A i \in P : list[i] \in A
  <2>1. \A i \in 1 .. Len(list) : i \in Nat /\ list[i] \in A
    OBVIOUS
  <2> QED
    BY <2>1
<1>2. /\ Cardinality(P) = m
      /\ \A n \in 1 .. m : (CHOOSE i \in P : Cardinality({j \in P : j < i}) = n - 1) = g[n]
  BY <1>1, ListingCounts
<1>3. \A n \in 1 .. m : g[n] \in P
  BY DEF Listing
<1> DEFINE place(n) == CHOOSE i \in P : Cardinality({j \in P : j < i}) = n - 1
<1>6. EntriesAt(list, P) = [n \in 1 .. Cardinality(P) |-> list[place(n)]]
  BY DEF EntriesAt
<1>7. \A n \in 1 .. m : place(n) = g[n]
  BY <1>2
<1> HIDE DEF place
<1>4. EntriesAt(list, P) = [n \in 1 .. m |-> list[g[n]]]
  BY <1>2, <1>6, <1>7
<1>5. EntriesAt(list, P) \in [1 .. m -> A]
  BY <1>1, <1>3, <1>4
<1> QED
  BY <1>3, <1>4, <1>5

LEMMA SameSeq ==
  ASSUME NEW A, NEW s \in Seq(A), NEW t \in Seq(A), Len(s) = Len(t), \A i \in 1 .. Len(s) : s[i] = t[i]
  PROVE  s = t
BY AsFunction

LEMMA SameNumber ==
  ASSUME NEW S, NEW T, NEW f \in [S -> T], IsFiniteSet(S),
         \A x, y \in S : f[x] = f[y] => x = y, \A z \in T : \E x \in S : f[x] = z
  PROVE  IsFiniteSet(T) /\ Cardinality(T) = Cardinality(S)
<1>1. f \in Bijection(S, T)
  BY DEF Bijection, Injection, Surjection, IsInjective
<1> QED
  BY <1>1, FS_Bijection DEF ExistsBijection

LEMMA EntriesType ==
  ASSUME NEW A, NEW list \in Seq(A), NEW P \in SUBSET (1 .. Len(list))
  PROVE  /\ EntriesAt(list, P) \in Seq(A)
         /\ \A x : (\E n \in 1 .. Len(EntriesAt(list, P)) : EntriesAt(list, P)[n] = x) <=> (\E i \in P : list[i] = x)
<1>1. Len(list) \in Nat
  OBVIOUS
<1>2. PICK m \in Nat : \E g : Listing(g, m, P)
  BY <1>1, Enumerated
<1>3. PICK g : Listing(g, m, P)
  BY <1>2
<1>4. /\ EntriesAt(list, P) \in Seq(A) /\ Len(EntriesAt(list, P)) = m
      /\ \A n \in 1 .. m : EntriesAt(list, P)[n] = list[g[n]] /\ g[n] \in P
  BY <1>3, EntriesAre
<1>5. ASSUME NEW i \in P PROVE \E n \in 1 .. m : g[n] = i
  BY <1>3 DEF Listing
<1> DEFINE e == EntriesAt(list, P)
<1>6. ASSUME NEW x, NEW n \in 1 .. Len(e), e[n] = x PROVE \E i \in P : list[i] = x
  BY <1>4, <1>6
<1>7. ASSUME NEW i \in P PROVE \E n \in 1 .. Len(e) : e[n] = list[i]
  <2>1. PICK n \in 1 .. m : g[n] = i
    BY <1>5
  <2> QED
    BY <1>4, <2>1
<1> HIDE DEF e
<1> QED
  BY <1>4, <1>6, <1>7 DEF e

LEMMA EntriesPut ==
  ASSUME NEW A, NEW list \in Seq(A), NEW x \in A, NEW P \in SUBSET (1 .. Len(list))
  PROVE  /\ EntriesAt(Append(list, x), P) = EntriesAt(list, P)
         /\ EntriesAt(Append(list, x), P \cup {Len(list) + 1}) = Append(EntriesAt(list, P), x)
<1> DEFINE k == Len(list)
           more == Append(list, x)
           Q == P \cup {k + 1}
<1>1. k \in Nat /\ more \in Seq(A) /\ Len(more) = k + 1
  OBVIOUS
<1>2. (\A i \in 1 .. k : more[i] = list[i]) /\ more[k + 1] = x
  OBVIOUS
<1>3. PICK m \in Nat : \E g : Listing(g, m, P)
  BY <1>1, Enumerated
<1>4. PICK g : Listing(g, m, P)
  BY <1>3
<1>5. P \in SUBSET (1 .. Len(more)) /\ Q \in SUBSET (1 .. Len(more))
  <2>1. \A i \in 1 .. k : i \in 1 .. k + 1
    OBVIOUS
  <2>2. k + 1 \in 1 .. k + 1
    BY <1>1
  <2> HIDE DEF k, more
  <2> QED
    BY <1>1, <2>1, <2>2 DEF k
<1> HIDE DEF more
<1>6. /\ EntriesAt(list, P) \in Seq(A) /\ Len(EntriesAt(list, P)) = m
      /\ \A n \in 1 .. m : EntriesAt(list, P)[n] = list[g[n]] /\ g[n] \in P
  BY <1>4, EntriesAre
<1>7. /\ EntriesAt(more, P) \in Seq(A) /\ Len(EntriesAt(more, P)) = m
      /\ \A n \in 1 .. m : EntriesAt(more, P)[n] = more[g[n]]
  BY <1>1, <1>4, <1>5, EntriesAre
<1>8. EntriesAt(more, P) = EntriesAt(list, P)
  <2>1. \A n \in 1 .. m : more[g[n]] = list[g[n]]
    BY <1>2, <1>6
  <2> QED
    BY <1>6, <1>7, <2>1, SameSeq
<1> DEFINE h == [i \in 1 .. m + 1 |-> IF i = m + 1 THEN k + 1 ELSE g[i]]
<1>9. Listing(h, m + 1, Q)
  BY <1>1, <1>4, ListingPut
<1>10. \A n \in 1 .. m + 1 : h[n] = IF n = m + 1 THEN k + 1 ELSE g[n]
  OBVIOUS
<1> HIDE DEF h, Q
<1>11. /\ EntriesAt(more, Q) \in Seq(A) /\ Len(EntriesAt(more, Q)) = m + 1
       /\ \A n \in 1 .. m + 1 : EntriesAt(more, Q)[n] = more[h[n]]
  BY <1>1, <1>5, <1>9, EntriesAre
<1>12. EntriesAt(more, Q) = Append(EntriesAt(list, P), x)
  <2> DEFINE e == EntriesAt(list, P)
  <2>1. Append(e, x) \in Seq(A) /\ Len(Append(e, x)) = m + 1
    BY <1>6
  <2>2. ASSUME NEW n \in 1 .. m + 1 PROVE more[h[n]] = Append(e, x)[n]
    <3>1. CASE n = m + 1
      BY <3>1, <1>2, <1>6, <1>10
    <3>2. CASE n # m + 1
      <4>1. n \in 1 .. m
        BY <3>2
      <4>2. Append(e, x)[n] = e[n]
        BY <4>1, <1>6
      <4>3. e[n] = list[g[n]] /\ g[n] \in 1 .. k /\ h[n] = g[n]
        BY <4>1, <3>2, <1>6, <1>10
      <4> QED
        BY <4>2, <4>3, <1>2
    <3> QED
      BY <3>1, <3>2
  <2> HIDE DEF e
  <2> QED
    BY <1>11, <2>1, <2>2, SameSeq DEF e
<1> QED
  BY <1>8, <1>12 DEF more, Q

(* One entry is taken out: the places after it move down by one.           *)
Past(i, k) == IF i < k THEN i ELSE i + 1
LeftOf(P, k, size) == {i \in 1 .. size - 1 : Past(i, k) \in P}

LEMMA RemovedAt ==
  ASSUME NEW A, NEW list \in Seq(A), NEW k \in 1 .. Len(list)
  PROVE  /\ RemoveAt(list, k) \in Seq(A) /\ Len(RemoveAt(list, k)) = Len(list) - 1
         /\ \A i \in 1 .. Len(list) - 1 : RemoveAt(list, k)[i] = list[Past(i, k)]
<1> DEFINE size == Len(list)
           u == SubSeq(list, 1, k - 1)
           w == SubSeq(list, k + 1, size)
<1>1. size \in Nat /\ k \in Nat /\ k <= size /\ 1 <= k
  OBVIOUS
<1>2. u \in Seq(A) /\ Len(u) = k - 1 /\ \A i \in 1 .. k - 1 : u[i] = list[i]
  BY <1>1
<1>3. w \in Seq(A) /\ Len(w) = size - k /\ \A i \in 1 .. size - k : w[i] = list[k + i]
  <2>1. \A i \in 1 .. size - k : (k + 1) + i - 1 = k + i
    BY <1>1
  <2>2. w = [i \in 1 .. size - k |-> list[(k + 1) + i - 1]]
    BY <1>1
  <2>3. \A i \in 1 .. size - k : k + i \in 1 .. size
    BY <1>1
  <2>4. \A i \in 1 .. size : list[i] \in A
    OBVIOUS
  <2>5. w \in [1 .. size - k -> A]
    BY <2>1, <2>2, <2>3, <2>4
  <2>6. size - k \in Nat
    BY <1>1
  <2> HIDE DEF size, w
  <2>7. w \in Seq(A) /\ Len(w) = size - k
    BY <2>5, <2>6
  <2> QED
    BY <2>1, <2>2, <2>7
<1>4. RemoveAt(list, k) = u \o w
  BY DEF RemoveAt
<1> HIDE DEF u, w, size
<1>5. /\ u \o w \in Seq(A) /\ Len(u \o w) = size - 1
      /\ \A i \in 1 .. size - 1 : (u \o w)[i] = IF i <= k - 1 THEN u[i] ELSE w[i - (k - 1)]
  <2>1. Len(u) + Len(w) = size - 1
    BY <1>1, <1>2, <1>3
  <2> QED
    BY <1>2, <1>3, <2>1, JoinIs
<1>6. ASSUME NEW i \in 1 .. size - 1 PROVE (u \o w)[i] = list[Past(i, k)]
  <2>1. CASE i < k
    <3>1. i \in 1 .. k - 1 /\ i <= k - 1
      BY <1>1, <2>1
    <3> QED
      BY <2>1, <3>1, <1>2, <1>5 DEF Past
  <2>2. CASE ~(i < k)
    <3>1. i - (k - 1) \in 1 .. size - k /\ k + (i - (k - 1)) = i + 1 /\ ~(i <= k - 1)
      BY <1>1, <2>2
    <3> QED
      BY <2>2, <3>1, <1>3, <1>5 DEF Past
  <2> QED
    BY <2>1, <2>2
<1> QED
  BY <1>4, <1>5, <1>6 DEF size

LEMMA EntriesWithout ==
  ASSUME NEW A, NEW list \in Seq(A), NEW P \in SUBSET (1 .. Len(list)), NEW k \in 1 .. Len(list), k \notin P
  PROVE  EntriesAt(RemoveAt(list, k), LeftOf(P, k, Len(list))) = EntriesAt(list, P)
<1> DEFINE size == Len(list)
           less == RemoveAt(list, k)
           Q == LeftOf(P, k, size)
<1>1. size \in Nat /\ k \in 1 .. size /\ P \in SUBSET (1 .. size)
  OBVIOUS
<1>2. PICK m \in Nat : \E g : Listing(g, m, P)
  BY <1>1, Enumerated
<1>3. PICK g : Listing(g, m, P)
  BY <1>2
<1>4. /\ EntriesAt(list, P) \in Seq(A) /\ Len(EntriesAt(list, P)) = m
      /\ \A n \in 1 .. m : EntriesAt(list, P)[n] = list[g[n]] /\ g[n] \in P
  BY <1>3, EntriesAre
<1>5. less \in Seq(A) /\ Len(less) = size - 1 /\ \A i \in 1 .. size - 1 : less[i] = list[Past(i, k)]
  BY RemovedAt
<1> HIDE DEF size, less, Q
<1> DEFINE h == [n \in 1 .. m |-> IF g[n] < k THEN g[n] ELSE g[n] - 1]
<1>6. ASSUME NEW n \in 1 .. m PROVE h[n] \in 1 .. size - 1 /\ Past(h[n], k) = g[n] /\ h[n] \in Q
  <2>1. g[n] \in 1 .. size /\ g[n] # k /\ g[n] \in P
    BY <1>1, <1>4
  <2>2. h[n] \in 1 .. size - 1 /\ Past(h[n], k) = g[n]
    BY <1>1, <2>1 DEF Past
  <2> HIDE DEF h
  <2> QED
    BY <2>1, <2>2 DEF Q, LeftOf
<1>7. h \in [1 .. m -> Q]
  BY <1>6
<1>8. ASSUME NEW i \in 1 .. m, NEW j \in 1 .. m, i < j PROVE h[i] < h[j]
  <2>1. g[i] < g[j] /\ g[i] \in 1 .. size /\ g[j] \in 1 .. size /\ g[i] # k /\ g[j] # k
    BY <1>1, <1>3, <1>4, <1>8 DEF Listing
  <2> QED
    BY <1>1, <2>1
<1>9. ASSUME NEW q \in Q PROVE \E n \in 1 .. m : h[n] = q
  <2>1. q \in 1 .. size - 1 /\ Past(q, k) \in P
    BY DEF Q, LeftOf
  <2>2. PICK n \in 1 .. m : g[n] = Past(q, k)
    BY <1>3, <2>1 DEF Listing
  <2>3. h[n] = q
    BY <1>1, <2>1, <2>2 DEF Past
  <2> QED
    BY <2>3
<1> HIDE DEF h
<1>10. Listing(h, m, Q)
  BY <1>7, <1>8, <1>9 DEF Listing
<1>11. Q \in SUBSET (1 .. Len(less))
  BY <1>5 DEF Q, LeftOf
<1>12. /\ EntriesAt(less, Q) \in Seq(A) /\ Len(EntriesAt(less, Q)) = m
       /\ \A n \in 1 .. m : EntriesAt(less, Q)[n] = less[h[n]]
  BY <1>5, <1>10, <1>11, EntriesAre
<1>13. \A n \in 1 .. m : less[h[n]] = list[g[n]]
  BY <1>5, <1>6
<1>14. EntriesAt(less, Q) = EntriesAt(list, P)
  BY <1>4, <1>12, <1>13, SameSeq
<1> QED
  BY <1>14 DEF less, Q, size

LEMMA EntriesWithoutOne ==
  ASSUME NEW A, NEW list \in Seq(A), NEW P \in SUBSET (1 .. Len(list)), NEW m \in Nat, NEW g, Listing(g, m, P),
         NEW q \in 1 .. m
  PROVE  EntriesAt(RemoveAt(list, g[q]), LeftOf(P, g[q], Len(list))) = RemoveAt(EntriesAt(list, P), q)
<1> DEFINE size == Len(list)
           k == g[q]
           less == RemoveAt(list, k)
           Q == LeftOf(P, k, size)
           e == EntriesAt(list, P)
<1>1. size \in Nat /\ P \in SUBSET (1 .. size) /\ m - 1 \in Nat
  OBVIOUS
<1>2. k \in P /\ k \in 1 .. size
  BY DEF Listing
<1>3. e \in Seq(A) /\ Len(e) = m /\ \A n \in 1 .. m : e[n] = list[g[n]] /\ g[n] \in P
  BY EntriesAre
<1>4. less \in Seq(A) /\ Len(less) = size - 1 /\ \A i \in 1 .. size - 1 : less[i] = list[Past(i, k)]
  BY <1>2, RemovedAt
<1>5. /\ RemoveAt(e, q) \in Seq(A) /\ Len(RemoveAt(e, q)) = m - 1
      /\ \A n \in 1 .. m - 1 : RemoveAt(e, q)[n] = e[Past(n, q)]
  <2> HIDE DEF e
  <2>1. q \in 1 .. Len(e)
    BY <1>3
  <2> QED
    BY <1>3, <2>1, RemovedAt
<1> HIDE DEF size, less, Q, e
<1>6. \A i, j \in 1 .. m : /\ g[i] \in 1 .. size /\ g[i] \in P
                           /\ i < j => g[i] < g[j]
  BY <1>1, <1>3 DEF Listing
<1> DEFINE h == [n \in 1 .. m - 1 |-> IF n < q THEN g[n] ELSE g[n + 1] - 1]
<1>7. ASSUME NEW n \in 1 .. m - 1
      PROVE  /\ Past(n, q) \in 1 .. m /\ h[n] \in 1 .. size - 1
             /\ Past(h[n], k) = g[Past(n, q)] /\ h[n] \in Q
  <2>1. h[n] \in 1 .. size - 1 /\ Past(h[n], k) = g[Past(n, q)] /\ Past(n, q) \in 1 .. m
    <3>1. CASE n < q
      <4>1. n \in 1 .. m /\ g[n] < g[q] /\ g[n] \in 1 .. size
        BY <3>1, <1>6
      <4> QED
        BY <1>1, <1>2, <3>1, <4>1 DEF Past
    <3>2. CASE ~(n < q)
      <4>1. n + 1 \in 1 .. m /\ q < n + 1
        BY <3>2
      <4>2. g[q] < g[n + 1] /\ g[n + 1] \in 1 .. size
        BY <4>1, <1>6
      <4> QED
        BY <1>1, <1>2, <3>2, <4>1, <4>2 DEF Past
    <3> QED
      BY <3>1, <3>2
  <2> HIDE DEF h
  <2> QED
    BY <2>1, <1>6 DEF Q, LeftOf
<1>8. h \in [1 .. m - 1 -> Q]
  BY <1>7
<1>9. ASSUME NEW i \in 1 .. m - 1, NEW j \in 1 .. m - 1, i < j PROVE h[i] < h[j]
  <2>1. i \in 1 .. m /\ j \in 1 .. m /\ i + 1 \in 1 .. m /\ j + 1 \in 1 .. m /\ i < j + 1 /\ i + 1 < j + 1
    BY <1>9
  <2>2. g[i] < g[j] /\ g[i + 1] < g[j + 1] /\ g[i] < g[j + 1]
    BY <1>6, <1>9, <2>1
  <2>3. g[i] \in Nat /\ g[j] \in Nat /\ g[i + 1] \in Nat /\ g[j + 1] \in Nat
    BY <1>6, <2>1
  <2>4. CASE ~(j < q) /\ i < q
    <3>1. g[i] < g[q] /\ g[q] < g[j + 1] /\ g[q] \in Nat
      BY <1>6, <2>1, <2>4
    <3> QED
      BY <2>3, <2>4, <3>1
  <2>5. CASE j < q \/ ~(i < q)
    BY <2>2, <2>3, <2>5, <1>9
  <2> QED
    BY <2>4, <2>5
<1>10. ASSUME NEW p \in Q PROVE \E n \in 1 .. m - 1 : h[n] = p
  <2>1. p \in 1 .. size - 1 /\ Past(p, k) \in P
    BY DEF Q, LeftOf
  <2>2. PICK n \in 1 .. m : g[n] = Past(p, k)
    BY <2>1 DEF Listing
  <2>3. n # q
    BY <2>1, <2>2, <1>2 DEF Past
  <2>4. CASE n < q
    <3>1. g[n] < g[q] /\ n \in 1 .. m - 1
      BY <1>6, <2>4
    <3>2. h[n] = p
      BY <2>1, <2>2, <2>4, <3>1, <1>2 DEF Past
    <3> QED
      BY <3>1, <3>2
  <2>5. CASE q < n
    <3>1. g[q] < g[n] /\ n - 1 \in 1 .. m - 1 /\ ~(n - 1 < q) /\ (n - 1) + 1 = n
      BY <1>6, <2>5
    <3>2. h[n - 1] = p
      BY <2>1, <2>2, <3>1, <1>2 DEF Past
    <3> QED
      BY <3>1, <3>2
  <2> QED
    BY <2>3, <2>4, <2>5
<1> HIDE DEF h
<1>11. Listing(h, m - 1, Q)
  BY <1>8, <1>9, <1>10 DEF Listing
<1>12. Q \in SUBSET (1 .. Len(less))
  BY <1>4 DEF Q, LeftOf
<1>13. /\ EntriesAt(less, Q) \in Seq(A) /\ Len(EntriesAt(less, Q)) = m - 1
       /\ \A n \in 1 .. m - 1 : EntriesAt(less, Q)[n] = less[h[n]]
  BY <1>1, <1>4, <1>11, <1>12, EntriesAre
<1>14. ASSUME NEW n \in 1 .. m - 1 PROVE less[h[n]] = RemoveAt(e, q)[n]
  <2>1. h[n] \in 1 .. size - 1 /\ Past(h[n], k) = g[Past(n, q)] /\ Past(n, q) \in 1 .. m
    BY <1>7
  <2>2. less[h[n]] = list[g[Past(n, q)]]
    BY <1>4, <2>1
  <2>3. RemoveAt(e, q)[n] = e[Past(n, q)]
    BY <1>5
  <2>4. e[Past(n, q)] = list[g[Past(n, q)]]
    BY <1>3, <2>1
  <2> QED
    BY <2>2, <2>3, <2>4
<1>15. EntriesAt(less, Q) = RemoveAt(e, q)
  BY <1>5, <1>13, <1>14, SameSeq
<1> QED
  BY <1>15 DEF less, Q, size, e

(* How many entries of a list are among some values.                       *)
Among(s, V) == {i \in DOMAIN s : s[i] \in V}
Count(s, V) == Cardinality(Among(s, V))

LEMMA CountType ==
  ASSUME NEW A, NEW s \in Seq(A), NEW V
  PROVE  IsFiniteSet(Among(s, V)) /\ Count(s, V) \in Nat
<1>1. DOMAIN s = 1 .. Len(s) /\ Len(s) \in Nat
  OBVIOUS
<1>2. IsFiniteSet(1 .. Len(s))
  BY <1>1, FS_Interval
<1>3. Among(s, V) \in SUBSET (1 .. Len(s))
  BY <1>1 DEF Among
<1>4. IsFiniteSet(Among(s, V))
  BY <1>2, <1>3, FS_Subset
<1> QED
  BY <1>4, FS_CardinalityType DEF Count

LEMMA CountNone == \A V : Count(<<>>, V) = 0
<1>1. \A V : Among(<<>>, V) = {}
  BY DEF Among
<1> QED
  BY <1>1, FS_EmptySet DEF Count

LEMMA CountJoin ==
  ASSUME NEW A, NEW u \in Seq(A), NEW w \in Seq(A), NEW V
  PROVE  Count(u \o w, V) = Count(u, V) + Count(w, V)
<1> DEFINE a == Len(u)
           b == Len(w)
           high == {i \in 1 .. a + b : i > a /\ w[i - a] \in V}
           Shifted == [j \in Among(w, V) |-> a + j]
<1>1. a \in Nat /\ b \in Nat /\ DOMAIN u = 1 .. a /\ DOMAIN w = 1 .. b
  OBVIOUS
<1>2. /\ u \o w \in Seq(A) /\ DOMAIN (u \o w) = 1 .. a + b
      /\ \A i \in 1 .. a + b : (u \o w)[i] = IF i <= a THEN u[i] ELSE w[i - a]
  BY JoinIs
<1> HIDE DEF a, b
<1>3. Among(u \o w, V) = Among(u, V) \cup high
  <2>1. ASSUME NEW i PROVE i \in Among(u \o w, V) <=> i \in Among(u, V) \cup high
    <3>1. CASE i \in 1 .. a + b /\ i <= a
      <4>1. i \in 1 .. a /\ (u \o w)[i] = u[i]
        BY <3>1, <1>1, <1>2
      <4> QED
        BY <3>1, <4>1, <1>1, <1>2 DEF Among
    <3>2. CASE i \in 1 .. a + b /\ ~(i <= a)
      <4>1. i \notin 1 .. a /\ (u \o w)[i] = w[i - a] /\ i > a
        BY <3>2, <1>1, <1>2
      <4> QED
        BY <3>2, <4>1, <1>1, <1>2 DEF Among
    <3>3. CASE i \notin 1 .. a + b
      <4>1. i \notin 1 .. a
        BY <3>3, <1>1
      <4> QED
        BY <3>3, <4>1, <1>1, <1>2 DEF Among
    <3> QED
      BY <3>1, <3>2, <3>3
  <2> HIDE DEF high
  <2> QED
    BY <2>1
<1>4. IsFiniteSet(high) /\ Cardinality(high) = Count(w, V)
  <2>1. \A j \in Among(w, V) : j \in 1 .. b /\ w[j] \in V
    BY <1>1 DEF Among
  <2>2. ASSUME NEW j \in Among(w, V) PROVE Shifted[j] \in high /\ Shifted[j] = a + j
    <3>1. j \in 1 .. b /\ a + j \in 1 .. a + b /\ a + j > a /\ (a + j) - a = j
      BY <2>1, <1>1
    <3> QED
      BY <2>1, <3>1
  <2>3. ASSUME NEW i \in high PROVE \E j \in Among(w, V) : Shifted[j] = i
    <3>1. i - a \in 1 .. b /\ a + (i - a) = i /\ w[i - a] \in V
      BY <1>1
    <3>2. i - a \in Among(w, V)
      BY <1>1, <3>1 DEF Among
    <3> QED
      BY <3>1, <3>2
  <2>4. \A j, k \in Among(w, V) : Shifted[j] = Shifted[k] => j = k
    <3>1. \A j \in Among(w, V) : j \in Nat
      BY <1>1, <2>1
    <3> QED
      BY <1>1, <3>1, <2>2
  <2>5. Shifted \in [Among(w, V) -> high]
    BY <2>2
  <2>6. IsFiniteSet(Among(w, V))
    BY CountType
  <2> HIDE DEF Shifted, high
  <2> QED
    BY <2>3, <2>4, <2>5, <2>6, SameNumber DEF Count
<1>5. Among(u, V) \cap high = {}
  <2>1. \A i \in Among(u, V) : i \in 1 .. a
    BY <1>1 DEF Among
  <2> QED
    BY <1>1, <2>1
<1>6. IsFiniteSet(Among(u, V)) /\ Count(u, V) \in Nat /\ Count(w, V) \in Nat
  BY CountType
<1> HIDE DEF high
<1>7. Cardinality(Among(u \o w, V)) = Cardinality(Among(u, V)) + Cardinality(high) - Cardinality({})
  BY <1>3, <1>4, <1>5, <1>6, FS_Union
<1>8. Cardinality({}) = 0
  BY FS_EmptySet
<1> QED
  BY <1>4, <1>6, <1>7, <1>8 DEF Count

LEMMA CountEntries ==
  ASSUME NEW A, NEW list \in Seq(A), NEW P \in SUBSET (1 .. Len(list)), NEW V
  PROVE  Count(EntriesAt(list, P), V) = Cardinality({i \in P : list[i] \in V})
<1> DEFINE e == EntriesAt(list, P)
           S == {n \in DOMAIN e : e[n] \in V}
           T == {i \in P : list[i] \in V}
<1>1. Len(list) \in Nat
  OBVIOUS
<1>2. PICK m \in Nat : \E g : Listing(g, m, P)
  BY <1>1, Enumerated
<1>3. PICK g : Listing(g, m, P)
  BY <1>2
<1>4. e \in Seq(A) /\ Len(e) = m /\ \A n \in 1 .. m : e[n] = list[g[n]] /\ g[n] \in P
  BY <1>3, EntriesAre
<1> HIDE DEF e
<1>5. DOMAIN e = 1 .. m
  BY <1>4
<1> DEFINE h == [n \in S |-> g[n]]
<1>6. h \in [S -> T]
  BY <1>4, <1>5
<1>7. \A x, y \in S : h[x] = h[y] => x = y
  <2>1. \A x, y \in 1 .. m : g[x] = g[y] => x = y
    <3>1. \A x \in 1 .. m : g[x] \in Nat
      <4>1. \A i \in P : i \in Nat
        BY <1>1
      <4> QED
        BY <1>4, <4>1
    <3>2. \A x, y \in 1 .. m : x < y => g[x] < g[y]
      BY <1>3 DEF Listing
    <3> QED
      BY <3>1, <3>2
  <2> QED
    BY <1>5, <2>1
<1>8. ASSUME NEW i \in T PROVE \E n \in S : h[n] = i
  <2>1. PICK n \in 1 .. m : g[n] = i
    BY <1>3 DEF Listing
  <2>2. n \in S
    BY <1>4, <1>5, <2>1
  <2> QED
    BY <2>1, <2>2
<1>9. IsFiniteSet(S)
  <2>1. IsFiniteSet(1 .. m)
    BY FS_Interval
  <2>2. S \in SUBSET (1 .. m)
    BY <1>5
  <2> QED
    BY <2>1, <2>2, FS_Subset
<1> HIDE DEF h, S, T
<1>10. Cardinality(T) = Cardinality(S)
  BY <1>6, <1>7, <1>8, <1>9, SameNumber
<1> QED
  BY <1>10 DEF S, T, e, Count, Among

(* Lists one after the other: what there is after each of them.            *)
IsFlat(f, A, seqs) ==
  /\ f \in [0 .. Len(seqs) -> Seq(A)] /\ f[0] = <<>>
  /\ \A n \in 1 .. Len(seqs) : f[n] = f[n - 1] \o seqs[n]

LEMMA FlatExists ==
  ASSUME NEW A, NEW seqs \in Seq(Seq(A))
  PROVE  \E f : IsFlat(f, A, seqs) /\ FlattenSeq(seqs) = f[Len(seqs)]
<1> DEFINE last == Len(seqs)
           Body(f) == [i \in 1 .. last |-> IF i = 1 THEN seqs[i] ELSE f[i - 1] \o seqs[i]]
           b == CHOOSE g : g = Body(g)
           step == [n \in Nat |-> [s \in Seq(A) |-> IF n < last THEN s \o seqs[n + 1] ELSE s]]
<1>1. last \in Nat /\ \A n \in 1 .. last : seqs[n] \in Seq(A)
  OBVIOUS
<1>2. step \in [Nat -> [Seq(A) -> Seq(A)]]
  <2> SUFFICES ASSUME NEW n \in Nat, NEW s \in Seq(A)
               PROVE  (IF n < last THEN s \o seqs[n + 1] ELSE s) \in Seq(A)
    OBVIOUS
  <2>1. n < last => n + 1 \in 1 .. last
    BY <1>1
  <2> HIDE DEF last
  <2>2. n < last => s \o seqs[n + 1] \in Seq(A)
    BY <1>1, <2>1
  <2> QED
    BY <2>2
<1>3. <<>> \in Seq(A)
  OBVIOUS
<1>4. PICK g : Follows(g, Seq(A), <<>>, step)
  <2> HIDE DEF step
  <2> QED
    BY <1>2, <1>3, RecursionExists
<1>5. /\ g[0] = <<>> /\ \A n \in 0 .. last : g[n] \in Seq(A)
      /\ \A n \in 1 .. last : g[n] = g[n - 1] \o seqs[n]
  <2>1. ASSUME NEW n \in 1 .. last PROVE g[n] = g[n - 1] \o seqs[n]
    <3>1. n - 1 \in Nat /\ n - 1 < last /\ (n - 1) + 1 = n
      BY <1>1
    <3>2. g[n] = step[n - 1][g[n - 1]] /\ g[n - 1] \in Seq(A)
      BY <1>4, <3>1 DEF Follows
    <3> QED
      BY <3>1, <3>2
  <2>2. g \in [Nat -> Seq(A)] /\ g[0] = <<>>
    BY <1>4 DEF Follows
  <2>3. \A n \in 0 .. last : n \in Nat
    BY <1>1
  <2> HIDE DEF step
  <2> QED
    BY <2>1, <2>2, <2>3
<1> HIDE DEF step
<1> DEFINE f == [n \in 0 .. last |-> g[n]]
<1>6. IsFlat(f, A, seqs)
  <2>1. \A n \in 1 .. last : n \in 0 .. last /\ n - 1 \in 0 .. last
    BY <1>1
  <2>2. 0 \in 0 .. last
    BY <1>1
  <2> HIDE DEF last
  <2>3. /\ f \in [0 .. last -> Seq(A)] /\ f[0] = <<>>
        /\ \A n \in 1 .. last : f[n] = f[n - 1] \o seqs[n]
    BY <1>5, <2>1, <2>2
  <2> QED
    BY <2>3 DEF IsFlat, last
<1>7. CASE last = 0
  <2>1. FlattenSeq(seqs) = seqs
    BY <1>7 DEF FlattenSeq
  <2>2. seqs = <<>>
    BY <1>7
  <2>3. f[last] = <<>>
    BY <1>5, <1>7
  <2> HIDE DEF f
  <2> QED
    BY <1>6, <2>1, <2>2, <2>3
<1>8. CASE last # 0
  <2>1. FlattenSeq(seqs) = b[last]
    BY <1>8 DEF FlattenSeq
  <2>7. g[1] = seqs[1]
    <3>1. 1 \in 1 .. last
      BY <1>1, <1>8
    <3> HIDE DEF last
    <3>2. g[1] = g[1 - 1] \o seqs[1]
      BY <1>5, <3>1
    <3>5. 1 - 1 = 0
      OBVIOUS
    <3>6. g[0] = <<>>
      BY <1>5
    <3>3. g[1] = <<>> \o seqs[1]
      BY <3>2, <3>5, <3>6
    <3>4. seqs[1] \in Seq(A)
      BY <1>1, <3>1
    <3> QED
      BY <3>3, <3>4
  <2> DEFINE h == [i \in 1 .. last |-> g[i]]
  <2>2. h = Body(h)
    <3>1. ASSUME NEW i \in 1 .. last PROVE g[i] = IF i = 1 THEN seqs[i] ELSE h[i - 1] \o seqs[i]
      <4>1. CASE i = 1
        BY <4>1, <2>7
      <4>2. CASE i # 1
        <5>1. i - 1 \in 1 .. last
          BY <4>2, <1>1
        <5> QED
          BY <4>2, <5>1, <1>5
      <4> QED
        BY <4>1, <4>2
    <3> HIDE DEF last
    <3> QED
      BY <3>1
  <2>3. b = Body(b)
    <3> HIDE DEF h
    <3> QED
      BY <2>2
  <2> HIDE DEF b
  <2>4. ASSUME NEW n \in Nat PROVE n \in {k \in Nat : k + 1 <= last => b[k + 1] = g[k + 1]}
    <3> DEFINE S == {k \in Nat : k + 1 <= last => b[k + 1] = g[k + 1]}
    <3>1. \A i \in 1 .. last : b[i] = IF i = 1 THEN seqs[i] ELSE b[i - 1] \o seqs[i]
      <4> HIDE DEF last
      <4> QED
        BY <2>3
    <3>2. 0 \in S
      <4>1. 1 \in 1 .. last /\ h[1] = g[1]
        BY <1>1, <1>8
      <4>2. b[1] = seqs[1]
        BY <3>1, <4>1
      <4> QED
        BY <4>2, <2>7
    <3>3. ASSUME NEW k \in S PROVE k + 1 \in S
      <4> SUFFICES ASSUME (k + 1) + 1 <= last PROVE b[(k + 1) + 1] = g[(k + 1) + 1]
        OBVIOUS
      <4>1. (k + 1) + 1 \in 1 .. last /\ (k + 1) + 1 # 1 /\ ((k + 1) + 1) - 1 = k + 1 /\ k + 1 <= last
        BY <1>1
      <4>2. b[(k + 1) + 1] = b[k + 1] \o seqs[(k + 1) + 1]
        BY <3>1, <4>1
      <4>3. g[(k + 1) + 1] = g[k + 1] \o seqs[(k + 1) + 1]
        BY <1>5, <4>1
      <4> QED
        BY <4>1, <4>2, <4>3
    <3>4. S \in SUBSET Nat
      OBVIOUS
    <3> HIDE DEF S
    <3>5. n \in S
      BY <3>2, <3>3, <3>4, SetInduction
    <3> QED
      BY <3>5 DEF S
  <2>5. b[last] = g[last]
    <3>1. last - 1 \in Nat /\ (last - 1) + 1 = last
      BY <1>1, <1>8
    <3>2. last - 1 \in {k \in Nat : k + 1 <= last => b[k + 1] = g[k + 1]}
      BY <2>4, <3>1
    <3> HIDE DEF last
    <3> QED
      BY <3>1, <3>2
  <2>6. f[last] = g[last]
    BY <1>1
  <2> HIDE DEF f
  <2> QED
    BY <1>6, <2>1, <2>5, <2>6
<1> QED
  BY <1>7, <1>8

Values(s) == {s[i] : i \in DOMAIN s}

LEMMA JoinValues ==
  ASSUME NEW A, NEW u \in Seq(A), NEW w \in Seq(A)
  PROVE  Values(u \o w) = Values(u) \cup Values(w)
<1> DEFINE a == Len(u)
           b == Len(w)
<1>1. a \in Nat /\ b \in Nat /\ DOMAIN u = 1 .. a /\ DOMAIN w = 1 .. b
  OBVIOUS
<1>2. /\ DOMAIN (u \o w) = 1 .. a + b
      /\ \A i \in 1 .. a + b : (u \o w)[i] = IF i <= a THEN u[i] ELSE w[i - a]
  BY JoinIs
<1> HIDE DEF a, b
<1>3. ASSUME NEW i \in 1 .. a + b PROVE (u \o w)[i] \in Values(u) \cup Values(w)
  <2>1. CASE i <= a
    <3>1. i \in DOMAIN u /\ (u \o w)[i] = u[i]
      BY <1>1, <1>2, <2>1
    <3> QED
      BY <3>1 DEF Values
  <2>2. CASE ~(i <= a)
    <3>1. i - a \in DOMAIN w /\ (u \o w)[i] = w[i - a]
      BY <1>1, <1>2, <2>2
    <3> QED
      BY <3>1 DEF Values
  <2> QED
    BY <2>1, <2>2
<1>4. ASSUME NEW i \in 1 .. a PROVE u[i] \in Values(u \o w)
  <2>1. i \in 1 .. a + b /\ i <= a
    BY <1>1
  <2> QED
    BY <2>1, <1>2 DEF Values
<1>5. ASSUME NEW i \in 1 .. b PROVE w[i] \in Values(u \o w)
  <2>1. a + i \in 1 .. a + b /\ ~(a + i <= a) /\ (a + i) - a = i
    BY <1>1
  <2>2. (u \o w)[a + i] = w[i]
    BY <2>1, <1>2
  <2> QED
    BY <2>1, <2>2, <1>2 DEF Values
<1>6. Values(u \o w) \subseteq Values(u) \cup Values(w)
  BY <1>2, <1>3 DEF Values
<1>7. Values(u) \subseteq Values(u \o w) /\ Values(w) \subseteq Values(u \o w)
  BY <1>1, <1>4, <1>5 DEF Values
<1> QED
  BY <1>6, <1>7

LEMMA FlatValues ==
  ASSUME NEW A, NEW seqs \in Seq(Seq(A))
  PROVE  /\ FlattenSeq(seqs) \in Seq(A)
         /\ Values(FlattenSeq(seqs)) = UNION {Values(seqs[n]) : n \in 1 .. Len(seqs)}
<1>1. PICK f : IsFlat(f, A, seqs) /\ FlattenSeq(seqs) = f[Len(seqs)]
  BY FlatExists
<1> DEFINE last == Len(seqs)
           S == {k \in Nat : k <= last => Values(f[k]) = UNION {Values(seqs[n]) : n \in 1 .. k}}
<1>2. last \in Nat /\ \A n \in 1 .. last : seqs[n] \in Seq(A)
  OBVIOUS
<1>3. 0 \in S
  <2>1. Values(<<>>) = {}
    BY DEF Values
  <2>2. f[0] = <<>>
    BY <1>1 DEF IsFlat
  <2> QED
    BY <2>1, <2>2
<1>4. ASSUME NEW k \in S PROVE k + 1 \in S
  <2> SUFFICES ASSUME k + 1 <= last PROVE Values(f[k + 1]) = UNION {Values(seqs[n]) : n \in 1 .. k + 1}
    OBVIOUS
  <2>0. k \in Nat /\ (k <= last => Values(f[k]) = UNION {Values(seqs[n]) : n \in 1 .. k})
    OBVIOUS
  <2> HIDE DEF S, last
  <2>1. k + 1 \in 1 .. last /\ k \in 0 .. last /\ (k + 1) - 1 = k /\ k <= last /\ k \in Nat
    BY <1>2, <2>0
  <2>2. f[k + 1] = f[k] \o seqs[k + 1] /\ f[k] \in Seq(A)
    <3>1. f[k + 1] = f[(k + 1) - 1] \o seqs[k + 1]
      BY <1>1, <2>1 DEF IsFlat, last
    <3> QED
      BY <1>1, <2>1, <3>1 DEF IsFlat, last
  <2>3. Values(f[k + 1]) = Values(f[k]) \cup Values(seqs[k + 1])
    BY <1>2, <2>1, <2>2, JoinValues
  <2>4. Values(f[k]) = UNION {Values(seqs[n]) : n \in 1 .. k}
    BY <2>0, <2>1
  <2>5. 1 .. k + 1 = (1 .. k) \cup {k + 1}
    BY <2>1
  <2>6. UNION {Values(seqs[n]) : n \in 1 .. k + 1} = (UNION {Values(seqs[n]) : n \in 1 .. k}) \cup Values(seqs[k + 1])
    BY <2>5
  <2> QED
    BY <2>3, <2>4, <2>6
<1>5. S \in SUBSET Nat
  OBVIOUS
<1>6. last \in S
  <2> HIDE DEF S
  <2> QED
    BY <1>2, <1>3, <1>4, <1>5, SetInduction
<1>7. f[last] \in Seq(A)
  BY <1>1, <1>2 DEF IsFlat
<1> QED
  BY <1>1, <1>2, <1>6, <1>7

LEMMA FlatPadded ==
  ASSUME NEW A, NEW seqs \in Seq(Seq(A)), NEW k \in 0 .. Len(seqs), \A n \in k + 1 .. Len(seqs) : seqs[n] = <<>>
  PROVE  FlattenSeq(seqs) = FlattenSeq([n \in 1 .. k |-> seqs[n]])
<1> DEFINE last == Len(seqs)
           cut == [n \in 1 .. k |-> seqs[n]]
<1>1. last \in Nat /\ k \in Nat /\ k <= last /\ \A n \in 1 .. last : seqs[n] \in Seq(A)
  OBVIOUS
<1>2. cut \in Seq(Seq(A)) /\ Len(cut) = k /\ \A n \in 1 .. k : cut[n] = seqs[n]
  <2>1. \A n \in 1 .. k : n \in 1 .. last
    BY <1>1
  <2> HIDE DEF last
  <2>2. cut \in [1 .. k -> Seq(A)]
    BY <1>1, <2>1
  <2> QED
    BY <1>1, <2>2
<1> HIDE DEF cut
<1>3. PICK f : IsFlat(f, A, seqs) /\ FlattenSeq(seqs) = f[Len(seqs)]
  BY FlatExists
<1>4. PICK g : IsFlat(g, A, cut) /\ FlattenSeq(cut) = g[Len(cut)]
  BY <1>2, FlatExists
<1>5. /\ f[0] = <<>> /\ g[0] = <<>> /\ \A n \in 0 .. last : f[n] \in Seq(A)
      /\ \A n \in 1 .. last : f[n] = f[n - 1] \o seqs[n]
      /\ \A n \in 1 .. k : g[n] = g[n - 1] \o cut[n]
  BY <1>2, <1>3, <1>4 DEF IsFlat
<1> DEFINE S == {n \in Nat : (n <= k => f[n] = g[n]) /\ (n <= last /\ k <= n => f[n] = g[k])}
<1> HIDE DEF last
<1>6. 0 \in S
  BY <1>1, <1>5
<1>7. ASSUME NEW n \in S PROVE n + 1 \in S
  <2>1. n \in Nat /\ (n <= k => f[n] = g[n]) /\ (n <= last /\ k <= n => f[n] = g[k]) /\ (n + 1) - 1 = n
    OBVIOUS
  <2>2. ASSUME n + 1 <= k PROVE f[n + 1] = g[n + 1]
    <3>1. n + 1 \in 1 .. k /\ n + 1 \in 1 .. last /\ n <= k
      BY <1>1, <2>1, <2>2
    <3>2. f[n + 1] = f[n] \o seqs[n + 1]
      BY <1>5, <2>1, <3>1
    <3>3. g[n + 1] = g[n] \o cut[n + 1]
      BY <1>5, <2>1, <3>1
    <3> QED
      BY <1>2, <2>1, <3>1, <3>2, <3>3
  <2>3. ASSUME n + 1 <= last, k <= n PROVE f[n + 1] = g[k]
    <3>1. n + 1 \in k + 1 .. last /\ n + 1 \in 1 .. last /\ n \in 0 .. last
      BY <1>1, <2>1, <2>3
    <3>2. f[n + 1] = f[n] \o seqs[n + 1]
      BY <1>5, <2>1, <3>1
    <3>3. seqs[n + 1] = <<>>
      BY <3>1 DEF last
    <3>4. f[n] \in Seq(A)
      BY <1>5, <3>1
    <3>5. f[n + 1] = f[n]
      BY <3>2, <3>3, <3>4
    <3> QED
      BY <2>1, <2>3, <3>1, <3>5
  <2>4. ASSUME n + 1 <= last, k <= n + 1 PROVE f[n + 1] = g[k]
    <3>1. k <= n \/ k = n + 1
      BY <1>1, <2>1, <2>4
    <3>2. CASE k = n + 1
      BY <2>2, <3>2, <1>1
    <3> QED
      BY <2>3, <2>4, <3>1, <3>2
  <2> QED
    BY <2>1, <2>2, <2>4
<1>8. S \in SUBSET Nat
  OBVIOUS
<1>9. last \in S
  <2> HIDE DEF S
  <2> QED
    BY <1>1, <1>6, <1>7, <1>8, SetInduction
<1>10. f[last] = g[k]
  BY <1>1, <1>9
<1> QED
  BY <1>2, <1>3, <1>4, <1>10 DEF last, cut

LEMMA DataJoin ==
  ASSUME NEW A, NEW B, \A a \in A : a.data \in B, NEW u \in Seq(A), NEW w \in Seq(A)
  PROVE  /\ DataOf(u) \in Seq(B) /\ Len(DataOf(u)) = Len(u) /\ \A i \in 1 .. Len(u) : DataOf(u)[i] = u[i].data
         /\ DataOf(u \o w) = DataOf(u) \o DataOf(w)
<1>1. ASSUME NEW s \in Seq(A)
      PROVE  DataOf(s) \in Seq(B) /\ Len(DataOf(s)) = Len(s) /\ \A i \in 1 .. Len(s) : DataOf(s)[i] = s[i].data
  <2>1. DOMAIN s = 1 .. Len(s) /\ Len(s) \in Nat /\ \A i \in 1 .. Len(s) : s[i] \in A
    OBVIOUS
  <2>2. DataOf(s) = [i \in 1 .. Len(s) |-> s[i].data]
    BY <2>1 DEF DataOf
  <2>3. DataOf(s) \in [1 .. Len(s) -> B]
    BY <2>1, <2>2
  <2> QED
    BY <2>1, <2>2, <2>3
<1> DEFINE a == Len(u)
           b == Len(w)
<1>2. a \in Nat /\ b \in Nat
  OBVIOUS
<1>3. /\ u \o w \in Seq(A) /\ Len(u \o w) = a + b
      /\ \A i \in 1 .. a + b : (u \o w)[i] = IF i <= a THEN u[i] ELSE w[i - a]
  BY JoinIs
<1>4. /\ DataOf(u) \in Seq(B) /\ Len(DataOf(u)) = a /\ \A i \in 1 .. a : DataOf(u)[i] = u[i].data
      /\ DataOf(w) \in Seq(B) /\ Len(DataOf(w)) = b /\ \A i \in 1 .. b : DataOf(w)[i] = w[i].data
  BY <1>1
<1> HIDE DEF a, b
<1>5. /\ DataOf(u \o w) \in Seq(B) /\ Len(DataOf(u \o w)) = a + b
      /\ \A i \in 1 .. a + b : DataOf(u \o w)[i] = (u \o w)[i].data
  BY <1>1, <1>3
<1>6. /\ DataOf(u) \o DataOf(w) \in Seq(B) /\ Len(DataOf(u) \o DataOf(w)) = a + b
      /\ \A i \in 1 .. a + b : (DataOf(u) \o DataOf(w))[i] = IF i <= a THEN DataOf(u)[i] ELSE DataOf(w)[i - a]
  BY <1>4, JoinIs
<1>7. ASSUME NEW i \in 1 .. a + b PROVE DataOf(u \o w)[i] = (DataOf(u) \o DataOf(w))[i]
  <2>1. CASE i <= a
    <3>1. i \in 1 .. a
      BY <1>2, <2>1
    <3>2. (u \o w)[i] = u[i] /\ (DataOf(u) \o DataOf(w))[i] = DataOf(u)[i]
      BY <1>3, <1>6, <2>1
    <3>3. DataOf(u)[i] = u[i].data /\ DataOf(u \o w)[i] = (u \o w)[i].data
      BY <1>4, <1>5, <3>1
    <3> QED
      BY <3>2, <3>3, Zenon
  <2>2. CASE ~(i <= a)
    <3>1. i - a \in 1 .. b
      BY <1>2, <2>2
    <3>2. (u \o w)[i] = w[i - a] /\ (DataOf(u) \o DataOf(w))[i] = DataOf(w)[i - a]
      BY <1>3, <1>6, <2>2
    <3>3. DataOf(w)[i - a] = w[i - a].data /\ DataOf(u \o w)[i] = (u \o w)[i].data
      BY <1>4, <1>5, <3>1
    <3> QED
      BY <3>2, <3>3, Zenon
  <2> QED
    BY <2>1, <2>2
<1>8. DataOf(u \o w) = DataOf(u) \o DataOf(w)
  BY <1>5, <1>6, <1>7, SameSeq
<1> QED
  BY <1>4, <1>8 DEF a

LEMMA FlatData ==
  ASSUME NEW A, NEW B, \A a \in A : a.data \in B, NEW seqs \in Seq(Seq(A))
  PROVE  DataOf(FlattenSeq(seqs)) = FlattenSeq([n \in 1 .. Len(seqs) |-> DataOf(seqs[n])])
<1> DEFINE last == Len(seqs)
           other == [n \in 1 .. last |-> DataOf(seqs[n])]
<1>1. last \in Nat /\ \A n \in 1 .. last : seqs[n] \in Seq(A)
  OBVIOUS
<1>2. other \in Seq(Seq(B)) /\ Len(other) = last /\ \A n \in 1 .. last : other[n] = DataOf(seqs[n])
  <2>1. \A n \in 1 .. last : DataOf(seqs[n]) \in Seq(B)
    BY <1>1, DataJoin
  <2> HIDE DEF last
  <2>2. other \in [1 .. last -> Seq(B)]
    BY <2>1
  <2> QED
    BY <1>1, <2>2
<1> HIDE DEF other
<1>3. PICK f : IsFlat(f, A, seqs) /\ FlattenSeq(seqs) = f[Len(seqs)]
  BY FlatExists
<1>4. PICK g : IsFlat(g, B, other) /\ FlattenSeq(other) = g[Len(other)]
  BY <1>2, FlatExists
<1>5. /\ f[0] = <<>> /\ g[0] = <<>> /\ \A n \in 0 .. last : f[n] \in Seq(A)
      /\ \A n \in 1 .. last : f[n] = f[n - 1] \o seqs[n] /\ g[n] = g[n - 1] \o other[n]
  BY <1>2, <1>3, <1>4 DEF IsFlat
<1> DEFINE S == {n \in Nat : n <= last => DataOf(f[n]) = g[n]}
<1> HIDE DEF last
<1>6. 0 \in S
  <2>1. DataOf(<<>>) = <<>>
    BY DEF DataOf
  <2> QED
    BY <1>5, <2>1
<1>7. ASSUME NEW n \in S PROVE n + 1 \in S
  <2> SUFFICES ASSUME n + 1 <= last PROVE DataOf(f[n + 1]) = g[n + 1]
    OBVIOUS
  <2>1. n + 1 \in 1 .. last /\ n \in 0 .. last /\ (n + 1) - 1 = n /\ DataOf(f[n]) = g[n]
    BY <1>1
  <2>2. f[n + 1] = f[n] \o seqs[n + 1] /\ g[n + 1] = g[n] \o other[n + 1]
    <3>1. f[n + 1] = f[(n + 1) - 1] \o seqs[n + 1] /\ g[n + 1] = g[(n + 1) - 1] \o other[n + 1]
      BY <1>5, <2>1
    <3> QED
      BY <2>1, <3>1
  <2>3. DataOf(f[n] \o seqs[n + 1]) = DataOf(f[n]) \o DataOf(seqs[n + 1])
    <3>1. f[n] \in Seq(A) /\ seqs[n + 1] \in Seq(A)
      BY <1>1, <1>5, <2>1
    <3> QED
      BY <3>1, DataJoin
  <2> QED
    BY <1>2, <2>1, <2>2, <2>3
<1>8. S \in SUBSET Nat
  OBVIOUS
<1>9. last \in S
  <2> HIDE DEF S
  <2> QED
    BY <1>1, <1>6, <1>7, <1>8, SetInduction
<1> QED
  BY <1>1, <1>2, <1>3, <1>4, <1>9 DEF last, other

(***************************************************************************)
(* Prefixes and the paths of the tree: powers of two and division.         *)
(***************************************************************************)

(* Powers of two, again by counting subsets.                               *)
LEMMA PowerZero == 2^0 = 1
<1>1. IsFiniteSet({}) /\ Cardinality({}) = 0
  BY FS_EmptySet
<1>2. Cardinality(SUBSET {}) = 2^0
  BY <1>1, FS_SUBSET
<1>3. SUBSET {} = {{}}
  OBVIOUS
<1>4. Cardinality({{}}) = 1
  BY FS_Singleton
<1> QED
  BY <1>2, <1>3, <1>4

LEMMA PowerNext ==
  ASSUME NEW m \in Nat
  PROVE  2^(m + 1) = 2 * 2^m
<1> DEFINE S == SUBSET (1 .. m)
           T == {X \cup {m + 1} : X \in S}
           f == [X \in S |-> X \cup {m + 1}]
<1>1. IsFiniteSet(1 .. m) /\ Cardinality(1 .. m) = m /\ IsFiniteSet(1 .. m + 1) /\ Cardinality(1 .. m + 1) = m + 1
  <2>1. m + 1 \in Nat
    OBVIOUS
  <2> QED
    BY <2>1, FirstNumbers
<1>2. IsFiniteSet(S) /\ Cardinality(S) = 2^m /\ Cardinality(SUBSET (1 .. m + 1)) = 2^(m + 1)
  BY <1>1, FS_SUBSET
<1>3. SUBSET (1 .. m + 1) = S \cup T
  <2>1. 1 .. m + 1 = (1 .. m) \cup {m + 1}
    OBVIOUS
  <2>2. ASSUME NEW X \in SUBSET (1 .. m + 1) PROVE X \in S \cup T
    <3>1. CASE m + 1 \in X
      <4>1. X \ {m + 1} \in S /\ X = (X \ {m + 1}) \cup {m + 1}
        BY <2>1, <3>1
      <4> QED
        BY <4>1
    <3>2. CASE m + 1 \notin X
      BY <2>1, <3>2
    <3> QED
      BY <3>1, <3>2
  <2>3. S \cup T \subseteq SUBSET (1 .. m + 1)
    BY <2>1
  <2> HIDE DEF S, T
  <2> QED
    BY <2>2, <2>3
<1>4. m + 1 \notin 1 .. m
  OBVIOUS
<1>5. S \cap T = {}
  BY <1>4
<1>6. f \in [S -> T] /\ (\A Y \in T : \E X \in S : f[X] = Y)
  OBVIOUS
<1>7. \A X, Y \in S : f[X] = f[Y] => X = Y
  <2>1. \A X \in S : f[X] \ {m + 1} = X
    BY <1>4
  <2> HIDE DEF S, f
  <2> QED
    BY <2>1
<1> HIDE DEF S, T, f
<1>8. IsFiniteSet(T) /\ Cardinality(T) = Cardinality(S)
  BY <1>2, <1>6, <1>7, SameNumber
<1>9. Cardinality(S \cup T) = Cardinality(S) + Cardinality(T) - Cardinality({})
  BY <1>2, <1>5, <1>8, FS_Union
<1>10. Cardinality({}) = 0
  BY FS_EmptySet
<1>11. 2^m \in Nat
  BY Powers
<1>12. \A z \in Nat : z + z - 0 = 2 * z
  OBVIOUS
<1>13. Cardinality(S \cup T) = 2^m + 2^m - 0
  BY <1>2, <1>8, <1>9, <1>10
<1> QED
  BY <1>2, <1>3, <1>11, <1>12, <1>13

LEMMA PowerSum ==
  ASSUME NEW m \in Nat, NEW n \in Nat
  PROVE  2^(m + n) = 2^m * 2^n
<1> DEFINE S == {k \in Nat : 2^(m + k) = 2^m * 2^k}
<1>0. \A k \in Nat : 2^k \in Nat
  BY Powers
<1>1. 0 \in S
  <2>1. m + 0 = m /\ 2^m * 1 = 2^m
    BY <1>0
  <2> QED
    BY <2>1, PowerZero
<1>2. ASSUME NEW k \in S PROVE k + 1 \in S
  <2>1. k \in Nat /\ k + 1 \in Nat /\ m + k \in Nat /\ 2^(m + k) = 2^m * 2^k /\ m + (k + 1) = (m + k) + 1
    OBVIOUS
  <2>2. 2^((m + k) + 1) = 2 * 2^(m + k) /\ 2^(k + 1) = 2 * 2^k
    BY <2>1, PowerNext
  <2>3. \A a, b \in Nat : 2 * (a * b) = a * (2 * b)
    OBVIOUS
  <2>4. 2 * (2^m * 2^k) = 2^m * (2 * 2^k)
    BY <1>0, <2>1, <2>3
  <2> QED
    BY <2>1, <2>2, <2>4
<1>3. S \in SUBSET Nat
  OBVIOUS
<1>4. n \in S
  <2> HIDE DEF S
  <2> QED
    BY <1>1, <1>2, <1>3, SetInduction
<1> QED
  BY <1>4

LEMMA Multiples ==
  ASSUME NEW p \in Nat \ {0}, NEW x \in Nat, NEW y \in Nat, x < y
  PROVE  p * x + p <= p * y
<1>1. \A d \in Nat \ {0} : p * (x + d) = p * x + p * d /\ p * d >= p
  <2> SUFFICES ASSUME NEW d \in Nat \ {0} PROVE p * (x + d) = p * x + p * d /\ p * d >= p
    OBVIOUS
  <2>1. p * (x + d) = p * x + p * d
    OBVIOUS
  <2>2. p * d >= p
    <3>1. d - 1 \in Nat /\ d = 1 + (d - 1)
      OBVIOUS
    <3>2. \A e \in Nat : p * (1 + e) = p + p * e /\ p * e >= 0
      OBVIOUS
    <3>3. p * d = p + p * (d - 1) /\ p * (d - 1) >= 0 /\ p * (d - 1) \in Int
      BY <3>1, <3>2
    <3> QED
      BY <3>3
  <2> QED
    BY <2>1, <2>2
<1>2. y - x \in Nat \ {0} /\ x + (y - x) = y
  OBVIOUS
<1>3. p * x \in Nat /\ p * (y - x) \in Nat
  BY <1>2
<1> QED
  BY <1>1, <1>2, <1>3

LEMMA Divided ==
  ASSUME NEW a \in Nat, NEW p \in Nat \ {0}, NEW q \in Nat, NEW r \in Nat, a = p * q + r, r < p
  PROVE  a \div p = q /\ a % p = r
<1> DEFINE x == a \div p
           y == a % p
<1>1. x \in Nat /\ y \in 0 .. (p - 1) /\ a = p * x + y
  BY Division
<1> HIDE DEF x, y
<1>2. CASE x < q
  <2>1. p * x + p <= p * q
    BY <1>1, <1>2, Multiples
  <2>2. p * x \in Nat /\ p * q \in Nat
    BY <1>1
  <2> QED
    BY <1>1, <2>1, <2>2
<1>3. CASE q < x
  <2>1. p * q + p <= p * x
    BY <1>1, <1>3, Multiples
  <2>2. p * x \in Nat /\ p * q \in Nat
    BY <1>1
  <2> QED
    BY <1>1, <2>1, <2>2
<1>4. CASE q = x
  <2>1. p * x \in Nat
    BY <1>1
  <2> QED
    BY <1>1, <1>4, <2>1 DEF x, y
<1> QED
  BY <1>1, <1>2, <1>3, <1>4

LEMMA Products ==
  ASSUME NEW a \in Int, NEW b \in Int, NEW c \in Int
  PROVE  a * b \in Int /\ (a * b) * c = a * (b * c) /\ a * (b + c) = a * b + a * c
OBVIOUS

LEMMA NatProducts ==
  ASSUME NEW a \in Nat \ {0}, NEW b \in Nat \ {0}
  PROVE  a * b \in Nat \ {0}
OBVIOUS

LEMMA DividedTwice ==
  ASSUME NEW a \in Nat, NEW p \in Nat \ {0}, NEW q \in Nat \ {0}
  PROVE  a \div (p * q) = (a \div p) \div q
<1>1. PICK x, y \in Nat : x = a \div p /\ y = a % p /\ a = p * x + y /\ y < p
  <2>1. a \div p \in Nat /\ a % p \in 0 .. (p - 1) /\ a = p * (a \div p) + (a % p)
    BY Division
  <2> QED
    BY <2>1
<1>2. PICK u, v \in Nat : u = x \div q /\ x = q * u + v /\ v < q
  <2>1. x \div q \in Nat /\ x % q \in 0 .. (q - 1) /\ x = q * (x \div q) + (x % q)
    BY Division
  <2> QED
    BY <2>1
<1>3. p * q \in Nat \ {0} /\ p * v \in Nat /\ p * (q * u) = (p * q) * u /\ (p * q) * u \in Nat /\ q * u \in Nat
  <2>1. p * q \in Nat \ {0}
    BY NatProducts
  <2>2. p * v \in Nat
    OBVIOUS
  <2>3. (p * q) * u = p * (q * u)
    BY Products
  <2>4. \A b, c \in Nat : b * c \in Nat
    OBVIOUS
  <2> QED
    BY <2>1, <2>2, <2>3, <2>4
<1>4. p * x = p * (q * u) + p * v
  <2>1. p * (q * u + v) = p * (q * u) + p * v
    BY <1>3, Products
  <2> QED
    BY <1>2, <2>1
<1>5. p * v + p <= p * q
  BY <1>2, Multiples
<1>6. a = (p * q) * u + (p * v + y) /\ p * v + y \in Nat /\ p * v + y < p * q
  BY <1>1, <1>3, <1>4, <1>5
<1>7. a \div (p * q) = u
  BY <1>3, <1>6, Divided
<1> QED
  BY <1>1, <1>2, <1>7

(* A canonical network and the wider ones around it.                       *)
Wider(net, m) == Network([net EXCEPT !.len = m])
Ones(net) == 2^(AddressBits - net.len)

LEMMA NetworkFields ==
  ASSUME NEW s \in Spelt
  PROVE  /\ Network(s) \in Spelt /\ Canonical(Network(s))
         /\ Network(s).family = s.family /\ Network(s).len = s.len
         /\ Network(s).addr = Ones(s) * (s.addr \div Ones(s)) /\ Ones(s) \in Nat \ {0}
<1>0. /\ AddressBits \in Nat /\ s.len \in 0 .. AddressBits /\ s.addr \in 0 .. 2^AddressBits - 1
      /\ s.family \in Families /\ s = [family |-> s.family, addr |-> s.addr, len |-> s.len]
  BY PrefixAssumption DEF Spelt
<1>1. Ones(s) \in Nat \ {0} /\ 2^AddressBits \in Nat
  <2>1. AddressBits - s.len \in Nat
    BY <1>0
  <2> QED
    BY <1>0, <2>1, Powers DEF Ones
<1>2. s.addr \in Nat
  BY <1>0, <1>1
<1>3. /\ s.addr \div Ones(s) \in Nat /\ s.addr % Ones(s) \in 0 .. (Ones(s) - 1)
      /\ s.addr = Ones(s) * (s.addr \div Ones(s)) + (s.addr % Ones(s))
  BY <1>1, <1>2, Division
<1>4. Network(s) = [family |-> s.family, addr |-> s.addr - (s.addr % Ones(s)), len |-> s.len]
  BY <1>0 DEF Network, Ones
<1>5. s.addr - (s.addr % Ones(s)) = Ones(s) * (s.addr \div Ones(s))
  <2>1. \A x, y, z \in Int : x = y + z => x - z = y
    OBVIOUS
  <2>2. Ones(s) * (s.addr \div Ones(s)) \in Int
    BY <1>1, <1>3, Products
  <2>3. s.addr \in Int /\ s.addr % Ones(s) \in Int
    BY <1>1, <1>2, <1>3
  <2> QED
    BY <1>3, <2>1, <2>2, <2>3
<1>6. s.addr - (s.addr % Ones(s)) \in 0 .. 2^AddressBits - 1
  <2>1. s.addr % Ones(s) \in Nat
    BY <1>1, <1>3
  <2>2. s.addr - (s.addr % Ones(s)) \in Nat
    BY <1>1, <1>2, Cleared
  <2> QED
    BY <1>0, <1>1, <2>1, <2>2
<1>7. Network(s) \in Spelt
  BY <1>0, <1>4, <1>6 DEF Spelt
<1>8. Canonical(Network(s))
  BY NetworkTyped DEF Canonical
<1> QED
  BY <1>1, <1>4, <1>5, <1>7, <1>8

LEMMA CanonicalFields ==
  ASSUME NEW net \in Spelt, Canonical(net)
  PROVE  /\ AddressBits \in Nat /\ net.len \in 0 .. AddressBits /\ net.addr \in Nat /\ net.addr < 2^AddressBits
         /\ Ones(net) \in Nat \ {0} /\ net.addr = Ones(net) * (net.addr \div Ones(net)) /\ net.addr \div Ones(net) \in Nat
<1>1. AddressBits \in Nat /\ net.len \in 0 .. AddressBits /\ net.addr \in 0 .. 2^AddressBits - 1 /\ 2^AddressBits \in Nat
  BY PrefixAssumption, Powers DEF Spelt
<1>2. Ones(net) \in Nat \ {0} /\ net.addr = Ones(net) * (net.addr \div Ones(net))
  BY NetworkFields DEF Canonical
<1>3. net.addr \div Ones(net) \in Nat
  <2>1. net.addr \in Nat
    BY <1>1
  <2> QED
    BY <1>2, <2>1, Division
<1> QED
  BY <1>1, <1>2, <1>3

LEMMA WiderFields ==
  ASSUME NEW net \in Spelt, Canonical(net), NEW m \in 0 .. net.len
  PROVE  /\ Wider(net, m) \in Spelt /\ Canonical(Wider(net, m)) /\ Wider(net, m).family = net.family
         /\ Wider(net, m).len = m
         /\ Wider(net, m).addr = 2^(AddressBits - m) * (net.addr \div 2^(AddressBits - m))
         /\ 2^(AddressBits - m) \in Nat \ {0}
<1>1. net.len \in 0 .. AddressBits /\ AddressBits \in Nat
  BY CanonicalFields
<1>2. m \in 0 .. AddressBits
  BY <1>1
<1> DEFINE s == [net EXCEPT !.len = m]
<1>3. s \in Spelt /\ s.len = m /\ s.addr = net.addr /\ s.family = net.family
  BY <1>2 DEF Spelt
<1> HIDE DEF s
<1>4. Wider(net, m) = Network(s)
  BY DEF Wider, s
<1> QED
  BY <1>3, <1>4, NetworkFields DEF Ones

LEMMA OnesFactor ==
  ASSUME AddressBits \in Nat, NEW l \in 0 .. AddressBits, NEW m \in 0 .. l
  PROVE  2^(AddressBits - m) = 2^(AddressBits - l) * 2^(l - m)
<1>1. AddressBits - l \in Nat /\ l - m \in Nat /\ (AddressBits - l) + (l - m) = AddressBits - m
  OBVIOUS
<1> QED
  BY <1>1, PowerSum

LEMMA WiderContains ==
  ASSUME NEW net \in Spelt, Canonical(net), NEW m \in 0 .. net.len
  PROVE  SubnetOf(net, Wider(net, m))
<1>1. PICK L, x \in Nat : L = Ones(net) /\ L # 0 /\ x = net.addr \div L /\ net.addr = L * x /\ net.addr \in Nat
  BY CanonicalFields
<1>2. PICK K \in Nat \ {0} : K = 2^(net.len - m) /\ 2^(AddressBits - m) = L * K
  <2>1. net.len - m \in Nat /\ net.len \in 0 .. AddressBits /\ AddressBits \in Nat
    BY CanonicalFields
  <2>2. 2^(AddressBits - m) = 2^(AddressBits - net.len) * 2^(net.len - m)
    BY <2>1, OnesFactor
  <2>3. 2^(net.len - m) \in Nat \ {0}
    BY <2>1, Powers
  <2> QED
    BY <1>1, <2>2, <2>3 DEF Ones
<1>3. PICK y, v \in Nat : y = x \div K /\ x = K * y + v /\ v < K
  <2>1. x \div K \in Nat /\ x % K \in 0 .. (K - 1) /\ x = K * (x \div K) + (x % K)
    BY Division
  <2> QED
    BY <2>1
<1>4. net.addr \div (L * K) = y
  <2>1. net.addr \in Nat /\ L \in Nat \ {0}
    BY <1>1
  <2>2. net.addr \div (L * K) = (net.addr \div L) \div K
    BY <2>1, DividedTwice
  <2> QED
    BY <1>1, <1>3, <2>2
<1>5. Wider(net, m).addr = (L * K) * y /\ Wider(net, m).len = m /\ Wider(net, m).family = net.family
  BY <1>2, <1>4, WiderFields
<1>6. net.addr = (L * K) * y + L * v /\ (L * K) * y \in Nat /\ L * v \in Nat /\ L * K \in Nat
  <2>1. L * (K * y + v) = L * (K * y) + L * v /\ (L * K) * y = L * (K * y)
    <3>1. K * y \in Int
      OBVIOUS
    <3> QED
      BY <3>1, Products
  <2>2. \A b, c \in Nat : b * c \in Nat
    OBVIOUS
  <2>3. L * K \in Nat /\ L * v \in Nat
    BY <2>2
  <2> QED
    BY <1>1, <1>3, <2>1, <2>2, <2>3
<1>7. L * v + L <= L * K
  BY <1>1, <1>3, Multiples
<1>8. Broadcast(net) = net.addr + L - 1 /\ Broadcast(Wider(net, m)) = (L * K) * y + L * K - 1
  BY <1>1, <1>2, <1>5 DEF Broadcast, Ones
<1> QED
  BY <1>5, <1>6, <1>7, <1>8 DEF SubnetOf

LEMMA ContainsWider ==
  ASSUME NEW net \in Spelt, Canonical(net), NEW o \in Spelt, Canonical(o), SubnetOf(net, o)
  PROVE  o.len \in 0 .. net.len /\ o = Wider(net, o.len)
<1>1. PICK L, a \in Nat : L = Ones(net) /\ L # 0 /\ a = net.addr
  BY CanonicalFields
<1>2. PICK M, y \in Nat : M = Ones(o) /\ M # 0 /\ o.addr = M * y /\ M * y \in Nat
  BY CanonicalFields
<1>3. M * y <= a /\ a + L - 1 <= M * y + M - 1 /\ net.family = o.family
  BY <1>1, <1>2 DEF SubnetOf, Broadcast, Ones
<1>4. AddressBits \in Nat /\ net.len \in 0 .. AddressBits /\ o.len \in 0 .. AddressBits
  BY CanonicalFields
<1>5. o.len <= net.len
  <2> SUFFICES ASSUME o.len > net.len PROVE FALSE
    BY <1>4
  <2>1. AddressBits - o.len \in Nat /\ AddressBits - net.len \in Nat /\ AddressBits - o.len < AddressBits - net.len
    BY <1>4
  <2>2. M < L
    BY <1>1, <1>2, <2>1, Powers DEF Ones
  <2> QED
    BY <1>1, <1>2, <1>3, <2>2
<1>6. o.len \in 0 .. net.len
  BY <1>4, <1>5
<1>7. a - M * y \in Nat /\ a = M * y + (a - M * y) /\ a - M * y < M
  BY <1>1, <1>2, <1>3
<1>8. a \div M = y
  BY <1>2, <1>7, Divided
<1>9. Wider(net, o.len) \in Spelt /\ Wider(net, o.len).family = o.family /\ Wider(net, o.len).len = o.len
      /\ Wider(net, o.len).addr = M * y
  BY <1>1, <1>2, <1>3, <1>6, <1>8, WiderFields DEF Ones
<1> QED
  BY <1>2, <1>6, <1>9 DEF Spelt

(* Paths.                                                                  *)
Bit(net, i) == (net.addr \div 2^(AddressBits - i)) % 2
Bits == {0, 1}
Turns == Families \cup Bits

LEMMA BitIs ==
  ASSUME NEW net \in Spelt, NEW i \in 1 .. net.len
  PROVE  Bit(net, i) \in Bits
<1>1. net.addr \in Nat /\ AddressBits - i \in Nat
  <2>1. AddressBits \in Nat /\ net.len \in 0 .. AddressBits /\ net.addr \in 0 .. 2^AddressBits - 1
    BY PrefixAssumption DEF Spelt
  <2>2. 2^AddressBits \in Nat
    BY <2>1, Powers
  <2> QED
    BY <2>1, <2>2
<1>2. 2^(AddressBits - i) \in Nat \ {0}
  BY <1>1, Powers
<1>3. net.addr \div 2^(AddressBits - i) \in Nat
  BY <1>1, <1>2, Division
<1>4. \A a \in Nat : a % 2 \in {0, 1}
  OBVIOUS
<1> QED
  BY <1>3, <1>4 DEF Bit, Bits

LEMMA PathIs ==
  ASSUME NEW net \in Spelt
  PROVE  /\ net.len \in 0 .. AddressBits /\ AddressBits \in Nat
         /\ Path(net) \in Seq(Turns) /\ Len(Path(net)) = net.len + 1
         /\ Path(net)[1] = net.family /\ \A i \in 1 .. net.len : Path(net)[i + 1] = Bit(net, i)
<1> DEFINE u == <<net.family>>
           w == [i \in 1 .. net.len |-> Bit(net, i)]
<1>1. net.len \in 0 .. AddressBits /\ AddressBits \in Nat /\ net.family \in Families
  BY PrefixAssumption DEF Spelt
<1>2. u \in Seq(Turns) /\ Len(u) = 1 /\ u[1] = net.family
  BY <1>1 DEF Turns
<1>3. w \in Seq(Turns) /\ Len(w) = net.len /\ \A i \in 1 .. net.len : w[i] = Bit(net, i)
  <2>1. \A i \in 1 .. net.len : Bit(net, i) \in Turns
    BY BitIs DEF Turns
  <2>2. w \in [1 .. net.len -> Turns]
    BY <2>1
  <2> QED
    BY <1>1, <2>2
<1>4. Path(net) = u \o w
  BY DEF Path, Bit
<1> HIDE DEF u, w
<1>5. /\ u \o w \in Seq(Turns) /\ Len(u \o w) = 1 + net.len
      /\ \A i \in 1 .. 1 + net.len : (u \o w)[i] = IF i <= 1 THEN u[i] ELSE w[i - 1]
  <2>1. /\ u \o w \in Seq(Turns) /\ Len(u \o w) = Len(u) + Len(w)
        /\ \A i \in 1 .. Len(u) + Len(w) : (u \o w)[i] = IF i <= Len(u) THEN u[i] ELSE w[i - Len(u)]
    BY <1>2, <1>3, JoinIs
  <2> QED
    BY <1>2, <1>3, <2>1
<1>6. Path(net)[1] = net.family
  <2>1. 1 \in 1 .. 1 + net.len /\ 1 <= 1
    BY <1>1
  <2> QED
    BY <1>2, <1>4, <1>5, <2>1
<1>7. ASSUME NEW i \in 1 .. net.len PROVE Path(net)[i + 1] = Bit(net, i)
  <2>1. i + 1 \in 1 .. 1 + net.len /\ ~(i + 1 <= 1) /\ (i + 1) - 1 = i
    BY <1>1
  <2> QED
    BY <1>3, <1>4, <1>5, <2>1
<1> QED
  BY <1>1, <1>4, <1>5, <1>6, <1>7

LEMMA BitWider ==
  ASSUME NEW net \in Spelt, Canonical(net), NEW m \in 0 .. net.len, NEW i \in 1 .. m
  PROVE  Bit(Wider(net, m), i) = Bit(net, i)
<1>1. AddressBits \in Nat /\ m \in 0 .. AddressBits /\ i \in 0 .. m /\ net.addr \in Nat /\ m - i \in Nat
  <2>1. AddressBits \in Nat /\ net.len \in 0 .. AddressBits /\ net.addr \in Nat
    BY CanonicalFields
  <2> QED
    BY <2>1
<1>2. PICK M \in Nat \ {0} : M = 2^(AddressBits - m)
  BY WiderFields
<1>3. PICK J \in Nat \ {0} : J = 2^(m - i)
  BY <1>1, Powers
<1>4. 2^(AddressBits - i) = M * J
  BY <1>1, <1>2, <1>3, OnesFactor
<1>5. PICK y \in Nat : y = net.addr \div M /\ Wider(net, m).addr = M * y
  <2>1. net.addr \div M \in Nat
    BY <1>1, Division
  <2> QED
    BY <1>2, <2>1, WiderFields
<1>6. M * y \in Nat /\ (M * y) \div M = y
  <2>1. M * y \in Nat /\ M * y = M * y + 0
    BY Multiple
  <2> QED
    BY <2>1, Divided
<1>7. (M * y) \div (M * J) = y \div J /\ net.addr \div (M * J) = y \div J
  BY <1>1, <1>5, <1>6, DividedTwice
<1> QED
  BY <1>4, <1>5, <1>7 DEF Bit

LEMMA PathWider ==
  ASSUME NEW net \in Spelt, Canonical(net), NEW m \in 0 .. net.len
  PROVE  Path(Wider(net, m)) = SubSeq(Path(net), 1, m + 1)
<1> DEFINE o == Wider(net, m)
           p == Path(net)
           q == Path(o)
           s == SubSeq(p, 1, m + 1)
<1>1. o \in Spelt /\ o.len = m /\ o.family = net.family
  BY WiderFields
<1>2. /\ net.len \in 0 .. AddressBits /\ AddressBits \in Nat
      /\ p \in Seq(Turns) /\ Len(p) = net.len + 1
      /\ p[1] = net.family /\ \A i \in 1 .. net.len : p[i + 1] = Bit(net, i)
  BY PathIs
<1>3. /\ q \in Seq(Turns) /\ Len(q) = m + 1
      /\ q[1] = net.family /\ \A i \in 1 .. m : q[i + 1] = Bit(o, i)
  BY <1>1, PathIs
<1>5. \A i \in 1 .. m : Bit(o, i) = Bit(net, i)
  BY BitWider
<1> HIDE DEF p, q, o
<1>4. s \in Seq(Turns) /\ Len(s) = m + 1 /\ \A i \in 1 .. m + 1 : s[i] = p[i]
  <2>1. m + 1 \in 1 .. Len(p)
    BY <1>2
  <2> QED
    BY <1>2, <2>1
<1> HIDE DEF s
<1>6. ASSUME NEW i \in 1 .. m + 1 PROVE q[i] = s[i]
  <2>1. CASE i = 1
    BY <2>1, <1>2, <1>3, <1>4
  <2>2. CASE i # 1
    <3>0. net.len \in Nat /\ m \in Nat /\ m <= net.len
      BY <1>2
    <3>1. i - 1 \in 1 .. m /\ i - 1 \in 1 .. net.len /\ (i - 1) + 1 = i
      BY <2>2, <3>0
    <3>2. q[(i - 1) + 1] = Bit(o, i - 1) /\ p[(i - 1) + 1] = Bit(net, i - 1) /\ Bit(o, i - 1) = Bit(net, i - 1)
      BY <3>1, <1>2, <1>3, <1>5
    <3> QED
      BY <3>1, <3>2, <1>4
  <2> QED
    BY <2>1, <2>2
<1>7. q = s
  BY <1>3, <1>4, <1>6, SameSeq
<1> QED
  BY <1>7 DEF q, o, s, p

LEMMA PathSame ==
  ASSUME NEW n \in Spelt, Canonical(n), NEW o \in Spelt, Canonical(o), Path(n) = Path(o)
  PROVE  n = o
<1>1. /\ n.len \in 0 .. AddressBits /\ AddressBits \in Nat /\ Len(Path(n)) = n.len + 1
      /\ o.len \in 0 .. AddressBits /\ Len(Path(o)) = o.len + 1
  BY PathIs
<1>2. n.len = o.len /\ n.len \in Nat
  BY <1>1
<1>3. n.family = o.family /\ \A i \in 1 .. n.len : Bit(n, i) = Bit(o, i)
  BY <1>2, PathIs
<1>4. PICK a, b \in Nat : a = n.addr /\ b = o.addr /\ a < 2^AddressBits /\ b < 2^AddressBits
  BY CanonicalFields
<1> DEFINE S == {k \in Nat : k <= n.len => a \div 2^(AddressBits - k) = b \div 2^(AddressBits - k)}
<1>5. 0 \in S
  <2>1. 2^AddressBits \in Nat \ {0}
    BY <1>1, Powers
  <2>2. \A c \in Nat : c < 2^AddressBits => c = 2^AddressBits * 0 + c
    BY <2>1
  <2>3. a \div 2^AddressBits = 0 /\ b \div 2^AddressBits = 0
    BY <1>4, <2>1, <2>2, Divided
  <2>4. AddressBits - 0 = AddressBits
    BY <1>1
  <2> QED
    BY <2>3, <2>4
<1>6. ASSUME NEW k \in S PROVE k + 1 \in S
  <2> SUFFICES ASSUME k + 1 <= n.len PROVE a \div 2^(AddressBits - (k + 1)) = b \div 2^(AddressBits - (k + 1))
    OBVIOUS
  <2>0. k \in Nat /\ (k <= n.len => a \div 2^(AddressBits - k) = b \div 2^(AddressBits - k))
    OBVIOUS
  <2> HIDE DEF S
  <2>1. /\ k \in Nat /\ k <= n.len /\ k + 1 \in 1 .. n.len
        /\ AddressBits - (k + 1) \in Nat /\ AddressBits - k = (AddressBits - (k + 1)) + 1
    BY <1>1, <1>2, <2>0
  <2>2. PICK M \in Nat \ {0} : M = 2^(AddressBits - (k + 1))
    BY <2>1, Powers
  <2>3. 2^(AddressBits - k) = 2 * M
    BY <2>1, <2>2, PowerNext
  <2>4. 2 * M = M * 2
    OBVIOUS
  <2>5. PICK x, y \in Nat : x = a \div M /\ y = b \div M
    BY <2>2, Division
  <2>6. x \div 2 = y \div 2
    <3>1. a \div (M * 2) = x \div 2 /\ b \div (M * 2) = y \div 2
      <4>1. 2 \in Nat \ {0}
        OBVIOUS
      <4> QED
        BY <2>5, <4>1, DividedTwice
    <3> QED
      BY <2>0, <2>1, <2>3, <2>4, <3>1
  <2>7. x % 2 = y % 2
    <3>1. Bit(n, k + 1) = Bit(o, k + 1)
      BY <1>3, <2>1
    <3> QED
      BY <1>4, <2>2, <2>5, <3>1 DEF Bit
  <2>8. x = y
    BY <2>6, <2>7
  <2> QED
    BY <2>2, <2>5, <2>8
<1>7. S \in SUBSET Nat
  OBVIOUS
<1>8. n.len \in S
  <2> HIDE DEF S
  <2> QED
    BY <1>2, <1>5, <1>6, <1>7, SetInduction
<1>9. a \div Ones(n) = b \div Ones(n)
  BY <1>2, <1>8 DEF Ones
<1>10. n.addr = Ones(n) * (n.addr \div Ones(n)) /\ o.addr = Ones(o) * (o.addr \div Ones(o))
  BY CanonicalFields
<1>11. n.addr = o.addr
  <2>1. Ones(n) = Ones(o)
    BY <1>2 DEF Ones
  <2> QED
    BY <1>4, <1>9, <1>10, <2>1
<1> QED
  BY <1>2, <1>3, <1>11 DEF Spelt

(***************************************************************************)
(* The prefix tree: TreeInv.                                               *)
(***************************************************************************)

(* The entries at several places, one set of them after the other.         *)
Chosen(list, P, last) == [n \in 1 .. last |-> EntriesAt(list, P[n])]
Placed(P, k) == UNION {P[n] : n \in 1 .. k}

LEMMA ChosenType ==
  ASSUME NEW A, NEW list \in Seq(A), NEW last \in Nat, NEW P, \A n \in 1 .. last : P[n] \in SUBSET (1 .. Len(list))
  PROVE  /\ Chosen(list, P, last) \in Seq(Seq(A)) /\ Len(Chosen(list, P, last)) = last
         /\ \A n \in 1 .. last : Chosen(list, P, last)[n] = EntriesAt(list, P[n])
<1>1. \A n \in 1 .. last : EntriesAt(list, P[n]) \in Seq(A)
  BY EntriesType
<1>2. Chosen(list, P, last) \in [1 .. last -> Seq(A)]
  BY <1>1 DEF Chosen
<1> QED
  BY <1>2 DEF Chosen

LEMMA FlatCount ==
  ASSUME NEW A, NEW list \in Seq(A), NEW last \in Nat, NEW P, \A n \in 1 .. last : P[n] \in SUBSET (1 .. Len(list)),
         \A n, k \in 1 .. last : n # k => P[n] \cap P[k] = {}, NEW V
  PROVE  Count(FlattenSeq(Chosen(list, P, last)), V) = Cardinality({i \in Placed(P, last) : list[i] \in V})
<1> DEFINE seqs == Chosen(list, P, last)
           Reach(X) == {i \in X : list[i] \in V}
<1>0. \A n \in 1 .. last : P[n] \in SUBSET (1 .. Len(list))
  OBVIOUS
<1>1. seqs \in Seq(Seq(A)) /\ Len(seqs) = last /\ \A n \in 1 .. last : seqs[n] = EntriesAt(list, P[n])
  BY <1>0, ChosenType
<1> HIDE DEF seqs
<1>2. PICK f : IsFlat(f, A, seqs) /\ FlattenSeq(seqs) = f[last]
  BY <1>1, FlatExists
<1>3. \A k \in 0 .. last : Placed(P, k) \in SUBSET (1 .. Len(list))
  <2> SUFFICES ASSUME NEW k \in 0 .. last, NEW n \in 1 .. k PROVE P[n] \in SUBSET (1 .. Len(list))
    BY DEF Placed
  <2>1. n \in 1 .. last
    OBVIOUS
  <2> QED
    BY <2>1
<1>4. ASSUME NEW X \in SUBSET (1 .. Len(list)) PROVE IsFiniteSet(Reach(X)) /\ Cardinality(Reach(X)) \in Nat
  <2>1. Len(list) \in Nat
    OBVIOUS
  <2>2. IsFiniteSet(1 .. Len(list))
    BY <2>1, FS_Interval
  <2>3. Reach(X) \in SUBSET (1 .. Len(list))
    OBVIOUS
  <2> HIDE DEF Reach
  <2> QED
    BY <2>2, <2>3, FS_Subset, FS_CardinalityType
<1> HIDE DEF Reach
<1> DEFINE T == {k \in Nat : k <= last => Count(f[k], V) = Cardinality(Reach(Placed(P, k)))}
<1>5. 0 \in T
  <2>1. Placed(P, 0) = {}
    BY DEF Placed
  <2>2. Reach(Placed(P, 0)) = {}
    BY <2>1 DEF Reach
  <2>3. f[0] = <<>>
    BY <1>2 DEF IsFlat
  <2> QED
    BY <2>2, <2>3, CountNone, FS_EmptySet
<1>6. ASSUME NEW k \in T PROVE k + 1 \in T
  <2> SUFFICES ASSUME k + 1 <= last PROVE Count(f[k + 1], V) = Cardinality(Reach(Placed(P, k + 1)))
    OBVIOUS
  <2>1. k \in Nat /\ k <= last /\ k + 1 \in 1 .. last /\ k \in 0 .. last /\ (k + 1) - 1 = k
        /\ Count(f[k], V) = Cardinality(Reach(Placed(P, k)))
    OBVIOUS
  <2> HIDE DEF T
  <2>2. f[k + 1] = f[k] \o seqs[k + 1] /\ f[k] \in Seq(A)
    <3>1. f[k + 1] = f[(k + 1) - 1] \o seqs[k + 1]
      BY <1>1, <1>2, <2>1 DEF IsFlat
    <3> QED
      BY <1>1, <1>2, <2>1, <3>1 DEF IsFlat
  <2>3. P[k + 1] \in SUBSET (1 .. Len(list)) /\ seqs[k + 1] = EntriesAt(list, P[k + 1])
    BY <1>1, <2>1
  <2>4. seqs[k + 1] \in Seq(A) /\ Count(seqs[k + 1], V) = Cardinality(Reach(P[k + 1]))
    BY <2>3, EntriesType, CountEntries DEF Reach
  <2>5. Count(f[k + 1], V) = Count(f[k], V) + Count(seqs[k + 1], V)
    BY <2>2, <2>4, CountJoin
  <2>6. Placed(P, k + 1) = Placed(P, k) \cup P[k + 1]
    <3>1. 1 .. k + 1 = (1 .. k) \cup {k + 1}
      BY <2>1
    <3> QED
      BY <3>1 DEF Placed
  <2>7. Reach(Placed(P, k + 1)) = Reach(Placed(P, k)) \cup Reach(P[k + 1])
    BY <2>6 DEF Reach
  <2>8. Reach(Placed(P, k)) \cap Reach(P[k + 1]) = {}
    <3>1. ASSUME NEW n \in 1 .. k PROVE P[n] \cap P[k + 1] = {}
      <4>1. n \in 1 .. last /\ n # k + 1
        BY <2>1
      <4> QED
        BY <2>1, <4>1
    <3>2. Placed(P, k) \cap P[k + 1] = {}
      BY <3>1 DEF Placed
    <3> QED
      BY <3>2 DEF Reach
  <2>9. /\ IsFiniteSet(Reach(Placed(P, k))) /\ IsFiniteSet(Reach(P[k + 1]))
        /\ Cardinality(Reach(Placed(P, k))) \in Nat /\ Cardinality(Reach(P[k + 1])) \in Nat
    BY <1>3, <1>4, <2>1, <2>3
  <2>10. Cardinality(Reach(Placed(P, k + 1))) = Cardinality(Reach(Placed(P, k))) + Cardinality(Reach(P[k + 1])) - Cardinality({})
    BY <2>7, <2>8, <2>9, FS_Union
  <2>11. Cardinality({}) = 0
    BY FS_EmptySet
  <2> QED
    BY <2>1, <2>4, <2>5, <2>9, <2>10, <2>11
<1>7. T \in SUBSET Nat
  OBVIOUS
<1>8. last \in T
  <2> HIDE DEF T
  <2> QED
    BY <1>5, <1>6, <1>7, SetInduction
<1> QED
  BY <1>2, <1>8 DEF seqs, Reach

LEMMA ChosenValues ==
  ASSUME NEW A, NEW list \in Seq(A), NEW last \in Nat, NEW P, \A n \in 1 .. last : P[n] \in SUBSET (1 .. Len(list))
  PROVE  /\ FlattenSeq(Chosen(list, P, last)) \in Seq(A)
         /\ \A x : x \in Values(FlattenSeq(Chosen(list, P, last))) <=> \E i \in Placed(P, last) : list[i] = x
<1> DEFINE seqs == Chosen(list, P, last)
<1>1. seqs \in Seq(Seq(A)) /\ Len(seqs) = last /\ \A n \in 1 .. last : seqs[n] = EntriesAt(list, P[n])
  BY ChosenType
<1> HIDE DEF seqs
<1>2. FlattenSeq(seqs) \in Seq(A) /\ Values(FlattenSeq(seqs)) = UNION {Values(seqs[n]) : n \in 1 .. last}
  BY <1>1, FlatValues
<1>3. ASSUME NEW x, NEW n \in 1 .. last PROVE x \in Values(seqs[n]) <=> \E i \in P[n] : list[i] = x
  <2> DEFINE e == EntriesAt(list, P[n])
  <2>0. P[n] \in SUBSET (1 .. Len(list))
    OBVIOUS
  <2>1. e \in Seq(A) /\ ((\E j \in 1 .. Len(e) : e[j] = x) <=> \E i \in P[n] : list[i] = x)
    <3> DEFINE Q == P[n]
    <3>1. Q \in SUBSET (1 .. Len(list))
      BY <2>0
    <3> HIDE DEF Q
    <3>2. /\ EntriesAt(list, Q) \in Seq(A)
          /\ \A y : (\E j \in 1 .. Len(EntriesAt(list, Q)) : EntriesAt(list, Q)[j] = y) <=> (\E i \in Q : list[i] = y)
      BY <3>1, EntriesType
    <3> QED
      BY <3>2 DEF Q
  <2> HIDE DEF e
  <2>2. DOMAIN e = 1 .. Len(e)
    BY <2>1
  <2>3. x \in Values(e) <=> \E j \in 1 .. Len(e) : e[j] = x
    BY <2>2 DEF Values
  <2> QED
    BY <1>1, <2>1, <2>3 DEF e
<1>4. ASSUME NEW x PROVE x \in Values(FlattenSeq(seqs)) <=> \E i \in Placed(P, last) : list[i] = x
  <2>1. x \in Values(FlattenSeq(seqs)) <=> \E n \in 1 .. last : x \in Values(seqs[n])
    BY <1>2
  <2>2. (\E i \in Placed(P, last) : list[i] = x) <=> \E n \in 1 .. last : \E i \in P[n] : list[i] = x
    BY DEF Placed
  <2> QED
    BY <1>3, <2>1, <2>2
<1> QED
  BY <1>2, <1>4 DEF seqs

(* The prefix tree: a node holds what hangs on its prefix, in order, and   *)
(* the way to whatever hangs somewhere is there.                           *)
Hangings == [prefix : Spelt, data : Data]
NetAt(list, i) == Network(list[i].prefix)
HungAt(list, p) == {i \in DOMAIN list : Path(NetAt(list, i)) = p}

TreeShape(list, tree) ==
  /\ list \in Seq(Hangings)
  /\ \A p \in DOMAIN tree : p \in Seq(Turns) /\ Len(p) \in 1 .. AddressBits + 1
  /\ \A i \in DOMAIN list, n \in 1 .. AddressBits + 1 :
       n <= Len(Path(NetAt(list, i))) => SubSeq(Path(NetAt(list, i)), 1, n) \in DOMAIN tree
  /\ tree = [p \in DOMAIN tree |-> DataOf(EntriesAt(list, HungAt(list, p)))]

TreeInv == treeSize = Len(hung) /\ TreeShape(hung, nodes)

LEMMA EntriesNone == \A list : EntriesAt(list, {}) = <<>>
<1>1. Cardinality({}) = 0
  BY FS_EmptySet
<1> QED
  BY <1>1 DEF EntriesAt

LEMMA TreeEmptyInv ==
  TreeShape(<<>>, [root \in Roots |-> <<>>])
<1> DEFINE tree == [root \in Roots |-> <<>>]
<1>1. <<>> \in Seq(Hangings) /\ DOMAIN <<>> = {}
  OBVIOUS
<1>2. AddressBits \in Nat
  BY PrefixAssumption
<1>3. \A p \in Roots : p \in Seq(Turns) /\ Len(p) \in 1 .. AddressBits + 1
  <2> SUFFICES ASSUME NEW family \in Families PROVE <<family>> \in Seq(Turns) /\ Len(<<family>>) \in 1 .. AddressBits + 1
    BY DEF Roots
  <2>1. family \in Turns
    BY DEF Turns
  <2> QED
    BY <1>2, <2>1
<1>4. \A p : DataOf(EntriesAt(<<>>, HungAt(<<>>, p))) = <<>>
  <2> SUFFICES ASSUME NEW p PROVE DataOf(EntriesAt(<<>>, HungAt(<<>>, p))) = <<>>
    OBVIOUS
  <2>1. HungAt(<<>>, p) = {}
    BY <1>1 DEF HungAt
  <2>2. EntriesAt(<<>>, HungAt(<<>>, p)) = <<>>
    BY <2>1, EntriesNone
  <2> QED
    BY <2>2 DEF DataOf
<1>5. DOMAIN tree = Roots
  OBVIOUS
<1>6. tree = [p \in DOMAIN tree |-> DataOf(EntriesAt(<<>>, HungAt(<<>>, p)))]
  BY <1>4, <1>5
<1> HIDE DEF tree
<1>7. TreeShape(<<>>, tree)
  BY <1>1, <1>3, <1>5, <1>6 DEF TreeShape
<1> QED
  BY <1>7 DEF tree

LEMMA HungOn ==
  ASSUME NEW list \in Seq(Hangings), NEW p
  PROVE  /\ HungAt(list, p) \in SUBSET (1 .. Len(list))
         /\ EntriesAt(list, HungAt(list, p)) \in Seq(Hangings)
<1>1. HungAt(list, p) \in SUBSET (1 .. Len(list))
  BY DEF HungAt
<1> QED
  BY <1>1, EntriesType

LEMMA NetsHung ==
  ASSUME NEW list \in Seq(Hangings), NEW i \in DOMAIN list
  PROVE  /\ NetAt(list, i) \in Spelt /\ Canonical(NetAt(list, i)) /\ list[i].prefix \in Spelt /\ list[i].data \in Data
         /\ NetAt(list, i).len = list[i].prefix.len
         /\ Path(NetAt(list, i)) \in Seq(Turns) /\ Len(Path(NetAt(list, i))) \in 1 .. AddressBits + 1
         /\ SubSeq(Path(NetAt(list, i)), 1, Len(Path(NetAt(list, i)))) = Path(NetAt(list, i))
<1>1. list[i] \in Hangings
  OBVIOUS
<1>2. list[i].prefix \in Spelt /\ list[i].data \in Data
  BY <1>1 DEF Hangings
<1>3. NetAt(list, i) \in Spelt /\ Canonical(NetAt(list, i)) /\ NetAt(list, i).len = list[i].prefix.len
  BY <1>2, NetworkFields DEF NetAt
<1>4. PICK p : p = Path(NetAt(list, i))
  OBVIOUS
<1>5. p \in Seq(Turns) /\ Len(p) = NetAt(list, i).len + 1 /\ NetAt(list, i).len \in 0 .. AddressBits /\ AddressBits \in Nat
  BY <1>3, <1>4, PathIs
<1>6. Len(p) \in 1 .. AddressBits + 1 /\ SubSeq(p, 1, Len(p)) = p
  BY <1>5
<1> QED
  BY <1>2, <1>3, <1>4, <1>5, <1>6

LEMMA NotHung ==
  ASSUME NEW list, NEW tree, TreeShape(list, tree), NEW p, p \notin DOMAIN tree
  PROVE  HungAt(list, p) = {} /\ DataOf(EntriesAt(list, HungAt(list, p))) = <<>>
<1>1. list \in Seq(Hangings)
  BY DEF TreeShape
<1>2. ASSUME NEW i \in DOMAIN list, Path(NetAt(list, i)) = p PROVE FALSE
  <2>1. p \in Seq(Turns) /\ Len(p) \in 1 .. AddressBits + 1 /\ SubSeq(p, 1, Len(p)) = p
    BY <1>1, <1>2, NetsHung
  <2>2. Len(p) <= Len(p)
    BY <2>1, PrefixAssumption
  <2>3. SubSeq(p, 1, Len(p)) \in DOMAIN tree
    BY <1>2, <2>1, <2>2 DEF TreeShape
  <2> QED
    BY <2>1, <2>3
<1>3. HungAt(list, p) = {}
  BY <1>2 DEF HungAt
<1>4. EntriesAt(list, HungAt(list, p)) = <<>>
  BY <1>3, EntriesNone
<1> QED
  BY <1>3, <1>4 DEF DataOf

LEMMA DataAppend ==
  ASSUME NEW e \in Seq(Hangings), NEW x \in Hangings
  PROVE  DataOf(Append(e, x)) = Append(DataOf(e), x.data)
<1>0. \A y \in Hangings : y.data \in Data
  BY DEF Hangings
<1>1. DataOf(e) \in Seq(Data) /\ Len(DataOf(e)) = Len(e) /\ \A i \in 1 .. Len(e) : DataOf(e)[i] = e[i].data
  BY <1>0, DataJoin
<1>2. Append(e, x) \in Seq(Hangings) /\ Len(Append(e, x)) = Len(e) + 1 /\ Len(e) \in Nat
      /\ (\A i \in 1 .. Len(e) : Append(e, x)[i] = e[i]) /\ Append(e, x)[Len(e) + 1] = x
  OBVIOUS
<1>3. /\ DataOf(Append(e, x)) \in Seq(Data) /\ Len(DataOf(Append(e, x))) = Len(e) + 1
      /\ \A i \in 1 .. Len(e) + 1 : DataOf(Append(e, x))[i] = Append(e, x)[i].data
  BY <1>0, <1>2, DataJoin
<1>4. x.data \in Data
  BY <1>0
<1> DEFINE d == DataOf(e)
<1> HIDE DEF d
<1>5. Append(d, x.data) \in Seq(Data) /\ Len(Append(d, x.data)) = Len(e) + 1
      /\ (\A i \in 1 .. Len(e) : Append(d, x.data)[i] = d[i]) /\ Append(d, x.data)[Len(e) + 1] = x.data
  BY <1>1, <1>4 DEF d
<1>6. ASSUME NEW i \in 1 .. Len(e) + 1 PROVE DataOf(Append(e, x))[i] = Append(d, x.data)[i]
  <2>1. CASE i = Len(e) + 1
    BY <2>1, <1>2, <1>3, <1>5
  <2>2. CASE i # Len(e) + 1
    <3>1. i \in 1 .. Len(e)
      BY <2>2, <1>2
    <3> QED
      BY <3>1, <1>1, <1>2, <1>3, <1>5 DEF d
  <2> QED
    BY <2>1, <2>2
<1>7. DataOf(Append(e, x)) = Append(d, x.data)
  BY <1>3, <1>5, <1>6, SameSeq
<1> QED
  BY <1>7 DEF d

LEMMA InsertShape ==
  ASSUME NEW list, NEW tree, TreeShape(list, tree), NEW entry \in Hangings, NEW more,
         LET path == Path(Network(entry.prefix))
             walked == {SubSeq(path, 1, n) : n \in 1 .. Len(path)}
             reached == [node \in DOMAIN tree \cup walked |-> IF node \in DOMAIN tree THEN tree[node] ELSE <<>>]
         IN more = [reached EXCEPT ![path] = Append(@, entry.data)]
  PROVE  TreeShape(Append(list, entry), more)
<1> DEFINE net == Network(entry.prefix)
           path == Path(net)
           walked == {SubSeq(path, 1, n) : n \in 1 .. Len(path)}
           reached == [node \in DOMAIN tree \cup walked |-> IF node \in DOMAIN tree THEN tree[node] ELSE <<>>]
           longer == Append(list, entry)
           size == Len(list)
<1>1. list \in Seq(Hangings) /\ size \in Nat /\ DOMAIN list = 1 .. size
  BY DEF TreeShape
<1>2. /\ longer \in Seq(Hangings) /\ Len(longer) = size + 1 /\ DOMAIN longer = 1 .. size + 1
      /\ (\A i \in 1 .. size : longer[i] = list[i]) /\ longer[size + 1] = entry
  BY <1>1
<1>3. more = [reached EXCEPT ![path] = Append(@, entry.data)]
  OBVIOUS
<1>4. /\ path \in Seq(Turns) /\ Len(path) \in 1 .. AddressBits + 1 /\ SubSeq(path, 1, Len(path)) = path
      /\ NetAt(longer, size + 1) = net
  <2>1. size + 1 \in DOMAIN longer
    BY <1>1, <1>2
  <2>2. NetAt(longer, size + 1) = net
    BY <1>2 DEF NetAt
  <2> HIDE DEF longer, path, net, size
  <2> QED
    BY <1>2, <2>1, <2>2, NetsHung DEF path
<1>5. AddressBits \in Nat
  BY PrefixAssumption
<1> HIDE DEF path, longer, size
<1>6. path \in walked
  <2>1. Len(path) \in 1 .. Len(path)
    BY <1>4, <1>5
  <2> QED
    BY <1>4, <2>1
<1>7. \A p \in walked : p \in Seq(Turns) /\ Len(p) \in 1 .. AddressBits + 1
  BY <1>4, <1>5
<1>8. /\ DOMAIN more = DOMAIN tree \cup walked
      /\ more = [p \in DOMAIN tree \cup walked |-> IF p = path THEN Append(reached[path], entry.data) ELSE reached[p]]
  BY <1>3, <1>6
<1> HIDE DEF walked
<1>9. \A p \in DOMAIN tree \cup walked : reached[p] = DataOf(EntriesAt(list, HungAt(list, p)))
  <2> SUFFICES ASSUME NEW p \in DOMAIN tree \cup walked PROVE reached[p] = DataOf(EntriesAt(list, HungAt(list, p)))
    OBVIOUS
  <2>1. CASE p \in DOMAIN tree
    <3>1. tree[p] = DataOf(EntriesAt(list, HungAt(list, p)))
      BY <2>1 DEF TreeShape
    <3> QED
      BY <2>1, <3>1
  <2>2. CASE p \notin DOMAIN tree
    BY <2>2, NotHung
  <2> QED
    BY <2>1, <2>2
<1> HIDE DEF reached
<1>10. \A i \in 1 .. size : NetAt(longer, i) = NetAt(list, i)
  BY <1>2 DEF NetAt
<1>11. \A p : HungAt(longer, p) = IF p = path THEN HungAt(list, p) \cup {size + 1} ELSE HungAt(list, p)
  <2> SUFFICES ASSUME NEW p
               PROVE  HungAt(longer, p) = IF p = path THEN HungAt(list, p) \cup {size + 1} ELSE HungAt(list, p)
    OBVIOUS
  <2> DEFINE Q == IF p = path THEN HungAt(list, p) \cup {size + 1} ELSE HungAt(list, p)
  <2>1. ASSUME NEW i PROVE i \in HungAt(longer, p) <=> i \in Q
    <3>1. CASE i \in 1 .. size
      <4>1. i \in 1 .. size + 1 /\ i # size + 1
        BY <1>1, <3>1
      <4> QED
        BY <4>1, <3>1, <1>1, <1>2, <1>10 DEF HungAt
    <3>2. CASE i = size + 1
      <4>1. i \in 1 .. size + 1 /\ i \notin 1 .. size
        BY <1>1, <3>2
      <4>2. NetAt(longer, i) = net
        BY <1>4, <3>2
      <4> QED
        BY <4>1, <4>2, <3>2, <1>1, <1>2 DEF HungAt, path
    <3>3. CASE i \notin 1 .. size /\ i # size + 1
      <4>1. i \notin 1 .. size + 1
        BY <1>1, <3>3
      <4> QED
        BY <4>1, <3>3, <1>1, <1>2 DEF HungAt
    <3> QED
      BY <3>1, <3>2, <3>3
  <2>2. HungAt(longer, p) = Q
    <3> HIDE DEF Q
    <3> QED
      BY <2>1
  <2> QED
    BY <2>2
<1>12. ASSUME NEW p PROVE /\ EntriesAt(longer, HungAt(list, p)) = EntriesAt(list, HungAt(list, p))
                         /\ EntriesAt(longer, HungAt(list, p) \cup {size + 1}) = Append(EntriesAt(list, HungAt(list, p)), entry)
                         /\ EntriesAt(list, HungAt(list, p)) \in Seq(Hangings)
  <2>1. HungAt(list, p) \in SUBSET (1 .. Len(list)) /\ EntriesAt(list, HungAt(list, p)) \in Seq(Hangings)
    BY <1>1, HungOn
  <2>2. /\ EntriesAt(Append(list, entry), HungAt(list, p)) = EntriesAt(list, HungAt(list, p))
        /\ EntriesAt(Append(list, entry), HungAt(list, p) \cup {Len(list) + 1}) =
             Append(EntriesAt(list, HungAt(list, p)), entry)
    <3> DEFINE H == HungAt(list, p)
    <3>1. list \in Seq(Hangings) /\ entry \in Hangings /\ H \in SUBSET (1 .. Len(list))
      BY <1>1, <2>1
    <3> HIDE DEF H
    <3>2. /\ EntriesAt(Append(list, entry), H) = EntriesAt(list, H)
          /\ EntriesAt(Append(list, entry), H \cup {Len(list) + 1}) = Append(EntriesAt(list, H), entry)
      BY <3>1, EntriesPut, Zenon
    <3> QED
      BY <3>2 DEF H
  <2> QED
    BY <2>1, <2>2 DEF longer, size
<1>13. ASSUME NEW p \in DOMAIN tree \cup walked PROVE more[p] = DataOf(EntriesAt(longer, HungAt(longer, p)))
  <2>1. CASE p = path
    <3>1. more[p] = Append(DataOf(EntriesAt(list, HungAt(list, p))), entry.data)
      BY <1>8, <1>9, <2>1
    <3>2. EntriesAt(longer, HungAt(longer, p)) = Append(EntriesAt(list, HungAt(list, p)), entry)
      BY <1>11, <1>12, <2>1
    <3> QED
      BY <3>1, <3>2, <1>12, DataAppend
  <2>2. CASE p # path
    <3>1. more[p] = DataOf(EntriesAt(list, HungAt(list, p)))
      BY <1>8, <1>9, <2>2
    <3>2. EntriesAt(longer, HungAt(longer, p)) = EntriesAt(list, HungAt(list, p))
      BY <1>11, <1>12, <2>2
    <3> QED
      BY <3>1, <3>2
  <2> QED
    BY <2>1, <2>2
<1>14. more = [p \in DOMAIN more |-> DataOf(EntriesAt(longer, HungAt(longer, p)))]
  BY <1>8, <1>13
<1>15. \A p \in DOMAIN more : p \in Seq(Turns) /\ Len(p) \in 1 .. AddressBits + 1
  BY <1>7, <1>8 DEF TreeShape
<1>16. ASSUME NEW i \in DOMAIN longer, NEW n \in 1 .. AddressBits + 1, n <= Len(Path(NetAt(longer, i)))
       PROVE  SubSeq(Path(NetAt(longer, i)), 1, n) \in DOMAIN more
  <2>1. CASE i \in 1 .. size
    <3>1. NetAt(longer, i) = NetAt(list, i) /\ i \in DOMAIN list
      BY <2>1, <1>1, <1>10
    <3>2. SubSeq(Path(NetAt(list, i)), 1, n) \in DOMAIN tree
      BY <3>1, <1>16 DEF TreeShape
    <3> QED
      BY <3>1, <3>2, <1>8
  <2>2. CASE i = size + 1
    <3>1. Path(NetAt(longer, i)) = path
      BY <2>2, <1>4 DEF path
    <3>2. n \in 1 .. Len(path)
      BY <3>1, <1>16, <1>4, <1>5
    <3> QED
      BY <3>1, <3>2, <1>8 DEF walked
  <2> QED
    BY <2>1, <2>2, <1>1, <1>2
<1>17. TreeShape(longer, more)
  BY <1>2, <1>14, <1>15, <1>16 DEF TreeShape
<1> QED
  BY <1>17 DEF longer

LEMMA DataRemove ==
  ASSUME NEW e \in Seq(Hangings), NEW q \in 1 .. Len(e)
  PROVE  DataOf(RemoveAt(e, q)) = RemoveAt(DataOf(e), q)
<1>0. \A y \in Hangings : y.data \in Data
  BY DEF Hangings
<1>1. DataOf(e) \in Seq(Data) /\ Len(DataOf(e)) = Len(e) /\ \A i \in 1 .. Len(e) : DataOf(e)[i] = e[i].data
  BY <1>0, DataJoin
<1> DEFINE d == DataOf(e)
           r == RemoveAt(e, q)
<1>2. r \in Seq(Hangings) /\ Len(r) = Len(e) - 1 /\ \A i \in 1 .. Len(e) - 1 : r[i] = e[Past(i, q)]
  BY RemovedAt
<1> HIDE DEF d, r
<1>3. RemoveAt(d, q) \in Seq(Data) /\ Len(RemoveAt(d, q)) = Len(e) - 1
      /\ \A i \in 1 .. Len(e) - 1 : RemoveAt(d, q)[i] = d[Past(i, q)]
  <2>1. d \in Seq(Data) /\ Len(d) = Len(e) /\ q \in 1 .. Len(d)
    BY <1>1 DEF d
  <2>2. RemoveAt(d, q) \in Seq(Data) /\ Len(RemoveAt(d, q)) = Len(d) - 1
        /\ \A i \in 1 .. Len(d) - 1 : RemoveAt(d, q)[i] = d[Past(i, q)]
    BY <2>1, RemovedAt
  <2> QED
    BY <2>1, <2>2
<1>4. DataOf(r) \in Seq(Data) /\ Len(DataOf(r)) = Len(e) - 1 /\ \A i \in 1 .. Len(e) - 1 : DataOf(r)[i] = r[i].data
  <2>1. DataOf(r) \in Seq(Data) /\ Len(DataOf(r)) = Len(r) /\ \A i \in 1 .. Len(r) : DataOf(r)[i] = r[i].data
    BY <1>0, <1>2, DataJoin
  <2> QED
    BY <1>2, <2>1
<1>5. ASSUME NEW i \in 1 .. Len(e) - 1 PROVE DataOf(r)[i] = RemoveAt(d, q)[i]
  <2>1. Past(i, q) \in 1 .. Len(e)
    <3>1. Len(e) \in Nat
      OBVIOUS
    <3> QED
      BY <3>1 DEF Past
  <2> QED
    BY <2>1, <1>1, <1>2, <1>3, <1>4 DEF d
<1>6. DataOf(r) = RemoveAt(d, q)
  BY <1>3, <1>4, <1>5, SameSeq
<1> QED
  BY <1>6 DEF r, d

LEMMA FirstOf ==
  ASSUME NEW S \in SUBSET Nat, NEW k \in S, \A j \in S : k <= j
  PROVE  (CHOOSE i \in S : \A j \in S : i <= j) = k
<1> DEFINE c == CHOOSE i \in S : \A j \in S : i <= j
<1>1. c \in S /\ \A j \in S : c <= j
  OBVIOUS
<1> HIDE DEF c
<1>2. c = k
  <2>1. c \in Nat /\ k \in Nat /\ c <= k /\ k <= c
    BY <1>1
  <2> QED
    BY <2>1
<1> QED
  BY <1>2 DEF c

(* A removal takes the first of the data of a node that match; in the list *)
(* of what hangs these are the ones of the same network.                   *)
FoundAt(d, data) == {n \in DOMAIN d : d[n] = data}
Pruned(tree, path, data) == [tree EXCEPT ![path] = WithoutFirst(tree[path], FoundAt(tree[path], data))]
MatchAt(list, net, data) == {i \in DOMAIN list : Network(list[i].prefix) = net /\ list[i].data = data}

LEMMA FirstListed ==
  ASSUME NEW list, NEW tree, TreeShape(list, tree), NEW net \in Spelt, Canonical(net), NEW data,
         Path(net) \in DOMAIN tree, \E n \in DOMAIN tree[Path(net)] : tree[Path(net)][n] = data,
         NEW m \in Nat, NEW g, Listing(g, m, HungAt(list, Path(net)))
  PROVE  \E q \in 1 .. m :
           /\ g[q] \in 1 .. Len(list) /\ NetAt(list, g[q]) = net
           /\ WithoutFirst(tree[Path(net)], FoundAt(tree[Path(net)], data)) =
                DataOf(RemoveAt(EntriesAt(list, HungAt(list, Path(net))), q))
           /\ WithoutFirst(list, MatchAt(list, net, data)) =
                RemoveAt(list, g[q])
<1> DEFINE path == Path(net)
           P == HungAt(list, path)
           e == EntriesAt(list, P)
           d == tree[path]
           F == {n \in DOMAIN d : d[n] = data}
           R == {i \in DOMAIN list : Network(list[i].prefix) = net /\ list[i].data = data}
<1>0. \A y \in Hangings : y.data \in Data
  BY DEF Hangings
<1>1. list \in Seq(Hangings) /\ DOMAIN list = 1 .. Len(list) /\ Len(list) \in Nat /\ d = DataOf(e)
  BY DEF TreeShape
<1>2. P \in SUBSET (1 .. Len(list)) /\ Listing(g, m, P)
  BY <1>1, HungOn
<1>3. e \in Seq(Hangings) /\ Len(e) = m /\ \A n \in 1 .. m : e[n] = list[g[n]] /\ g[n] \in P
  BY <1>1, <1>2, EntriesAre
<1> HIDE DEF e, P, d
<1>4. d \in Seq(Data) /\ Len(d) = m /\ DOMAIN d = 1 .. m /\ \A n \in 1 .. m : d[n] = list[g[n]].data
  <2>1. DataOf(e) \in Seq(Data) /\ Len(DataOf(e)) = Len(e) /\ \A i \in 1 .. Len(e) : DataOf(e)[i] = e[i].data
    <3>1. e \in Seq(Hangings)
      BY <1>3
    <3> QED
      BY <1>0, <3>1, DataJoin
  <2> QED
    BY <1>1, <1>3, <2>1
<1>5. F \in SUBSET Nat /\ F # {} /\ F \subseteq 1 .. m
  <2>1. \E n \in DOMAIN d : d[n] = data
    BY DEF d
  <2> QED
    BY <1>4, <2>1
<1>6. PICK q \in F : \A n \in F : q <= n
  BY <1>5, Least
<1>7. q \in 1 .. m /\ d[q] = data
  BY <1>5
<1>8. \A n \in 1 .. m : g[n] \in 1 .. Len(list) /\ g[n] \in Nat /\ NetAt(list, g[n]) = net
  <2> SUFFICES ASSUME NEW n \in 1 .. m PROVE g[n] \in 1 .. Len(list) /\ g[n] \in Nat /\ NetAt(list, g[n]) = net
    OBVIOUS
  <2>1. g[n] \in 1 .. Len(list) /\ g[n] \in DOMAIN list
    BY <1>1, <1>2, <1>3
  <2>2. Path(NetAt(list, g[n])) = path
    BY <1>3 DEF P, HungAt
  <2>3. NetAt(list, g[n]) = net
    BY <1>1, <2>1, <2>2, NetsHung, PathSame
  <2> QED
    BY <1>1, <2>1, <2>3
<1>9. g[q] \in R
  BY <1>1, <1>4, <1>7, <1>8 DEF NetAt
<1>10. ASSUME NEW i \in R PROVE g[q] <= i
  <2>1. i \in DOMAIN list /\ NetAt(list, i) = net /\ list[i].data = data
    BY DEF NetAt
  <2>2. i \in P
    BY <2>1 DEF P, HungAt
  <2>3. PICK n \in 1 .. m : g[n] = i
    BY <1>2, <2>2 DEF Listing
  <2>4. n \in F
    BY <1>4, <2>1, <2>3
  <2>5. q <= n
    BY <1>6, <2>4
  <2>6. CASE q = n
    BY <2>3, <2>6, <1>8
  <2>7. CASE q # n
    <3>1. q < n
      BY <2>5, <2>7, <1>7
    <3>2. g[q] < g[n]
      BY <3>1, <1>2, <1>7 DEF Listing
    <3> QED
      BY <3>2, <2>3, <1>7, <1>8
  <2> QED
    BY <2>6, <2>7
<1>11. R \in SUBSET Nat
  BY <1>1
<1> HIDE DEF F, R
<1>12. WithoutFirst(list, R) = RemoveAt(list, g[q])
  <2>1. (CHOOSE i \in R : \A j \in R : i <= j) = g[q]
    BY <1>9, <1>10, <1>11, FirstOf
  <2> QED
    BY <2>1 DEF WithoutFirst
<1>13. WithoutFirst(d, F) = RemoveAt(d, q)
  <2>1. (CHOOSE i \in F : \A j \in F : i <= j) = q
    BY <1>5, <1>6, FirstOf
  <2> QED
    BY <2>1 DEF WithoutFirst
<1>14. RemoveAt(d, q) = DataOf(RemoveAt(e, q))
  <2>1. q \in 1 .. Len(e)
    BY <1>3, <1>7
  <2> QED
    BY <1>1, <1>3, <2>1, DataRemove
<1>15. g[q] \in 1 .. Len(list) /\ NetAt(list, g[q]) = net
  BY <1>7, <1>8
<1> QED
  BY <1>7, <1>12, <1>13, <1>14, <1>15 DEF F, R, d, e, P, FoundAt, MatchAt

LEMMA RemoveShape ==
  ASSUME NEW list, NEW tree, TreeShape(list, tree), NEW net \in Spelt, Canonical(net), NEW data,
         Path(net) \in DOMAIN tree, \E n \in DOMAIN tree[Path(net)] : tree[Path(net)][n] = data,
         NEW less, less = WithoutFirst(list, MatchAt(list, net, data)),
         NEW more, more = Pruned(tree, Path(net), data)
  PROVE  TreeShape(less, more) /\ Len(less) = Len(list) - 1
<1> DEFINE path == Path(net)
           P == HungAt(list, path)
           e == EntriesAt(list, P)
           size == Len(list)
<1>1. list \in Seq(Hangings) /\ DOMAIN list = 1 .. size /\ size \in Nat
  BY DEF TreeShape
<1>2. P \in SUBSET (1 .. size)
  BY <1>1, HungOn
<1>3. PICK m \in Nat : \E g : Listing(g, m, P)
  BY <1>1, <1>2, Enumerated
<1>4. PICK g : Listing(g, m, P)
  BY <1>3
<1>5. PICK q \in 1 .. m :
           /\ g[q] \in 1 .. size /\ NetAt(list, g[q]) = net
           /\ WithoutFirst(tree[path], FoundAt(tree[path], data)) = DataOf(RemoveAt(e, q))
           /\ less = RemoveAt(list, g[q])
  <2>1. Listing(g, m, HungAt(list, Path(net)))
    BY <1>4
  <2> HIDE DEF path, P, e, size
  <2>2. \E q \in 1 .. m :
           /\ g[q] \in 1 .. Len(list) /\ NetAt(list, g[q]) = net
           /\ WithoutFirst(tree[Path(net)], FoundAt(tree[Path(net)], data)) =
                DataOf(RemoveAt(EntriesAt(list, HungAt(list, Path(net))), q))
           /\ WithoutFirst(list, MatchAt(list, net, data)) =
                RemoveAt(list, g[q])
    BY <2>1, FirstListed
  <2> QED
    BY <2>2 DEF path, P, e, size
<1>6. PICK k \in 1 .. size : k = g[q]
  BY <1>5
<1>7. less = RemoveAt(list, k) /\ NetAt(list, k) = net
  BY <1>5, <1>6
<1>8. less \in Seq(Hangings) /\ Len(less) = size - 1 /\ \A i \in 1 .. size - 1 : less[i] = list[Past(i, k)]
  <2>1. k \in 1 .. Len(list)
    BY <1>6
  <2>2. /\ RemoveAt(list, k) \in Seq(Hangings) /\ Len(RemoveAt(list, k)) = Len(list) - 1
        /\ \A i \in 1 .. Len(list) - 1 : RemoveAt(list, k)[i] = list[Past(i, k)]
    BY <1>1, <2>1, RemovedAt
  <2> QED
    BY <1>7, <2>2
<1> HIDE DEF size
<1>9. DOMAIN less = 1 .. size - 1 /\ \A i \in 1 .. size - 1 : Past(i, k) \in 1 .. size /\ NetAt(less, i) = NetAt(list, Past(i, k))
  <2>1. \A i \in 1 .. size - 1 : Past(i, k) \in 1 .. size
    BY <1>1, <1>6 DEF Past
  <2> QED
    BY <1>1, <1>8, <2>1 DEF NetAt
<1>10. \A p : HungAt(less, p) = LeftOf(HungAt(list, p), k, size)
  BY <1>1, <1>9 DEF HungAt, LeftOf
<1>11. DOMAIN more = DOMAIN tree /\ (\A p \in DOMAIN tree : p # path => more[p] = tree[p])
       /\ more[path] = DataOf(RemoveAt(e, q)) /\ more = [p \in DOMAIN more |-> more[p]]
  <2>1. tree = [p \in DOMAIN tree |-> tree[p]] /\ path \in DOMAIN tree
    BY DEF TreeShape
  <2>2. more = [p \in DOMAIN tree |-> IF p = path THEN WithoutFirst(tree[path], FoundAt(tree[path], data))
                                      ELSE tree[p]]
    BY <2>1 DEF Pruned
  <2> QED
    BY <1>5, <2>1, <2>2
<1> HIDE DEF path, P, e
<1>12. ASSUME NEW p \in DOMAIN tree PROVE more[p] = DataOf(EntriesAt(less, HungAt(less, p)))
  <2>1. CASE p = path
    <3>1. EntriesAt(RemoveAt(list, g[q]), LeftOf(P, g[q], Len(list))) = RemoveAt(EntriesAt(list, P), q)
      BY <1>1, <1>2, <1>4, EntriesWithoutOne DEF size
    <3>2. EntriesAt(less, HungAt(less, p)) = RemoveAt(e, q)
      BY <2>1, <3>1, <1>6, <1>7, <1>10 DEF e, P, size
    <3> QED
      BY <2>1, <3>2, <1>11
  <2>2. CASE p # path
    <3>1. k \notin HungAt(list, p)
      BY <1>7, <2>2 DEF HungAt, path
    <3>2. HungAt(list, p) \in SUBSET (1 .. Len(list))
      BY <1>1, HungOn
    <3>3. EntriesAt(RemoveAt(list, k), LeftOf(HungAt(list, p), k, Len(list))) = EntriesAt(list, HungAt(list, p))
      BY <1>1, <1>6, <3>1, <3>2, EntriesWithout DEF size
    <3>4. tree[p] = DataOf(EntriesAt(list, HungAt(list, p)))
      BY DEF TreeShape
    <3> QED
      BY <2>2, <3>3, <3>4, <1>7, <1>10, <1>11 DEF size
  <2> QED
    BY <2>1, <2>2
<1>13. more = [p \in DOMAIN more |-> DataOf(EntriesAt(less, HungAt(less, p)))]
  BY <1>11, <1>12
<1>14. \A p \in DOMAIN more : p \in Seq(Turns) /\ Len(p) \in 1 .. AddressBits + 1
  BY <1>11 DEF TreeShape
<1>15. ASSUME NEW i \in DOMAIN less, NEW n \in 1 .. AddressBits + 1, n <= Len(Path(NetAt(less, i)))
       PROVE  SubSeq(Path(NetAt(less, i)), 1, n) \in DOMAIN more
  <2>1. Past(i, k) \in DOMAIN list /\ NetAt(less, i) = NetAt(list, Past(i, k))
    BY <1>1, <1>9
  <2> QED
    BY <2>1, <1>11, <1>15 DEF TreeShape
<1> QED
  BY <1>8, <1>13, <1>14, <1>15 DEF TreeShape, size

LEMMA TreeInitInv == TreeInit => TreeInv
<1>1. Len(<<>>) = 0
  OBVIOUS
<1> QED
  BY <1>1, TreeEmptyInv DEF TreeInit, TreeInv

LEMMA TreeNextInv == TreeInv /\ [TreeNext]_treeVars => TreeInv'
<1> SUFFICES ASSUME TreeInv, [TreeNext]_treeVars PROVE TreeInv'
  OBVIOUS
<1>0. hung \in Seq(Hangings) /\ treeSize = Len(hung) /\ TreeShape(hung, nodes)
  BY DEF TreeInv, TreeShape
<1>1. ASSUME NEW prefix \in Spellings, NEW data \in Data, InsertData(prefix, data) PROVE TreeInv'
  <2> DEFINE entry == [prefix |-> prefix, data |-> data]
  <2>1. entry \in Hangings /\ entry.prefix = prefix /\ entry.data = data
    BY PrefixAssumption DEF Hangings
  <2>2. hung' = Append(hung, entry) /\ treeSize' = treeSize + 1
    BY <1>1 DEF InsertData
  <2>3. LET path == Path(Network(entry.prefix))
            walked == {SubSeq(path, 1, n) : n \in 1 .. Len(path)}
            reached == [node \in DOMAIN nodes \cup walked |-> IF node \in DOMAIN nodes THEN nodes[node] ELSE <<>>]
        IN nodes' = [reached EXCEPT ![path] = Append(@, entry.data)]
    BY <1>1 DEF InsertData
  <2> HIDE DEF entry
  <2>4. TreeShape(hung, nodes)' 
    <3>1. TreeShape(Append(hung, entry), nodes')
      BY <1>0, <2>1, <2>3, InsertShape
    <3> QED
      BY <2>2, <3>1 DEF TreeShape, HungAt, NetAt
  <2>5. Len(Append(hung, entry)) = Len(hung) + 1
    BY <1>0, <2>1
  <2> QED
    BY <1>0, <2>2, <2>4, <2>5 DEF TreeInv
<1>2. ASSUME NEW prefix \in Spellings, NEW data \in Data, RemoveData(prefix, data) PROVE TreeInv'
  <2> DEFINE net == Network(prefix)
  <2>1. net \in Spelt /\ Canonical(net)
    BY PrefixAssumption, NetworkFields
  <2>2. /\ Path(net) \in DOMAIN nodes /\ \E i \in DOMAIN nodes[Path(net)] : nodes[Path(net)][i] = data
        /\ nodes' = [nodes EXCEPT ![Path(net)] = WithoutFirst(@, {i \in DOMAIN @ : @[i] = data})]
        /\ treeSize' = treeSize - 1
        /\ hung' = WithoutFirst(hung, {i \in DOMAIN hung : Network(hung[i].prefix) = net /\ hung[i].data = data})
    BY <1>2 DEF RemoveData
  <2> HIDE DEF net
  <2>3. TreeShape(hung', nodes') /\ Len(hung') = Len(hung) - 1
    <3>1. PICK less : less = hung'
      OBVIOUS
    <3>2. PICK more : more = nodes'
      OBVIOUS
    <3>3. less = WithoutFirst(hung, MatchAt(hung, net, data))
      BY <2>2, <3>1 DEF MatchAt
    <3>4. more = Pruned(nodes, Path(net), data)
      BY <2>2, <3>2 DEF FoundAt, Pruned
    <3>5. TreeShape(less, more) /\ Len(less) = Len(hung) - 1
      <4>1. Path(net) \in DOMAIN nodes /\ (\E n \in DOMAIN nodes[Path(net)] : nodes[Path(net)][n] = data)
        BY <2>2
      <4>2. TreeShape(hung, nodes)
        BY <1>0
      <4> QED
        BY <2>1, <3>3, <3>4, <4>1, <4>2, RemoveShape
    <3> QED
      BY <3>1, <3>2, <3>5
  <2>4. TreeShape(hung, nodes)'
    BY <2>3 DEF TreeShape, HungAt, NetAt
  <2> QED
    BY <1>0, <2>2, <2>3, <2>4 DEF TreeInv
<1>3. CASE ClearTree
  <2>1. hung' = <<>> /\ nodes' = [root \in Roots |-> <<>>] /\ treeSize' = 0
    BY <1>3 DEF ClearTree
  <2>2. TreeShape(hung', nodes') /\ Len(<<>>) = 0
    BY <2>1, TreeEmptyInv
  <2>3. TreeShape(hung, nodes)'
    BY <2>2 DEF TreeShape, HungAt, NetAt
  <2> QED
    BY <2>1, <2>2, <2>3 DEF TreeInv
<1>4. CASE UNCHANGED treeVars
  BY <1>4 DEF treeVars, TreeInv, TreeShape, HungAt, NetAt
<1> QED
  BY <1>1, <1>2, <1>3, <1>4 DEF TreeNext

(***************************************************************************)
(* What a lookup in the tree finds around a prefix and below it.           *)
(***************************************************************************)

(* What hangs around a prefix.                                             *)
Around(net) ==
  [n \in 1 .. AddressBits + 1 |->
     {i \in DOMAIN hung : hung[i].prefix.len = n - 1 /\ SubnetOf(net, Network(hung[i].prefix))}]

LEMMA AtWider ==
  ASSUME TreeInv, NEW net \in Spelt, Canonical(net), NEW n \in 1 .. net.len + 1
  PROVE  /\ n \in 1 .. AddressBits + 1 /\ n - 1 \in 0 .. net.len
         /\ Around(net)[n] = {i \in DOMAIN hung : NetAt(hung, i) = Wider(net, n - 1)}
         /\ Around(net)[n] = HungAt(hung, SubSeq(Path(net), 1, n))
<1>1. net.len \in 0 .. AddressBits /\ AddressBits \in Nat
  BY PathIs
<1>2. n \in 1 .. AddressBits + 1 /\ n - 1 \in 0 .. net.len /\ (n - 1) + 1 = n
  BY <1>1
<1>3. SubSeq(Path(net), 1, n) = Path(Wider(net, n - 1))
  <2>1. Path(Wider(net, n - 1)) = SubSeq(Path(net), 1, (n - 1) + 1)
    BY <1>2, PathWider
  <2> QED
    BY <1>2, <2>1
<1>4. Wider(net, n - 1) \in Spelt /\ Canonical(Wider(net, n - 1)) /\ Wider(net, n - 1).len = n - 1
  BY <1>2, WiderFields
<1>5. hung \in Seq(Hangings)
  BY DEF TreeInv, TreeShape
<1>6. ASSUME NEW i \in DOMAIN hung
      PROVE  /\ (hung[i].prefix.len = n - 1 /\ SubnetOf(net, NetAt(hung, i))) <=> NetAt(hung, i) = Wider(net, n - 1)
             /\ NetAt(hung, i) = Wider(net, n - 1) <=> Path(NetAt(hung, i)) = Path(Wider(net, n - 1))
  <2>1. NetAt(hung, i) \in Spelt /\ Canonical(NetAt(hung, i)) /\ NetAt(hung, i).len = hung[i].prefix.len
    BY <1>5, NetsHung
  <2>2. ASSUME NetAt(hung, i).len = n - 1, SubnetOf(net, NetAt(hung, i)) PROVE NetAt(hung, i) = Wider(net, n - 1)
    BY <2>1, <2>2, ContainsWider
  <2>3. SubnetOf(net, Wider(net, n - 1))
    BY <1>2, WiderContains
  <2>4. Path(NetAt(hung, i)) = Path(Wider(net, n - 1)) => NetAt(hung, i) = Wider(net, n - 1)
    BY <1>4, <2>1, PathSame
  <2> QED
    BY <1>4, <2>1, <2>2, <2>3, <2>4
<1>7. Around(net)[n] = {i \in DOMAIN hung : hung[i].prefix.len = n - 1 /\ SubnetOf(net, NetAt(hung, i))}
  BY <1>2 DEF Around, NetAt
<1>8. Around(net)[n] = {i \in DOMAIN hung : NetAt(hung, i) = Wider(net, n - 1)}
  BY <1>6, <1>7
<1>9. Around(net)[n] = HungAt(hung, SubSeq(Path(net), 1, n))
  BY <1>3, <1>6, <1>8 DEF HungAt
<1> QED
  BY <1>2, <1>8, <1>9

LEMMA AroundFar ==
  ASSUME TreeInv, NEW net \in Spelt, Canonical(net), NEW n \in 1 .. AddressBits + 1, ~(n <= net.len + 1)
  PROVE  Around(net)[n] = {}
<1>1. net.len \in 0 .. AddressBits /\ AddressBits \in Nat
  BY PathIs
<1>2. hung \in Seq(Hangings)
  BY DEF TreeInv, TreeShape
<1>3. ASSUME NEW i \in DOMAIN hung, hung[i].prefix.len = n - 1, SubnetOf(net, NetAt(hung, i)) PROVE FALSE
  <2>1. NetAt(hung, i) \in Spelt /\ Canonical(NetAt(hung, i)) /\ NetAt(hung, i).len = n - 1
    BY <1>2, <1>3, NetsHung
  <2>2. n - 1 \in 0 .. net.len
    BY <1>3, <2>1, ContainsWider
  <2> QED
    BY <1>1, <2>2
<1> QED
  BY <1>3 DEF Around, NetAt

LEMMA AroundPlaces ==
  ASSUME TreeInv, NEW net
  PROVE  \A n \in 1 .. AddressBits + 1 : Around(net)[n] \in SUBSET (1 .. Len(hung))
<1>1. hung \in Seq(Hangings)
  BY DEF TreeInv, TreeShape
<1>2. DOMAIN hung = 1 .. Len(hung)
  BY <1>1
<1> QED
  BY <1>2 DEF Around

LEMMA LookupIs ==
  ASSUME TreeInv, NEW query \in Spelt
  PROVE  Lookup(query) = DataOf(FlattenSeq(Chosen(hung, Around(Network(query)), AddressBits + 1)))
<1> DEFINE net == Network(query)
           path == Path(net)
           P == Around(net)
           last == AddressBits + 1
           seqs == Chosen(hung, P, last)
           k == net.len + 1
           cut == [n \in 1 .. k |-> seqs[n]]
           met(n) == IF SubSeq(path, 1, n) \in DOMAIN nodes THEN nodes[SubSeq(path, 1, n)] ELSE <<>>
<1>1. net \in Spelt /\ Canonical(net)
  BY NetworkFields
<1>2. net.len \in 0 .. AddressBits /\ AddressBits \in Nat /\ Len(path) = k /\ last \in Nat /\ k \in 0 .. last
  BY <1>1, PathIs
<1>3. hung \in Seq(Hangings) /\ \A n \in 1 .. last : P[n] \in SUBSET (1 .. Len(hung))
  <2>1. \A n \in 1 .. last : P[n] \in SUBSET (1 .. Len(hung))
    BY AroundPlaces
  <2> QED
    BY <2>1 DEF TreeInv, TreeShape
<1> HIDE DEF net, path, P, last, k
<1>4. seqs \in Seq(Seq(Hangings)) /\ Len(seqs) = last /\ \A n \in 1 .. last : seqs[n] = EntriesAt(hung, P[n])
  BY <1>2, <1>3, ChosenType
<1> HIDE DEF seqs
<1>5. \A n \in k + 1 .. last : seqs[n] = <<>>
  <2> SUFFICES ASSUME NEW n \in k + 1 .. last PROVE seqs[n] = <<>>
    OBVIOUS
  <2>1. n \in 1 .. last /\ ~(n <= k)
    BY <1>2
  <2>2. P[n] = {}
    BY <1>1, <2>1, AroundFar DEF P, k, last
  <2> QED
    BY <1>4, <2>1, <2>2, EntriesNone
<1>6. FlattenSeq(seqs) = FlattenSeq(cut)
  <2>1. k \in 0 .. Len(seqs) /\ \A n \in k + 1 .. Len(seqs) : seqs[n] = <<>>
    BY <1>2, <1>4, <1>5
  <2> QED
    BY <1>4, <2>1, FlatPadded
<1>7. cut \in Seq(Seq(Hangings)) /\ Len(cut) = k /\ \A n \in 1 .. k : cut[n] = EntriesAt(hung, P[n])
  <2>1. \A n \in 1 .. k : n \in 1 .. last
    BY <1>2
  <2>2. \A n \in 1 .. last : seqs[n] \in Seq(Hangings)
    BY <1>4
  <2>3. cut \in [1 .. k -> Seq(Hangings)]
    BY <2>1, <2>2
  <2> QED
    BY <1>2, <1>4, <2>1, <2>3
<1> HIDE DEF cut
<1>8. DataOf(FlattenSeq(cut)) = FlattenSeq([n \in 1 .. k |-> DataOf(cut[n])])
  <2>1. \A y \in Hangings : y.data \in Data
    BY DEF Hangings
  <2>2. DataOf(FlattenSeq(cut)) = FlattenSeq([n \in 1 .. Len(cut) |-> DataOf(cut[n])])
    BY <1>7, <2>1, FlatData
  <2> QED
    BY <1>7, <2>2
<1>9. ASSUME NEW n \in 1 .. k PROVE met(n) = DataOf(cut[n])
  <2>1. P[n] = HungAt(hung, SubSeq(path, 1, n))
    BY <1>1, AtWider DEF P, path, k
  <2>2. CASE SubSeq(path, 1, n) \in DOMAIN nodes
    BY <1>7, <2>1, <2>2 DEF TreeInv, TreeShape
  <2>3. CASE SubSeq(path, 1, n) \notin DOMAIN nodes
    <3>1. DataOf(EntriesAt(hung, HungAt(hung, SubSeq(path, 1, n)))) = <<>>
      BY <2>3, NotHung DEF TreeInv
    <3> QED
      BY <1>7, <2>1, <2>3, <3>1
  <2> QED
    BY <2>2, <2>3
<1>10. Lookup(query) = FlattenSeq([n \in 1 .. k |-> met(n)])
  BY <1>2 DEF Lookup, path, net
<1> HIDE DEF met
<1>11. [n \in 1 .. k |-> met(n)] = [n \in 1 .. k |-> DataOf(cut[n])]
  BY <1>9
<1>12. Lookup(query) = DataOf(FlattenSeq(seqs))
  BY <1>6, <1>8, <1>10, <1>11
<1> QED
  BY <1>12 DEF seqs, P, net, last

(* The subtree below a node.                                               *)
SideOf(g, node, bit) == IF Append(node, bit) \in DOMAIN nodes THEN g[Append(node, bit)] ELSE <<>>
Gathered(g) == [node \in DOMAIN nodes |-> nodes[node] \o SideOf(g, node, 0) \o SideOf(g, node, 1)]

LEMMA NodesAre ==
  ASSUME TreeInv, NEW node \in DOMAIN nodes
  PROVE  /\ node \in Seq(Turns) /\ Len(node) \in 1 .. AddressBits + 1 /\ AddressBits \in Nat
         /\ nodes[node] = DataOf(EntriesAt(hung, HungAt(hung, node))) /\ nodes[node] \in Seq(Data)
         /\ \A bit \in Bits : Append(node, bit) \in Seq(Turns) /\ Len(Append(node, bit)) = Len(node) + 1
                              /\ Append(node, bit)[Len(node) + 1] = bit
                              /\ \A j \in 1 .. Len(node) : Append(node, bit)[j] = node[j]
<1>1. node \in Seq(Turns) /\ Len(node) \in 1 .. AddressBits + 1 /\ AddressBits \in Nat
  BY PrefixAssumption DEF TreeInv, TreeShape
<1>2. hung \in Seq(Hangings) /\ nodes[node] = DataOf(EntriesAt(hung, HungAt(hung, node)))
  BY DEF TreeInv, TreeShape
<1>3. EntriesAt(hung, HungAt(hung, node)) \in Seq(Hangings)
  BY <1>2, HungOn
<1>4. \A y \in Hangings : y.data \in Data
  BY DEF Hangings
<1>5. nodes[node] \in Seq(Data)
  BY <1>2, <1>3, <1>4, DataJoin
<1>6. ASSUME NEW bit \in Bits
      PROVE  Append(node, bit) \in Seq(Turns) /\ Len(Append(node, bit)) = Len(node) + 1
             /\ Append(node, bit)[Len(node) + 1] = bit
             /\ \A j \in 1 .. Len(node) : Append(node, bit)[j] = node[j]
  <2>1. bit \in Turns
    BY DEF Turns
  <2> QED
    BY <1>1, <2>1
<1> QED
  BY <1>1, <1>2, <1>5, <1>6

LEMMA GatheredExists ==
  ASSUME TreeInv
  PROVE  \E g : g = Gathered(g)
<1> DEFINE T == [DOMAIN nodes -> Seq(Data)]
           first == [node \in DOMAIN nodes |-> <<>>]
           step == [n \in Nat |-> [g \in T |-> Gathered(g)]]
<1>1. first \in T
  <2>1. <<>> \in Seq(Data)
    OBVIOUS
  <2> QED
    BY <2>1
<1>2. ASSUME NEW g \in T PROVE Gathered(g) \in T
  <2>1. ASSUME NEW node \in DOMAIN nodes, NEW bit \in Bits PROVE SideOf(g, node, bit) \in Seq(Data)
    <3>1. <<>> \in Seq(Data)
      OBVIOUS
    <3> QED
      BY <3>1 DEF SideOf
  <2>2. ASSUME NEW node \in DOMAIN nodes PROVE nodes[node] \o SideOf(g, node, 0) \o SideOf(g, node, 1) \in Seq(Data)
    <3>1. nodes[node] \in Seq(Data) /\ SideOf(g, node, 0) \in Seq(Data) /\ SideOf(g, node, 1) \in Seq(Data)
      BY <2>1, NodesAre DEF Bits
    <3> QED
      BY <3>1
  <2> QED
    BY <2>2 DEF Gathered
<1>3. step \in [Nat -> [T -> T]]
  <2> HIDE DEF T
  <2> QED
    BY <1>2
<1>4. PICK h : Follows(h, T, first, step)
  <2> HIDE DEF T, step, first
  <2> QED
    BY <1>1, <1>3, RecursionExists
<1> HIDE DEF T, first
<1>5. \A n \in Nat : h[n] \in T /\ h[n + 1] = Gathered(h[n])
  BY <1>4 DEF Follows
<1> HIDE DEF step
<1> DEFINE S == {k \in Nat : \A node \in DOMAIN nodes : Len(node) + k >= AddressBits + 2 => h[k + 1][node] = h[k][node]}
<1>6. 0 \in S
  <2>1. ASSUME NEW node \in DOMAIN nodes PROVE ~(Len(node) + 0 >= AddressBits + 2)
    BY NodesAre
  <2> QED
    BY <2>1
<1>7. ASSUME NEW k \in S PROVE k + 1 \in S
  <2>0. k \in Nat /\ k + 1 \in Nat /\ \A node \in DOMAIN nodes : Len(node) + k >= AddressBits + 2 => h[k + 1][node] = h[k][node]
    OBVIOUS
  <2>1. ASSUME NEW node \in DOMAIN nodes, Len(node) + (k + 1) >= AddressBits + 2
        PROVE  h[(k + 1) + 1][node] = h[k + 1][node]
    <3>1. ASSUME NEW bit \in Bits PROVE SideOf(h[k + 1], node, bit) = SideOf(h[k], node, bit)
      <4>1. CASE Append(node, bit) \in DOMAIN nodes
        <5>1. Len(Append(node, bit)) = Len(node) + 1 /\ Len(node) \in Nat
          BY NodesAre
        <5>2. Len(Append(node, bit)) + k >= AddressBits + 2
          BY <2>0, <2>1, <5>1
        <5> QED
          BY <2>0, <4>1, <5>2 DEF SideOf
      <4>2. CASE Append(node, bit) \notin DOMAIN nodes
        BY <4>2 DEF SideOf
      <4> QED
        BY <4>1, <4>2
    <3>2. h[(k + 1) + 1] = Gathered(h[k + 1]) /\ h[k + 1] = Gathered(h[k])
      BY <1>5, <2>0
    <3>3. \A g : Gathered(g)[node] = nodes[node] \o SideOf(g, node, 0) \o SideOf(g, node, 1)
      BY DEF Gathered
    <3>4. SideOf(h[k + 1], node, 0) = SideOf(h[k], node, 0) /\ SideOf(h[k + 1], node, 1) = SideOf(h[k], node, 1)
      BY <3>1 DEF Bits
    <3>5. Gathered(h[k + 1])[node] = Gathered(h[k])[node]
      BY <3>3, <3>4
    <3> QED
      BY <3>2, <3>5
  <2> QED
    BY <2>0, <2>1
<1>8. S \in SUBSET Nat
  OBVIOUS
<1>9. AddressBits + 1 \in S /\ AddressBits + 1 \in Nat
  <2>1. AddressBits + 1 \in Nat
    BY PrefixAssumption
  <2> HIDE DEF S
  <2> QED
    BY <1>6, <1>7, <1>8, <2>1, SetInduction
<1>10. PICK K \in Nat : K = AddressBits + 1
  BY <1>9
<1>11. \A node \in DOMAIN nodes : h[K + 1][node] = h[K][node]
  <2>1. K \in S
    BY <1>9, <1>10
  <2>2. \A node \in DOMAIN nodes : Len(node) + K >= AddressBits + 2
    <3> SUFFICES ASSUME NEW node \in DOMAIN nodes PROVE Len(node) + K >= AddressBits + 2
      OBVIOUS
    <3>1. Len(node) \in 1 .. AddressBits + 1 /\ AddressBits \in Nat
      BY NodesAre
    <3> QED
      BY <1>10, <3>1
  <2> QED
    BY <2>1, <2>2
<1>12. h[K + 1] = h[K]
  <2>1. h[K + 1] \in T /\ h[K] \in T
    <3>1. K + 1 \in Nat
      OBVIOUS
    <3> QED
      BY <1>5, <3>1
  <2> QED
    BY <1>11, <2>1 DEF T
<1>13. h[K] = Gathered(h[K])
  BY <1>5, <1>12
<1> QED
  BY <1>13

LEMMA CollectedIs ==
  ASSUME TreeInv, NEW node \in DOMAIN nodes
  PROVE  Collected[node] = nodes[node] \o SideOf(Collected, node, 0) \o SideOf(Collected, node, 1)
<1> DEFINE Body(g) == [n \in DOMAIN nodes |-> nodes[n] \o SideOf(g, n, 0) \o SideOf(g, n, 1)]
<1>1. Collected = CHOOSE g : g = Body(g)
  BY DEF Collected, SideOf
<1>2. \E g : g = Body(g)
  BY GatheredExists DEF Gathered
<1> DEFINE c == CHOOSE g : g = Body(g)
<1>3. c = Body(c)
  <2> HIDE DEF Body
  <2> QED
    BY <1>2
<1> HIDE DEF c
<1>4. c[node] = nodes[node] \o SideOf(c, node, 0) \o SideOf(c, node, 1)
  BY <1>3
<1>5. Collected = c
  BY <1>1 DEF c
<1> QED
  BY <1>4, <1>5

LEMMA CountData ==
  ASSUME NEW s \in Seq(Hangings), NEW V
  PROVE  Count(DataOf(s), V) = Count(s, {x \in Hangings : x.data \in V})
<1>1. DataOf(s) \in Seq(Data) /\ Len(DataOf(s)) = Len(s) /\ \A i \in 1 .. Len(s) : DataOf(s)[i] = s[i].data
  <2>1. \A y \in Hangings : y.data \in Data
    BY DEF Hangings
  <2> QED
    BY <2>1, DataJoin
<1>2. DOMAIN DataOf(s) = 1 .. Len(s) /\ DOMAIN s = 1 .. Len(s) /\ \A i \in 1 .. Len(s) : s[i] \in Hangings
  BY <1>1
<1>3. Among(DataOf(s), V) = Among(s, {x \in Hangings : x.data \in V})
  BY <1>1, <1>2 DEF Among
<1> QED
  BY <1>3 DEF Count

LEMMA CountDataAt ==
  ASSUME NEW list \in Seq(Hangings), NEW P \in SUBSET (1 .. Len(list)), NEW V
  PROVE  /\ DataOf(EntriesAt(list, P)) \in Seq(Data) /\ Len(DataOf(EntriesAt(list, P))) = Len(EntriesAt(list, P))
         /\ Count(DataOf(EntriesAt(list, P)), V) = Cardinality({i \in P : list[i].data \in V})
<1> DEFINE W == {x \in Hangings : x.data \in V}
<1>1. EntriesAt(list, P) \in Seq(Hangings)
  BY EntriesType
<1>2. DataOf(EntriesAt(list, P)) \in Seq(Data) /\ Len(DataOf(EntriesAt(list, P))) = Len(EntriesAt(list, P))
  <2>1. \A y \in Hangings : y.data \in Data
    BY DEF Hangings
  <2> QED
    BY <1>1, <2>1, DataJoin
<1>3. Count(DataOf(EntriesAt(list, P)), V) = Count(EntriesAt(list, P), W)
  BY <1>1, CountData
<1>4. Count(EntriesAt(list, P), W) = Cardinality({i \in P : list[i] \in W})
  BY CountEntries
<1>5. \A i \in P : list[i] \in W <=> list[i].data \in V
  <2>1. \A i \in P : list[i] \in Hangings
    OBVIOUS
  <2> QED
    BY <2>1
<1>6. {i \in P : list[i] \in W} = {i \in P : list[i].data \in V}
  BY <1>5
<1> QED
  BY <1>2, <1>3, <1>4, <1>6

LEMMA CountAll ==
  ASSUME NEW A, NEW s \in Seq(A)
  PROVE  Count(s, A) = Len(s)
<1>1. Len(s) \in Nat /\ DOMAIN s = 1 .. Len(s) /\ \A i \in 1 .. Len(s) : s[i] \in A
  OBVIOUS
<1>2. Among(s, A) = 1 .. Len(s)
  BY <1>1 DEF Among
<1> QED
  BY <1>1, <1>2, FirstNumbers DEF Count

(* What hangs on a node or below it.                                       *)
Under(node) ==
  {i \in DOMAIN hung : /\ Len(node) <= Len(Path(NetAt(hung, i)))
                       /\ \A j \in 1 .. Len(node) : Path(NetAt(hung, i))[j] = node[j]}
With(P, V) == {i \in P : hung[i].data \in V}

LEMMA WithFinite ==
  ASSUME TreeInv, NEW P \in SUBSET (DOMAIN hung), NEW V
  PROVE  IsFiniteSet(With(P, V)) /\ Cardinality(With(P, V)) \in Nat
<1>1. DOMAIN hung = 1 .. Len(hung) /\ Len(hung) \in Nat
  BY DEF TreeInv, TreeShape
<1>2. IsFiniteSet(1 .. Len(hung))
  BY <1>1, FS_Interval
<1>3. With(P, V) \in SUBSET (1 .. Len(hung))
  BY <1>1 DEF With
<1> QED
  BY <1>2, <1>3, FS_Subset, FS_CardinalityType

LEMMA WithJoined ==
  ASSUME TreeInv, NEW P \in SUBSET (DOMAIN hung), NEW Q \in SUBSET (DOMAIN hung), P \cap Q = {}, NEW V
  PROVE  Cardinality(With(P \cup Q, V)) = Cardinality(With(P, V)) + Cardinality(With(Q, V))
<1>1. IsFiniteSet(With(P, V)) /\ IsFiniteSet(With(Q, V))
      /\ Cardinality(With(P, V)) \in Nat /\ Cardinality(With(Q, V)) \in Nat
  BY WithFinite
<1>2. With(P \cup Q, V) = With(P, V) \cup With(Q, V) /\ With(P, V) \cap With(Q, V) = {}
  BY DEF With
<1>3. Cardinality(With(P, V) \cup With(Q, V)) = Cardinality(With(P, V)) + Cardinality(With(Q, V)) - Cardinality({})
  BY <1>1, <1>2, FS_Union
<1>4. Cardinality({}) = 0
  BY FS_EmptySet
<1>5. \A a, b \in Nat : a + b - 0 = a + b
  OBVIOUS
<1>6. Cardinality(With(P \cup Q, V)) = Cardinality(With(P, V)) + Cardinality(With(Q, V)) - 0
  BY <1>2, <1>3, <1>4
<1> QED
  BY <1>1, <1>5, <1>6

LEMMA UnderSplit ==
  ASSUME TreeInv, NEW node \in DOMAIN nodes
  PROVE  /\ Under(node) = HungAt(hung, node) \cup (Under(Append(node, 0)) \cup Under(Append(node, 1)))
         /\ HungAt(hung, node) \cap (Under(Append(node, 0)) \cup Under(Append(node, 1))) = {}
         /\ Under(Append(node, 0)) \cap Under(Append(node, 1)) = {}
         /\ \A bit \in Bits : Append(node, bit) \notin DOMAIN nodes => Under(Append(node, bit)) = {}
<1> DEFINE k == Len(node)
<1>1. /\ node \in Seq(Turns) /\ k \in 1 .. AddressBits + 1 /\ AddressBits \in Nat
      /\ \A bit \in Bits : Append(node, bit) \in Seq(Turns) /\ Len(Append(node, bit)) = k + 1
                              /\ Append(node, bit)[k + 1] = bit
                              /\ \A j \in 1 .. k : Append(node, bit)[j] = node[j]
  BY NodesAre
<1>2. hung \in Seq(Hangings)
  BY DEF TreeInv, TreeShape
<1> HIDE DEF k
<1>3. ASSUME NEW i \in DOMAIN hung, NEW bit \in Bits
      PROVE  i \in Under(Append(node, bit)) <=>
               i \in Under(node) /\ k + 1 <= Len(Path(NetAt(hung, i))) /\ Path(NetAt(hung, i))[k + 1] = bit
  <2> DEFINE p == Path(NetAt(hung, i))
             c == Append(node, bit)
  <2>1. Len(c) = k + 1 /\ c[k + 1] = bit /\ \A j \in 1 .. k : c[j] = node[j]
    BY <1>1
  <2>2. Len(p) \in Nat
    <3>1. Len(p) \in 1 .. AddressBits + 1
      BY <1>2, NetsHung
    <3> QED
      BY <1>1, <3>1
  <2>3. i \in Under(c) <=> Len(c) <= Len(p) /\ \A j \in 1 .. Len(c) : p[j] = c[j]
    BY DEF Under
  <2>4. i \in Under(node) <=> k <= Len(p) /\ \A j \in 1 .. k : p[j] = node[j]
    BY DEF Under, k
  <2> HIDE DEF p, c
  <2>5. \A j \in 1 .. k + 1 : j \in 1 .. k \/ j = k + 1
    BY <1>1
  <2>6. (\A j \in 1 .. k : j \in 1 .. k + 1) /\ k + 1 \in 1 .. k + 1
    BY <1>1
  <2>7. i \in Under(c) => i \in Under(node) /\ k + 1 <= Len(p) /\ p[k + 1] = bit
    <3> SUFFICES ASSUME i \in Under(c) PROVE i \in Under(node) /\ k + 1 <= Len(p) /\ p[k + 1] = bit
      OBVIOUS
    <3>1. k + 1 <= Len(p) /\ \A j \in 1 .. k + 1 : p[j] = c[j]
      BY <2>1, <2>3
    <3>2. k <= Len(p)
      BY <1>1, <2>2, <3>1
    <3> QED
      BY <2>1, <2>4, <2>6, <3>1, <3>2
  <2>8. i \in Under(node) /\ k + 1 <= Len(p) /\ p[k + 1] = bit => i \in Under(c)
    <3> SUFFICES ASSUME i \in Under(node), k + 1 <= Len(p), p[k + 1] = bit PROVE i \in Under(c)
      OBVIOUS
    <3>1. \A j \in 1 .. k : p[j] = node[j]
      BY <2>4
    <3> QED
      BY <2>1, <2>3, <2>5, <3>1
  <2> QED
    BY <2>7, <2>8 DEF p, c
<1>4. ASSUME NEW i \in DOMAIN hung
      PROVE  /\ i \in HungAt(hung, node) <=> i \in Under(node) /\ Len(Path(NetAt(hung, i))) = k
             /\ i \in Under(node) => Len(Path(NetAt(hung, i))) = k \/
                  (k + 1 <= Len(Path(NetAt(hung, i))) /\ Path(NetAt(hung, i))[k + 1] \in Bits)
  <2> DEFINE net == NetAt(hung, i)
             p == Path(net)
  <2>1. net \in Spelt /\ p \in Seq(Turns) /\ Len(p) \in 1 .. AddressBits + 1
    BY <1>2, NetsHung
  <2>2. Len(p) = net.len + 1 /\ (\A j \in 1 .. net.len : p[j + 1] = Bit(net, j)) /\ net.len \in 0 .. AddressBits
    BY <2>1, PathIs
  <2>3. i \in Under(node) <=> k <= Len(p) /\ \A j \in 1 .. k : p[j] = node[j]
    BY DEF Under, k
  <2>4. i \in HungAt(hung, node) <=> p = node
    BY DEF HungAt
  <2> HIDE DEF p
  <2>5. p = node <=> Len(p) = k /\ \A j \in 1 .. k : p[j] = node[j]
    <3>1. Len(p) = k /\ (\A j \in 1 .. k : p[j] = node[j]) => p = node
      BY <1>1, <2>1, SameSeq DEF k
    <3> QED
      BY <3>1 DEF k
  <2>6. k <= Len(p) => Len(p) = k \/ (k + 1 <= Len(p) /\ p[k + 1] \in Bits)
    <3> SUFFICES ASSUME k <= Len(p), Len(p) # k PROVE k + 1 <= Len(p) /\ p[k + 1] \in Bits
      OBVIOUS
    <3>1. k + 1 <= Len(p) /\ k \in 1 .. net.len
      BY <1>1, <2>1, <2>2
    <3>2. p[k + 1] = Bit(net, k) /\ Bit(net, k) \in Bits
      BY <2>1, <2>2, <3>1, BitIs
    <3> QED
      BY <3>1, <3>2
  <2> QED
    BY <1>1, <2>3, <2>4, <2>5, <2>6 DEF p
<1>5. \A i \in DOMAIN hung : i \in Under(node) <=> i \in HungAt(hung, node) \/ i \in Under(Append(node, 0)) \/ i \in Under(Append(node, 1))
  BY <1>3, <1>4 DEF Bits
<1>6. \A i : (i \in Under(node) \/ i \in HungAt(hung, node) \/ i \in Under(Append(node, 0)) \/ i \in Under(Append(node, 1)))
               => i \in DOMAIN hung
  BY DEF Under, HungAt
<1>7. \A i \in DOMAIN hung : ~(i \in HungAt(hung, node) /\ (i \in Under(Append(node, 0)) \/ i \in Under(Append(node, 1))))
  <2> SUFFICES ASSUME NEW i \in DOMAIN hung, i \in HungAt(hung, node), NEW bit \in Bits, i \in Under(Append(node, bit)) PROVE FALSE
    BY DEF Bits
  <2>1. Len(Path(NetAt(hung, i))) = k /\ k + 1 <= Len(Path(NetAt(hung, i)))
    BY <1>3, <1>4
  <2> QED
    BY <1>1, <2>1
<1>8. \A i \in DOMAIN hung : ~(i \in Under(Append(node, 0)) /\ i \in Under(Append(node, 1)))
  <2>1. 0 \in Bits /\ 1 \in Bits /\ 0 # 1
    BY DEF Bits
  <2> QED
    BY <1>3, <2>1
<1>9. ASSUME NEW bit \in Bits, Append(node, bit) \notin DOMAIN nodes PROVE Under(Append(node, bit)) = {}
  <2> SUFFICES ASSUME NEW i \in Under(Append(node, bit)) PROVE FALSE
    OBVIOUS
  <2> DEFINE p == Path(NetAt(hung, i))
             c == Append(node, bit)
  <2>1. i \in DOMAIN hung /\ Len(c) <= Len(p) /\ \A j \in 1 .. Len(c) : p[j] = c[j]
    BY DEF Under
  <2>2. p \in Seq(Turns) /\ Len(p) \in 1 .. AddressBits + 1
    BY <1>2, <2>1, NetsHung
  <2>3. c \in Seq(Turns) /\ Len(c) = k + 1
    BY <1>1
  <2>4. SubSeq(p, 1, Len(c)) \in DOMAIN nodes
    <3>1. Len(c) \in 1 .. AddressBits + 1
      <4> HIDE DEF p, c
      <4> QED
        BY <1>1, <2>1, <2>2, <2>3
    <3> QED
      BY <2>1, <3>1 DEF TreeInv, TreeShape
  <2> HIDE DEF p, c
  <2>5. SubSeq(p, 1, Len(c)) \in Seq(Turns) /\ Len(SubSeq(p, 1, Len(c))) = Len(c)
        /\ \A j \in 1 .. Len(c) : SubSeq(p, 1, Len(c))[j] = p[j]
    BY <1>1, <2>1, <2>2, <2>3
  <2>6. SubSeq(p, 1, Len(c)) = c
    BY <2>1, <2>3, <2>5, SameSeq
  <2> QED
    BY <1>9, <2>4, <2>6 DEF c
<1> QED
  BY <1>5, <1>6, <1>7, <1>8, <1>9

(* What is collected below a node counts what hangs there: first for a     *)
(* leaf, then for a node whose two sides are right.                        *)
SubtreeOK(node) ==
  /\ Collected[node] \in Seq(Data)
  /\ \A V : Count(Collected[node], V) = Cardinality(With(Under(node), V))

SideOK(node, bit) ==
  /\ SideOf(Collected, node, bit) \in Seq(Data)
  /\ \A V : Count(SideOf(Collected, node, bit), V) = Cardinality(With(Under(Append(node, bit)), V))

LEMMA SidesCounted ==
  ASSUME TreeInv, NEW node \in DOMAIN nodes, NEW bit \in Bits,
         Append(node, bit) \in DOMAIN nodes => SubtreeOK(Append(node, bit))
  PROVE  SideOK(node, bit)
<1>1. CASE Append(node, bit) \in DOMAIN nodes
  BY <1>1 DEF SideOK, SubtreeOK, SideOf
<1>2. CASE Append(node, bit) \notin DOMAIN nodes
  <2>1. SideOf(Collected, node, bit) = <<>> /\ Under(Append(node, bit)) = {}
    BY <1>2, UnderSplit DEF SideOf
  <2>2. ASSUME NEW V PROVE Count(<<>>, V) = Cardinality(With({}, V))
    <3>1. With({}, V) = {}
      BY DEF With
    <3> QED
      BY <3>1, CountNone, FS_EmptySet
  <2>3. <<>> \in Seq(Data)
    OBVIOUS
  <2> QED
    BY <2>1, <2>2, <2>3 DEF SideOK
<1> QED
  BY <1>1, <1>2

LEMMA BelowCounted ==
  ASSUME TreeInv, NEW node \in DOMAIN nodes, SideOK(node, 0), SideOK(node, 1)
  PROVE  LET below == SideOf(Collected, node, 0) \o SideOf(Collected, node, 1) IN
         /\ Collected[node] = nodes[node] \o below /\ below \in Seq(Data)
         /\ \A V : Count(below, V) = Cardinality(With(Under(Append(node, 0)) \cup Under(Append(node, 1)), V))
<1>1. PICK u, w, y \in Seq(Data) :
        u = nodes[node] /\ w = SideOf(Collected, node, 0) /\ y = SideOf(Collected, node, 1)
  BY NodesAre DEF SideOK
<1>2. Collected[node] = u \o w \o y
  BY <1>1, CollectedIs
<1>3. w \o y \in Seq(Data) /\ u \o w \o y = u \o (w \o y)
  <2> DEFINE a == Len(u)
             b == Len(w)
             c == Len(y)
  <2>0. a \in Nat /\ b \in Nat /\ c \in Nat
    OBVIOUS
  <2>1. u \o w \in Seq(Data) /\ Len(u \o w) = a + b
        /\ \A i \in 1 .. a + b : (u \o w)[i] = IF i <= a THEN u[i] ELSE w[i - a]
    BY JoinIs
  <2>2. w \o y \in Seq(Data) /\ Len(w \o y) = b + c
        /\ \A i \in 1 .. b + c : (w \o y)[i] = IF i <= b THEN w[i] ELSE y[i - b]
    BY JoinIs
  <2>3. (u \o w) \o y \in Seq(Data) /\ Len((u \o w) \o y) = (a + b) + c
        /\ \A i \in 1 .. (a + b) + c : ((u \o w) \o y)[i] = IF i <= a + b THEN (u \o w)[i] ELSE y[i - (a + b)]
    <3> DEFINE v == u \o w
    <3>1. v \in Seq(Data) /\ Len(v) = a + b
      BY <2>1
    <3> HIDE DEF v, a, b
    <3>2. v \o y \in Seq(Data) /\ Len(v \o y) = Len(v) + Len(y)
          /\ \A i \in 1 .. Len(v) + Len(y) : (v \o y)[i] = IF i <= Len(v) THEN v[i] ELSE y[i - Len(v)]
      BY <3>1, JoinIs
    <3> QED
      BY <3>1, <3>2 DEF v
  <2>4. u \o (w \o y) \in Seq(Data) /\ Len(u \o (w \o y)) = a + (b + c)
        /\ \A i \in 1 .. a + (b + c) : (u \o (w \o y))[i] = IF i <= a THEN u[i] ELSE (w \o y)[i - a]
    <3> DEFINE v == w \o y
    <3>1. v \in Seq(Data) /\ Len(v) = b + c
      BY <2>2
    <3> HIDE DEF v, b, c
    <3>2. u \o v \in Seq(Data) /\ Len(u \o v) = Len(u) + Len(v)
          /\ \A i \in 1 .. Len(u) + Len(v) : (u \o v)[i] = IF i <= Len(u) THEN u[i] ELSE v[i - Len(u)]
      BY <3>1, JoinIs
    <3> QED
      BY <3>1, <3>2 DEF v
  <2>5. (a + b) + c = a + (b + c)
    BY <2>0
  <2> HIDE DEF a, b, c
  <2>6. ASSUME NEW i \in 1 .. a + (b + c) PROVE ((u \o w) \o y)[i] = (u \o (w \o y))[i]
    <3>1. CASE i <= a
      <4>1. i <= a + b /\ i \in 1 .. a + b
        BY <2>0, <3>1
      <4> QED
        BY <2>1, <2>3, <2>4, <2>5, <3>1, <4>1
    <3>2. CASE ~(i <= a) /\ i <= a + b
      <4>1. i \in 1 .. a + b /\ i - a \in 1 .. b + c /\ i - a <= b
        BY <2>0, <3>2
      <4> QED
        BY <2>1, <2>2, <2>3, <2>4, <2>5, <3>2, <4>1
    <3>3. CASE ~(i <= a) /\ ~(i <= a + b)
      <4>1. i - a \in 1 .. b + c /\ ~(i - a <= b) /\ (i - a) - b = i - (a + b)
        BY <2>0, <3>3
      <4> QED
        BY <2>1, <2>2, <2>3, <2>4, <2>5, <3>3, <4>1
    <3> QED
      BY <3>1, <3>2, <3>3
  <2>7. (u \o w) \o y = u \o (w \o y)
    <3>1. Len((u \o w) \o y) = Len(u \o (w \o y)) /\ \A i \in 1 .. Len((u \o w) \o y) : ((u \o w) \o y)[i] = (u \o (w \o y))[i]
      BY <2>3, <2>4, <2>5, <2>6
    <3> QED
      BY <2>3, <2>4, <3>1, SameSeq
  <2> QED
    BY <2>2, <2>7
<1>4. ASSUME NEW V
      PROVE  Count(w \o y, V) = Cardinality(With(Under(Append(node, 0)) \cup Under(Append(node, 1)), V))
  <2>1. Count(w \o y, V) = Count(w, V) + Count(y, V)
    BY CountJoin
  <2>2. Count(w, V) = Cardinality(With(Under(Append(node, 0)), V)) /\ Count(y, V) = Cardinality(With(Under(Append(node, 1)), V))
    BY <1>1 DEF SideOK
  <2>3. Under(Append(node, 0)) \in SUBSET (DOMAIN hung) /\ Under(Append(node, 1)) \in SUBSET (DOMAIN hung)
        /\ Under(Append(node, 0)) \cap Under(Append(node, 1)) = {}
    <3>1. Under(Append(node, 0)) \in SUBSET (DOMAIN hung) /\ Under(Append(node, 1)) \in SUBSET (DOMAIN hung)
      BY DEF Under
    <3> QED
      BY <3>1, UnderSplit
  <2> QED
    BY <2>1, <2>2, <2>3, WithJoined
<1> QED
  BY <1>1, <1>2, <1>3, <1>4

LEMMA HereCounted ==
  ASSUME TreeInv, NEW node \in DOMAIN nodes, NEW V
  PROVE  Count(nodes[node], V) = Cardinality(With(HungAt(hung, node), V))
<1>1. hung \in Seq(Hangings)
  BY DEF TreeInv, TreeShape
<1>2. HungAt(hung, node) \in SUBSET (1 .. Len(hung))
  BY <1>1, HungOn
<1>3. nodes[node] = DataOf(EntriesAt(hung, HungAt(hung, node)))
  BY NodesAre
<1> QED
  BY <1>1, <1>2, <1>3, CountDataAt DEF With

LEMMA SubtreeCounted ==
  ASSUME TreeInv
  PROVE  \A node \in DOMAIN nodes : SubtreeOK(node)
<1> DEFINE S == {k \in Nat : \A node \in DOMAIN nodes : Len(node) + k >= AddressBits + 2 => SubtreeOK(node)}
<1>1. 0 \in S
  <2>1. ASSUME NEW node \in DOMAIN nodes PROVE ~(Len(node) + 0 >= AddressBits + 2)
    BY NodesAre
  <2> QED
    BY <2>1
<1>2. ASSUME NEW k \in S PROVE k + 1 \in S
  <2>0. k \in Nat /\ k + 1 \in Nat /\ \A node \in DOMAIN nodes : Len(node) + k >= AddressBits + 2 => SubtreeOK(node)
    OBVIOUS
  <2>1. ASSUME NEW node \in DOMAIN nodes, Len(node) + (k + 1) >= AddressBits + 2
        PROVE  SubtreeOK(node)
    <3>1. ASSUME NEW bit \in Bits PROVE SideOK(node, bit)
      <4>1. ASSUME Append(node, bit) \in DOMAIN nodes PROVE SubtreeOK(Append(node, bit))
        <5>1. Len(Append(node, bit)) = Len(node) + 1 /\ Len(node) \in Nat
          BY NodesAre
        <5>2. Len(Append(node, bit)) + k >= AddressBits + 2
          BY <2>0, <2>1, <5>1
        <5> QED
          BY <2>0, <4>1, <5>2
      <4> QED
        BY <4>1, SidesCounted
    <3>2. SideOK(node, 0) /\ SideOK(node, 1)
      BY <3>1 DEF Bits
    <3>3. PICK below \in Seq(Data) :
            /\ Collected[node] = nodes[node] \o below
            /\ \A V : Count(below, V) = Cardinality(With(Under(Append(node, 0)) \cup Under(Append(node, 1)), V))
      BY <3>2, BelowCounted
    <3>4. nodes[node] \in Seq(Data)
      BY NodesAre
    <3>5. ASSUME NEW V PROVE Count(Collected[node], V) = Cardinality(With(Under(node), V))
      <4> DEFINE here == HungAt(hung, node)
                 under == Under(Append(node, 0)) \cup Under(Append(node, 1))
      <4>1. Count(Collected[node], V) = Count(nodes[node], V) + Count(below, V)
        BY <3>3, <3>4, CountJoin
      <4>2. Count(nodes[node], V) = Cardinality(With(here, V))
        BY HereCounted
      <4>3. Count(below, V) = Cardinality(With(under, V))
        BY <3>3
      <4>4. here \in SUBSET (DOMAIN hung) /\ under \in SUBSET (DOMAIN hung)
        BY DEF HungAt, Under
      <4>5. here \cap under = {} /\ Under(node) = here \cup under
        BY UnderSplit
      <4> HIDE DEF here, under
      <4> QED
        BY <4>1, <4>2, <4>3, <4>4, <4>5, WithJoined
    <3>6. Collected[node] \in Seq(Data)
      BY <3>3, <3>4
    <3> QED
      BY <3>5, <3>6 DEF SubtreeOK
  <2> QED
    BY <2>0, <2>1
<1>3. S \in SUBSET Nat
  OBVIOUS
<1>4. AddressBits + 1 \in S /\ AddressBits \in Nat
  <2>1. AddressBits + 1 \in Nat /\ AddressBits \in Nat
    BY PrefixAssumption
  <2> HIDE DEF S
  <2> QED
    BY <1>1, <1>2, <1>3, <2>1, SetInduction
<1>5. ASSUME NEW node \in DOMAIN nodes PROVE SubtreeOK(node)
  <2>1. Len(node) \in 1 .. AddressBits + 1
    BY NodesAre
  <2>2. Len(node) + (AddressBits + 1) >= AddressBits + 2
    BY <1>4, <2>1
  <2> QED
    BY <1>4, <2>2
<1> QED
  BY <1>5

LEMMA TailOf ==
  ASSUME NEW A, NEW u \in Seq(A), NEW w \in Seq(A)
  PROVE  SubSeq(u \o w, Len(u) + 1, Len(u \o w)) = w
<1> DEFINE a == Len(u)
           b == Len(w)
           v == u \o w
           t == SubSeq(v, a + 1, a + b)
<1>1. a \in Nat /\ b \in Nat
  OBVIOUS
<1>2. v \in Seq(A) /\ Len(v) = a + b /\ \A i \in 1 .. a + b : v[i] = IF i <= a THEN u[i] ELSE w[i - a]
  BY JoinIs
<1> HIDE DEF v, a, b
<1>3. t \in Seq(A) /\ Len(t) = b /\ \A i \in 1 .. b : t[i] = v[a + i]
  <2>1. a + 1 \in 1 .. Len(v) + 1 /\ a + b \in (a + 1) - 1 .. Len(v)
    BY <1>1, <1>2
  <2>2. t \in Seq(A) /\ Len(t) = (a + b) - (a + 1) + 1
        /\ \A i \in 1 .. (a + b) - (a + 1) + 1 : t[i] = v[(a + 1) + i - 1]
    BY <1>2, <2>1, SubSeqProperties
  <2> HIDE DEF t
  <2>3. (a + b) - (a + 1) + 1 = b /\ \A i \in 1 .. b : (a + 1) + i - 1 = a + i
    BY <1>1
  <2> QED
    BY <2>2, <2>3
<1> HIDE DEF t
<1>4. ASSUME NEW i \in 1 .. b PROVE t[i] = w[i]
  <2>1. a + i \in 1 .. a + b /\ ~(a + i <= a) /\ (a + i) - a = i
    BY <1>1
  <2> QED
    BY <1>2, <1>3, <2>1
<1>5. t = w
  BY <1>3, <1>4, SameSeq DEF b
<1> QED
  BY <1>2, <1>5 DEF t, v, a

(* What hangs strictly inside a prefix, by the paths and by the addresses. *)
Inside(net) == {i \in DOMAIN hung : StrictlyIn(NetAt(hung, i), net)}

LEMMA UnderIs ==
  ASSUME TreeInv, NEW net \in Spelt, Canonical(net)
  PROVE  /\ Under(Path(net)) = {i \in DOMAIN hung : SubnetOf(NetAt(hung, i), net)}
         /\ HungAt(hung, Path(net)) = {i \in DOMAIN hung : NetAt(hung, i) = net}
         /\ Path(net) \notin DOMAIN nodes => Under(Path(net)) = {}
<1> DEFINE path == Path(net)
<1>1. hung \in Seq(Hangings)
  BY DEF TreeInv, TreeShape
<1>2. net.len \in 0 .. AddressBits /\ AddressBits \in Nat /\ path \in Seq(Turns) /\ Len(path) = net.len + 1
  BY PathIs
<1>3. ASSUME NEW i \in DOMAIN hung
      PROVE  /\ i \in Under(path) <=> SubnetOf(NetAt(hung, i), net)
             /\ i \in Under(path) => SubSeq(Path(NetAt(hung, i)), 1, net.len + 1) = path /\ net.len + 1 <= Len(Path(NetAt(hung, i)))
             /\ i \in HungAt(hung, path) <=> NetAt(hung, i) = net
  <2> DEFINE o == NetAt(hung, i)
             p == Path(o)
             s == SubSeq(p, 1, net.len + 1)
  <2>1. o \in Spelt /\ Canonical(o)
    BY <1>1, NetsHung
  <2>2. o.len \in 0 .. AddressBits /\ p \in Seq(Turns) /\ Len(p) = o.len + 1
    BY <2>1, PathIs
  <2>3. i \in Under(path) <=> Len(path) <= Len(p) /\ \A j \in 1 .. Len(path) : p[j] = path[j]
    BY DEF Under
  <2>4. ASSUME net.len \in 0 .. o.len
        PROVE  /\ s \in Seq(Turns) /\ Len(s) = net.len + 1 /\ \A j \in 1 .. net.len + 1 : s[j] = p[j]
               /\ s = Path(Wider(o, net.len)) /\ Wider(o, net.len) \in Spelt /\ Canonical(Wider(o, net.len))
               /\ SubnetOf(o, Wider(o, net.len))
    <3>1. s = Path(Wider(o, net.len)) /\ Wider(o, net.len) \in Spelt /\ Canonical(Wider(o, net.len))
          /\ SubnetOf(o, Wider(o, net.len))
      BY <2>1, <2>4, PathWider, WiderFields, WiderContains
    <3> HIDE DEF p, o
    <3>2. net.len + 1 \in 1 .. Len(p)
      BY <1>2, <2>2, <2>4
    <3>3. s \in Seq(Turns) /\ Len(s) = net.len + 1 /\ \A j \in 1 .. net.len + 1 : s[j] = p[j]
      BY <2>2, <3>2
    <3> QED
      BY <3>1, <3>3
  <2> HIDE DEF path, p, s, o
  <2>5. i \in Under(path) => net.len \in 0 .. o.len /\ s = path
    <3> SUFFICES ASSUME i \in Under(path) PROVE net.len \in 0 .. o.len /\ s = path
      OBVIOUS
    <3>1. net.len \in 0 .. o.len
      BY <1>2, <2>2, <2>3
    <3>2. s \in Seq(Turns) /\ Len(s) = Len(path) /\ \A j \in 1 .. Len(s) : s[j] = path[j]
      BY <1>2, <2>3, <2>4, <3>1
    <3>3. s = path
      BY <1>2, <3>2, SameSeq
    <3> QED
      BY <3>1, <3>3
  <2>6. i \in Under(path) => SubnetOf(o, net)
    <3> SUFFICES ASSUME i \in Under(path) PROVE SubnetOf(o, net)
      OBVIOUS
    <3>1. Path(Wider(o, net.len)) = Path(net) /\ Wider(o, net.len) \in Spelt /\ Canonical(Wider(o, net.len))
          /\ SubnetOf(o, Wider(o, net.len))
      BY <2>4, <2>5 DEF path
    <3>2. Wider(o, net.len) = net
      BY <3>1, PathSame
    <3> QED
      BY <3>1, <3>2
  <2>7. SubnetOf(o, net) => i \in Under(path)
    <3> SUFFICES ASSUME SubnetOf(o, net) PROVE i \in Under(path)
      OBVIOUS
    <3>1. net.len \in 0 .. o.len /\ net = Wider(o, net.len)
      BY <2>1, ContainsWider
    <3>2. s = path /\ \A j \in 1 .. net.len + 1 : s[j] = p[j]
      BY <2>4, <3>1 DEF path
    <3> QED
      BY <1>2, <2>2, <2>3, <3>1, <3>2
  <2>8. i \in HungAt(hung, path) <=> o = net
    <3>1. i \in HungAt(hung, path) <=> p = path
      BY DEF HungAt, o, p
    <3>2. p = path => o = net
      BY <2>1, PathSame DEF p, path
    <3> QED
      BY <3>1, <3>2 DEF p, path
  <2> QED
    BY <1>2, <2>2, <2>3, <2>5, <2>6, <2>7, <2>8 DEF s, p, o
<1>4. ASSUME path \notin DOMAIN nodes, NEW i \in Under(path) PROVE FALSE
  <2>1. i \in DOMAIN hung
    BY DEF Under
  <2>2. SubSeq(Path(NetAt(hung, i)), 1, net.len + 1) = path /\ net.len + 1 <= Len(Path(NetAt(hung, i)))
    BY <1>3, <1>4, <2>1
  <2>3. net.len + 1 \in 1 .. AddressBits + 1
    BY <1>2
  <2>4. SubSeq(Path(NetAt(hung, i)), 1, net.len + 1) \in DOMAIN nodes
    BY <2>1, <2>2, <2>3 DEF TreeInv, TreeShape
  <2> QED
    BY <1>4, <2>2, <2>4
<1>5. Under(path) \subseteq DOMAIN hung /\ HungAt(hung, path) \subseteq DOMAIN hung
  BY DEF Under, HungAt
<1> HIDE DEF path
<1>6. Under(path) = {i \in DOMAIN hung : SubnetOf(NetAt(hung, i), net)}
  BY <1>3, <1>5
<1>7. HungAt(hung, path) = {i \in DOMAIN hung : NetAt(hung, i) = net}
  BY <1>3, <1>5
<1> QED
  BY <1>4, <1>6, <1>7 DEF path

LEMMA MoreSpecificIs ==
  ASSUME TreeInv, NEW query \in Spelt
  PROVE  /\ MoreSpecific(query) \in Seq(Data)
         /\ \A V : Count(MoreSpecific(query), V) = Cardinality(With(Inside(Network(query)), V))
<1> DEFINE net == Network(query)
           path == Path(net)
<1>1. net \in Spelt /\ Canonical(net)
  BY NetworkFields
<1>2. /\ Under(path) = {i \in DOMAIN hung : SubnetOf(NetAt(hung, i), net)}
      /\ HungAt(hung, path) = {i \in DOMAIN hung : NetAt(hung, i) = net}
      /\ path \notin DOMAIN nodes => Under(path) = {}
  BY <1>1, UnderIs
<1>3. MoreSpecific(query) = IF path \notin DOMAIN nodes THEN <<>>
                            ELSE SubSeq(Collected[path], Len(nodes[path]) + 1, Len(Collected[path]))
  BY DEF MoreSpecific
<1> HIDE DEF path, net
<1>4. CASE path \notin DOMAIN nodes
  <2>1. Inside(net) = {}
    BY <1>2, <1>4 DEF Inside, StrictlyIn
  <2>2. ASSUME NEW V PROVE Count(<<>>, V) = Cardinality(With({}, V))
    <3>1. With({}, V) = {}
      BY DEF With
    <3> QED
      BY <3>1, CountNone, FS_EmptySet
  <2>3. <<>> \in Seq(Data)
    OBVIOUS
  <2> QED
    BY <1>3, <1>4, <2>1, <2>2, <2>3 DEF net
<1>5. CASE path \in DOMAIN nodes
  <2>1. SideOK(path, 0) /\ SideOK(path, 1)
    <3>1. 0 \in Bits /\ 1 \in Bits
      BY DEF Bits
    <3> QED
      BY <1>5, <3>1, SubtreeCounted, SidesCounted
  <2>2. PICK below \in Seq(Data) :
          /\ Collected[path] = nodes[path] \o below
          /\ \A V : Count(below, V) = Cardinality(With(Under(Append(path, 0)) \cup Under(Append(path, 1)), V))
    BY <1>5, <2>1, BelowCounted
  <2>3. nodes[path] \in Seq(Data)
    BY <1>5, NodesAre
  <2>4. MoreSpecific(query) = below
    BY <1>3, <1>5, <2>2, <2>3, TailOf
  <2>5. Under(Append(path, 0)) \cup Under(Append(path, 1)) = Inside(net)
    <3>1. /\ Under(path) = HungAt(hung, path) \cup (Under(Append(path, 0)) \cup Under(Append(path, 1)))
          /\ HungAt(hung, path) \cap (Under(Append(path, 0)) \cup Under(Append(path, 1))) = {}
      BY <1>5, UnderSplit
    <3>2. Inside(net) = Under(path) \ HungAt(hung, path)
      BY <1>2 DEF Inside, StrictlyIn
    <3> QED
      BY <3>1, <3>2
  <2> QED
    BY <2>2, <2>4, <2>5 DEF net
<1> QED
  BY <1>4, <1>5

LEMMA CountOfIs ==
  ASSUME NEW list, NEW data
  PROVE  CountOf(list, data) = Count(list, {data})
<1>1. {i \in DOMAIN list : list[i] = data} = Among(list, {data})
  BY DEF Among
<1> QED
  BY <1>1 DEF CountOf, Count

LEMMA FaithfulFollows == TreeInv => TreeFaithful
<1> SUFFICES ASSUME TreeInv PROVE TreeFaithful
  OBVIOUS
<1>1. hung \in Seq(Hangings) /\ treeSize = Len(hung) /\ DOMAIN hung = 1 .. Len(hung)
  BY DEF TreeInv, TreeShape
<1>2. ASSUME NEW query \in Spelt
      PROVE  LET net == Network(query)
                 around(n) == EntriesAt(hung, {i \in DOMAIN hung :
                                hung[i].prefix.len = n /\ SubnetOf(net, Network(hung[i].prefix))})
                 inside == EntriesAt(hung, {i \in DOMAIN hung : StrictlyIn(Network(hung[i].prefix), net)})
             IN /\ Lookup(query) =
                     DataOf(FlattenSeq([n \in 1 .. AddressBits + 1 |-> around(n - 1)]))
                /\ Len(MoreSpecific(query)) = Len(inside)
                /\ \A data \in Data :
                     CountOf(MoreSpecific(query), data) = CountOf(DataOf(inside), data)
  <2> DEFINE net == Network(query)
             around(n) == EntriesAt(hung, {i \in DOMAIN hung :
                            hung[i].prefix.len = n /\ SubnetOf(net, Network(hung[i].prefix))})
             inside == EntriesAt(hung, {i \in DOMAIN hung : StrictlyIn(Network(hung[i].prefix), net)})
  <2>1. Lookup(query) = DataOf(FlattenSeq([n \in 1 .. AddressBits + 1 |-> around(n - 1)]))
    <3>1. Chosen(hung, Around(net), AddressBits + 1) = [n \in 1 .. AddressBits + 1 |-> around(n - 1)]
      <4>1. \A n \in 1 .. AddressBits + 1 : EntriesAt(hung, Around(net)[n]) = around(n - 1)
        BY DEF Around
      <4> HIDE DEF around
      <4> QED
        BY <4>1 DEF Chosen
    <3> HIDE DEF around
    <3> QED
      BY <3>1, LookupIs
  <2>2. inside = EntriesAt(hung, Inside(net)) /\ Inside(net) \in SUBSET (1 .. Len(hung))
    <3>1. Inside(net) = {i \in DOMAIN hung : StrictlyIn(Network(hung[i].prefix), net)}
      BY DEF Inside, NetAt
    <3> QED
      BY <1>1, <3>1
  <2> HIDE DEF inside
  <2>3. \A V : Count(DataOf(inside), V) = Count(MoreSpecific(query), V)
    <3> SUFFICES ASSUME NEW V PROVE Count(DataOf(inside), V) = Count(MoreSpecific(query), V)
      OBVIOUS
    <3>1. Count(DataOf(inside), V) = Cardinality({i \in Inside(net) : hung[i].data \in V})
      BY <1>1, <2>2, CountDataAt
    <3>2. Count(MoreSpecific(query), V) = Cardinality(With(Inside(net), V))
      BY MoreSpecificIs
    <3> QED
      BY <3>1, <3>2 DEF With
  <2>4. DataOf(inside) \in Seq(Data) /\ Len(DataOf(inside)) = Len(inside) /\ MoreSpecific(query) \in Seq(Data)
    BY <1>1, <2>2, CountDataAt, MoreSpecificIs
  <2>5. Len(MoreSpecific(query)) = Len(inside)
    <3>1. Count(DataOf(inside), Data) = Len(DataOf(inside)) /\ Count(MoreSpecific(query), Data) = Len(MoreSpecific(query))
      BY <2>4, CountAll
    <3> QED
      BY <2>3, <2>4, <3>1
  <2>6. \A data \in Data : CountOf(MoreSpecific(query), data) = CountOf(DataOf(inside), data)
    BY <2>3, CountOfIs
  <2> QED
    BY <2>1, <2>5, <2>6 DEF inside
<1> QED
  BY <1>1, <1>2 DEF TreeFaithful

(***************************************************************************)
(* The dictionary of a collection finds what the tree finds.               *)
(***************************************************************************)

(* Where a list has a prefix and its parents, the longest first; and where *)
(* it has a prefix without host bits around another.                       *)
ParentAt(list, net, n) == {i \in DOMAIN list : list[i].prefix = Wider(net, net.len + 1 - n)}
Parents(list, net) == [n \in 1 .. net.len + 1 |-> ParentAt(list, net, n)]
Holding(list, net) ==
  {i \in DOMAIN list : Canonical(list[i].prefix) /\ SubnetOf(net, list[i].prefix)}

LEMMA ParentsAre ==
  ASSUME NEW A, NEW list \in Seq(A), \A x \in A : x.prefix \in Spelt, NEW net \in Spelt, Canonical(net)
  PROVE  /\ net.len + 1 \in Nat
         /\ \A n \in 1 .. net.len + 1 : Parents(list, net)[n] \in SUBSET (1 .. Len(list))
         /\ \A n, k \in 1 .. net.len + 1 : n # k => Parents(list, net)[n] \cap Parents(list, net)[k] = {}
         /\ Placed(Parents(list, net), net.len + 1) = Holding(list, net)
<1> DEFINE last == net.len + 1
           P == Parents(list, net)
<1>0. DOMAIN list = 1 .. Len(list) /\ \A i \in DOMAIN list : list[i] \in A
  OBVIOUS
<1>1. net.len \in Nat /\ last \in Nat /\ last = net.len + 1
  <2>1. net.len \in 0 .. AddressBits /\ AddressBits \in Nat
    BY CanonicalFields
  <2> QED
    BY <2>1
<1>a. ASSUME NEW i \in DOMAIN list PROVE list[i].prefix \in Spelt
  <2>1. PICK x \in A : x = list[i]
    BY <1>0
  <2>2. x.prefix \in Spelt
    OBVIOUS
  <2> QED
    BY <2>1, <2>2
<1>2. \A n \in 1 .. last : P[n] = {i \in DOMAIN list : list[i].prefix = Wider(net, last - n)}
  <2>1. \A n \in 1 .. last : P[n] = ParentAt(list, net, n)
    BY DEF Parents
  <2> HIDE DEF P, last
  <2> QED
    BY <1>1, <2>1 DEF ParentAt
<1> HIDE DEF last, P
<1>3. ASSUME NEW m \in 0 .. net.len
      PROVE  /\ Wider(net, m) \in Spelt /\ Canonical(Wider(net, m)) /\ Wider(net, m).len = m
             /\ SubnetOf(net, Wider(net, m))
  BY WiderFields, WiderContains
<1>4. \A n \in 1 .. last : last - n \in 0 .. net.len
  BY <1>1
<1>5. ASSUME NEW n \in 1 .. last, NEW k \in 1 .. last, n # k PROVE P[n] \cap P[k] = {}
  <2>1. Wider(net, last - n).len = last - n /\ Wider(net, last - k).len = last - k
    BY <1>3, <1>4
  <2>2. last - n # last - k
    BY <1>1, <1>5
  <2> QED
    BY <1>2, <2>1, <2>2
<1>6. ASSUME NEW i PROVE i \in Placed(P, last) <=> i \in Holding(list, net)
  <2>1. i \in Placed(P, last) <=> \E n \in 1 .. last : i \in DOMAIN list /\ list[i].prefix = Wider(net, last - n)
    BY <1>2 DEF Placed
  <2>2. ASSUME NEW n \in 1 .. last, i \in DOMAIN list, list[i].prefix = Wider(net, last - n)
        PROVE  i \in Holding(list, net)
    BY <1>3, <1>4, <2>2 DEF Holding
  <2>3. ASSUME i \in Holding(list, net)
        PROVE  \E n \in 1 .. last : i \in DOMAIN list /\ list[i].prefix = Wider(net, last - n)
    <3>1. i \in DOMAIN list /\ list[i].prefix \in Spelt /\ Canonical(list[i].prefix) /\ SubnetOf(net, list[i].prefix)
      BY <1>a, <2>3 DEF Holding
    <3>2. PICK o : o = list[i].prefix
      OBVIOUS
    <3>3. o.len \in 0 .. net.len /\ o = Wider(net, o.len)
      BY <3>1, <3>2, ContainsWider
    <3>4. last - o.len \in 1 .. last /\ last - (last - o.len) = o.len
      BY <1>1, <3>3
    <3> QED
      BY <3>1, <3>2, <3>3, <3>4
  <2> QED
    BY <2>1, <2>2, <2>3
<1>7. \A n \in 1 .. last : P[n] \in SUBSET (1 .. Len(list))
  BY <1>0, <1>2
<1> QED
  BY <1>1, <1>5, <1>6, <1>7 DEF last, P

LEMMA FindCoveringIs ==
  ASSUME NEW list, NEW query
  PROVE  FindCovering(query, list) = FlattenSeq(Chosen(list, Parents(list, Network(query)), Network(query).len + 1))
<1> DEFINE net == Network(query)
           place(n) == {i \in DOMAIN list : list[i].prefix = Wider(net, net.len + 1 - n)}
<1>1. FindCovering(query, list) = FlattenSeq([n \in 1 .. net.len + 1 |-> EntriesAt(list, place(n))])
  BY DEF FindCovering, Wider
<1>2. \A n \in 1 .. net.len + 1 : Parents(list, net)[n] = place(n)
  <2>1. \A n \in 1 .. net.len + 1 : Parents(list, net)[n] = ParentAt(list, net, n)
    BY DEF Parents
  <2> QED
    BY <2>1 DEF ParentAt
<1> HIDE DEF net, place
<1>3. [n \in 1 .. net.len + 1 |-> EntriesAt(list, place(n))] = Chosen(list, Parents(list, net), net.len + 1)
  BY <1>2 DEF Chosen
<1> QED
  BY <1>1, <1>3 DEF net

LEMMA LookupCounts ==
  ASSUME TreeInv, NEW query \in Spelt, NEW V
  PROVE  Count(Lookup(query), V) =
           Cardinality({i \in DOMAIN hung : SubnetOf(Network(query), NetAt(hung, i)) /\ hung[i].data \in V})
<1> DEFINE net == Network(query)
           last == AddressBits + 1
           P == Around(net)
           W == {x \in Hangings : x.data \in V}
<1>1. net \in Spelt /\ Canonical(net) /\ net.len \in 0 .. AddressBits /\ AddressBits \in Nat /\ last \in Nat
  BY NetworkFields, CanonicalFields
<1>2. hung \in Seq(Hangings) /\ DOMAIN hung = 1 .. Len(hung)
  BY DEF TreeInv, TreeShape
<1>3. \A n \in 1 .. last : P[n] \in SUBSET (1 .. Len(hung))
  BY AroundPlaces
<1>4. \A n \in 1 .. last : P[n] = {i \in DOMAIN hung : hung[i].prefix.len = n - 1 /\ SubnetOf(net, NetAt(hung, i))}
  BY DEF Around, NetAt
<1>5. Lookup(query) = DataOf(FlattenSeq(Chosen(hung, P, last)))
  BY LookupIs
<1> HIDE DEF net, last, P
<1>6. \A n, k \in 1 .. last : n # k => P[n] \cap P[k] = {}
  <2> SUFFICES ASSUME NEW n \in 1 .. last, NEW k \in 1 .. last, n # k, NEW i \in P[n], i \in P[k] PROVE FALSE
    OBVIOUS
  <2>1. hung[i].prefix.len = n - 1 /\ hung[i].prefix.len = k - 1
    BY <1>4
  <2> QED
    BY <1>1, <2>1
<1>7. FlattenSeq(Chosen(hung, P, last)) \in Seq(Hangings)
  BY <1>1, <1>2, <1>3, ChosenValues
<1>8. Count(Lookup(query), V) = Count(FlattenSeq(Chosen(hung, P, last)), W)
  BY <1>5, <1>7, CountData
<1>9. Count(FlattenSeq(Chosen(hung, P, last)), W) = Cardinality({i \in Placed(P, last) : hung[i] \in W})
  BY <1>1, <1>2, <1>3, <1>6, FlatCount
<1>10. ASSUME NEW i
       PROVE  i \in Placed(P, last) /\ hung[i] \in W
                <=> i \in DOMAIN hung /\ SubnetOf(net, NetAt(hung, i)) /\ hung[i].data \in V
  <2>1. i \in Placed(P, last) <=>
          i \in DOMAIN hung /\ \E n \in 1 .. last : hung[i].prefix.len = n - 1 /\ SubnetOf(net, NetAt(hung, i))
    BY <1>4 DEF Placed
  <2>2. i \in DOMAIN hung => \E n \in 1 .. last : hung[i].prefix.len = n - 1
    <3> SUFFICES ASSUME i \in DOMAIN hung PROVE \E n \in 1 .. last : hung[i].prefix.len = n - 1
      OBVIOUS
    <3>1. NetAt(hung, i).len = hung[i].prefix.len /\ NetAt(hung, i) \in Spelt /\ Canonical(NetAt(hung, i))
      BY <1>2, NetsHung
    <3>2. hung[i].prefix.len \in 0 .. AddressBits
      BY <3>1, CanonicalFields
    <3>3. hung[i].prefix.len + 1 \in 1 .. last /\ (hung[i].prefix.len + 1) - 1 = hung[i].prefix.len
      BY <1>1, <3>2 DEF last
    <3> QED
      BY <3>3
  <2>3. i \in DOMAIN hung => hung[i] \in Hangings
    BY <1>2
  <2> QED
    BY <2>1, <2>2, <2>3
<1>11. {i \in Placed(P, last) : hung[i] \in W} =
         {i \in DOMAIN hung : SubnetOf(net, NetAt(hung, i)) /\ hung[i].data \in V}
  BY <1>10
<1> QED
  BY <1>8, <1>9, <1>11 DEF net

LEMMA CoveringFollows == TreeInv => CoveringAgrees
<1> SUFFICES ASSUME TreeInv, \A i \in DOMAIN hung : Canonical(hung[i].prefix), NEW query \in Spelt
             PROVE  /\ DataOf(FindCovering(query, hung)) = DataOf(FindCovering(Network(query), hung))
                    /\ \A data \in Data :
                         CountOf(DataOf(FindCovering(query, hung)), data) = CountOf(Lookup(query), data)
  BY FaithfulFollows DEF CoveringAgrees
<1> DEFINE net == Network(query)
           last == net.len + 1
           P == Parents(hung, net)
<1>1. net \in Spelt /\ Canonical(net) /\ Network(net) = net
  BY NetworkFields DEF Canonical
<1>2. hung \in Seq(Hangings) /\ DOMAIN hung = 1 .. Len(hung) /\ \A x \in Hangings : x.prefix \in Spelt
  BY DEF TreeInv, TreeShape, Hangings
<1>3. FindCovering(query, hung) = FindCovering(net, hung) /\ FindCovering(query, hung) = FlattenSeq(Chosen(hung, P, last))
  BY <1>1, FindCoveringIs
<1>4. /\ last \in Nat /\ \A n \in 1 .. last : P[n] \in SUBSET (1 .. Len(hung))
      /\ \A n, k \in 1 .. last : n # k => P[n] \cap P[k] = {}
      /\ Placed(P, last) = Holding(hung, net)
  BY <1>1, <1>2, ParentsAre
<1> HIDE DEF net, last, P
<1>5. FlattenSeq(Chosen(hung, P, last)) \in Seq(Hangings)
  BY <1>2, <1>4, ChosenValues
<1>6. ASSUME NEW data \in Data
      PROVE CountOf(DataOf(FindCovering(query, hung)), data) = CountOf(Lookup(query), data)
  <2> DEFINE V == {data}
             W == {x \in Hangings : x.data \in V}
  <2>1. Count(DataOf(FindCovering(query, hung)), V) = Count(FlattenSeq(Chosen(hung, P, last)), W)
    BY <1>3, <1>5, CountData
  <2>2. Count(FlattenSeq(Chosen(hung, P, last)), W) = Cardinality({i \in Placed(P, last) : hung[i] \in W})
    BY <1>2, <1>4, FlatCount
  <2>3. ASSUME NEW i
        PROVE  i \in Holding(hung, net) /\ hung[i] \in W
                 <=> i \in DOMAIN hung /\ SubnetOf(net, NetAt(hung, i)) /\ hung[i].data \in V
    <3>1. i \in DOMAIN hung => hung[i] \in Hangings /\ Canonical(hung[i].prefix) /\ NetAt(hung, i) = hung[i].prefix
      BY <1>2 DEF NetAt, Canonical
    <3> QED
      BY <3>1 DEF Holding
  <2>4. {i \in Placed(P, last) : hung[i] \in W} =
          {i \in DOMAIN hung : SubnetOf(net, NetAt(hung, i)) /\ hung[i].data \in V}
    BY <1>4, <2>3
  <2>5. Count(Lookup(query), V) =
          Cardinality({i \in DOMAIN hung : SubnetOf(net, NetAt(hung, i)) /\ hung[i].data \in V})
    BY LookupCounts DEF net
  <2> HIDE DEF W
  <2>6. Count(DataOf(FindCovering(query, hung)), V) = Count(Lookup(query), V)
    BY <2>1, <2>2, <2>4, <2>5
  <2> QED
    BY <2>6, CountOfIs
<1> QED
  BY <1>3, <1>6 DEF net

(***************************************************************************)
(* A batch of announcements: BatchInv.                                     *)
(***************************************************************************)

(* A batch of announcements, and which is kept after so many of them.      *)
Heard == [origin : Origins, timestamp : Stamps \cup {NoTime}]
BatchInv == batch \in Seq(Heard)

(* The step of the loop: the place kept so far and the next announcement.  *)
(* Best: of those with a timestamp none is newer, and none as new is first. *)
KeptOf(origin, k, n) ==
  IF batch[n].origin = origin /\ (k # 0 => Supersedes(batch[k], batch[n])) THEN n ELSE k

Newest(origin, k, n) ==
  \A i \in 1 .. n :
    batch[i].origin = origin /\ batch[i].timestamp # NoTime =>
      /\ k # 0 /\ batch[k].timestamp # NoTime /\ batch[i].timestamp <= batch[k].timestamp
      /\ batch[i].timestamp = batch[k].timestamp => k <= i
Best(origin, k, n) ==
  k \in 0 .. n /\ (k # 0 => batch[k].origin = origin) /\ Newest(origin, k, n)

LEMMA BestStays ==
  ASSUME BatchInv, NEW origin, NEW n \in Nat, n + 1 <= Len(batch), NEW k, Best(origin, k, n)
  PROVE  Best(origin, KeptOf(origin, k, n + 1), n + 1)
<1> DEFINE m == n + 1
           kept == KeptOf(origin, k, m)
           T(i) == batch[i].origin = origin /\ batch[i].timestamp # NoTime
<1> SUFFICES Best(origin, kept, m)
  OBVIOUS
<1>1. Len(batch) \in Nat /\ m \in 1 .. Len(batch) /\ \A i \in 1 .. m : i \in 1 .. Len(batch)
  BY DEF BatchInv
<1>2. ASSUME NEW i \in 1 .. Len(batch) PROVE batch[i].timestamp = NoTime \/ batch[i].timestamp \in Nat
  <2>1. batch[i] \in Heard
    BY DEF BatchInv
  <2>2. batch[i].timestamp \in Stamps \cup {NoTime}
    BY <2>1 DEF Heard
  <2> QED
    BY <2>2, SourcesAssumption
<1>3. k \in 0 .. n /\ (k # 0 => batch[k].origin = origin)
  BY DEF Best
<1>4. \A i \in 1 .. n : T(i) => /\ k # 0 /\ batch[k].timestamp # NoTime /\ batch[i].timestamp <= batch[k].timestamp
                                /\ batch[i].timestamp = batch[k].timestamp => k <= i
  BY DEF Best, Newest
<1>5. \A i \in 1 .. m : i \in 1 .. n \/ i = m
  OBVIOUS
<1>6. k \in 0 .. m /\ m \in 0 .. m /\ m # 0 /\ m \in Nat /\ k \in Nat /\ k <= m
  BY <1>3
<1>8. \A i \in 1 .. m : T(i) => batch[i].timestamp \in Nat
  BY <1>1, <1>2
<1> HIDE DEF m, kept
<1>9. CASE ~(batch[m].origin = origin /\ (k # 0 => Supersedes(batch[k], batch[m])))
  <2>1. kept = k
    BY <1>9 DEF KeptOf, kept
  <2>2. CASE batch[m].origin # origin
    <3>1. \A i \in 1 .. m : T(i) => /\ k # 0 /\ batch[k].timestamp # NoTime /\ batch[i].timestamp <= batch[k].timestamp
                                    /\ batch[i].timestamp = batch[k].timestamp => k <= i
      BY <1>4, <1>5, <2>2
    <3>2. Newest(origin, k, m)
      BY <3>1 DEF Newest
    <3> QED
      BY <1>3, <1>6, <2>1, <3>2 DEF Best
  <2>3. CASE batch[m].origin = origin
    <3>1. k # 0 /\ batch[k].timestamp # NoTime /\ (batch[m].timestamp = NoTime \/ ~(batch[m].timestamp > batch[k].timestamp))
      BY <1>9, <2>3 DEF Supersedes
    <3>2. k \in 1 .. m /\ T(k)
      BY <1>3, <1>6, <3>1
    <3>3. batch[k].timestamp \in Nat
      BY <1>8, <3>2
    <3>4. T(m) => batch[m].timestamp <= batch[k].timestamp
      <4>1. T(m) => batch[m].timestamp \in Nat
        BY <1>1, <1>2
      <4> QED
        BY <3>1, <3>3, <4>1
    <3>5. \A i \in 1 .. m : T(i) => /\ k # 0 /\ batch[k].timestamp # NoTime /\ batch[i].timestamp <= batch[k].timestamp
                                    /\ batch[i].timestamp = batch[k].timestamp => k <= i
      <4> HIDE DEF T
      <4> QED
        BY <1>4, <1>5, <1>6, <3>1, <3>4
    <3>6. Newest(origin, k, m)
      BY <3>5 DEF Newest
    <3> QED
      BY <1>3, <1>6, <2>1, <3>6 DEF Best
  <2> QED
    BY <2>2, <2>3
<1>10. CASE batch[m].origin = origin /\ (k # 0 => Supersedes(batch[k], batch[m]))
  <2>1. kept = m
    BY <1>10 DEF KeptOf, kept
  <2>2. ASSUME NEW i \in 1 .. n, T(i)
        PROVE  batch[m].timestamp # NoTime /\ batch[i].timestamp < batch[m].timestamp
    <3>1. k # 0 /\ batch[k].timestamp # NoTime /\ batch[i].timestamp <= batch[k].timestamp
      BY <1>4, <2>2
    <3>2. batch[m].timestamp # NoTime /\ batch[m].timestamp > batch[k].timestamp
      BY <1>10, <3>1 DEF Supersedes
    <3>3. k \in 1 .. m /\ T(k) /\ i \in 1 .. m /\ T(i) /\ m \in 1 .. m /\ T(m)
      <4>1. i \in 1 .. m
        BY DEF m
      <4> QED
        BY <1>3, <1>6, <1>10, <2>2, <3>1, <3>2, <4>1
    <3>4. batch[k].timestamp \in Nat /\ batch[i].timestamp \in Nat /\ batch[m].timestamp \in Nat
      <4> HIDE DEF T
      <4> QED
        BY <1>8, <3>3
    <3> QED
      BY <3>1, <3>2, <3>4
  <2>3. ASSUME NEW i \in 1 .. m, T(i)
        PROVE  /\ m # 0 /\ batch[m].timestamp # NoTime /\ batch[i].timestamp <= batch[m].timestamp
               /\ batch[i].timestamp = batch[m].timestamp => m <= i
    <3>1. CASE i = m
      <4>1. batch[m].timestamp \in Nat
        BY <1>8, <2>3, <3>1
      <4> QED
        BY <1>6, <2>3, <3>1, <4>1
    <3>2. CASE i # m
      <4>1. i \in 1 .. n
        BY <1>5, <3>2
      <4>2. batch[m].timestamp # NoTime /\ batch[i].timestamp < batch[m].timestamp
        BY <2>2, <2>3, <4>1
      <4>3. batch[i].timestamp \in Nat /\ batch[m].timestamp \in Nat
        <5>1. m \in 1 .. m /\ T(m)
          BY <1>6, <1>10, <4>2
        <5> HIDE DEF T
        <5> QED
          BY <1>8, <2>3, <5>1
      <4> QED
        BY <1>6, <4>2, <4>3
    <3> QED
      BY <3>1, <3>2
  <2>4. Newest(origin, m, m)
    BY <2>3 DEF Newest
  <2> QED
    BY <1>6, <1>10, <2>1, <2>4 DEF Best
<1> QED
  BY <1>9, <1>10

LEMMA SeenBest ==
  ASSUME BatchInv, NEW origin
  PROVE  Best(origin, Seen(origin), Len(batch))
<1> DEFINE last == Len(batch)
           Body(f) == [n \in 0 .. last |->
                         IF n = 0 THEN 0
                         ELSE IF /\ batch[n].origin = origin
                                 /\ f[n - 1] # 0 => Supersedes(batch[f[n - 1]], batch[n])
                              THEN n ELSE f[n - 1]]
           f == CHOOSE g : g = Body(g)
           step == [n \in Nat |-> [k \in Nat |-> IF n < last THEN KeptOf(origin, k, n + 1) ELSE k]]
<1>1. last \in Nat
  BY DEF BatchInv
<1>2. step \in [Nat -> [Nat -> Nat]]
  <2>1. ASSUME NEW n \in Nat, NEW k \in Nat
        PROVE  (IF n < last THEN KeptOf(origin, k, n + 1) ELSE k) \in Nat
    <3>1. n + 1 \in Nat
      OBVIOUS
    <3> QED
      BY <3>1 DEF KeptOf
  <2> QED
    BY <2>1
<1>3. PICK g : Follows(g, Nat, 0, step)
  <2> HIDE DEF step
  <2> QED
    BY <1>2, RecursionExists
<1> DEFINE h == [n \in 0 .. last |-> g[n]]
<1>4. h = Body(h)
  <2>1. ASSUME NEW n \in 0 .. last
        PROVE g[n] = IF n = 0 THEN 0
                     ELSE IF /\ batch[n].origin = origin
                             /\ h[n - 1] # 0 => Supersedes(batch[h[n - 1]], batch[n])
                          THEN n ELSE h[n - 1]
    <3>1. CASE n = 0
      BY <1>3, <3>1 DEF Follows
    <3>2. CASE n # 0
      <4>1. n - 1 \in Nat /\ n - 1 < last /\ (n - 1) + 1 = n /\ n - 1 \in 0 .. last
        BY <1>1, <3>2
      <4>2. g[n] = step[n - 1][g[n - 1]] /\ g[n - 1] \in Nat
        BY <1>3, <4>1 DEF Follows
      <4>3. g[n] = KeptOf(origin, g[n - 1], n)
        BY <4>1, <4>2
      <4>4. h[n - 1] = g[n - 1]
        BY <4>1
      <4> HIDE DEF h
      <4> QED
        BY <3>2, <4>3, <4>4 DEF KeptOf
    <3> QED
      BY <3>1, <3>2
  <2> QED
    BY <2>1
<1> HIDE DEF h
<1>5. f = Body(f)
  BY <1>4
<1>6. Seen(origin) = f[last]
  BY DEF Seen
<1> HIDE DEF f, step
<1>7. f[0] = 0 /\ \A n \in 1 .. last : f[n] = KeptOf(origin, f[n - 1], n)
  BY <1>1, <1>5 DEF KeptOf
<1> DEFINE P == {n \in Nat : n <= last => Best(origin, f[n], n)}
<1>8. 0 \in P
  <2>1. Best(origin, 0, 0)
    BY DEF Best, Newest
  <2> QED
    BY <1>7, <2>1
<1>9. ASSUME NEW n \in P PROVE n + 1 \in P
  <2> SUFFICES ASSUME n + 1 <= last PROVE Best(origin, f[n + 1], n + 1)
    OBVIOUS
  <2>1. n + 1 \in 1 .. last /\ n \in Nat /\ (n + 1) - 1 = n /\ n <= last
    BY <1>1
  <2>2. Best(origin, f[n], n) /\ f[n + 1] = KeptOf(origin, f[n], n + 1)
    BY <1>7, <2>1
  <2> QED
    BY <2>1, <2>2, BestStays
<1>10. P \in SUBSET Nat
  OBVIOUS
<1> HIDE DEF P
<1>11. last \in P
  BY <1>1, <1>8, <1>9, <1>10, SetInduction
<1> QED
  BY <1>1, <1>6, <1>11 DEF P

LEMMA NewestFollows == BatchInv => NewestKept
<1> SUFFICES ASSUME BatchInv, NEW origin PROVE
      LET kept == Seen(origin)
          timed == {i \in DOMAIN batch : batch[i].origin = origin /\ batch[i].timestamp # NoTime} IN
      timed # {} =>
        /\ kept \in timed
        /\ \A i \in timed : batch[i].timestamp <= batch[kept].timestamp
        /\ \A i \in timed : batch[i].timestamp = batch[kept].timestamp => kept <= i
  BY DEF NewestKept
<1> DEFINE kept == Seen(origin)
           timed == {i \in DOMAIN batch : batch[i].origin = origin /\ batch[i].timestamp # NoTime}
<1>1. Best(origin, kept, Len(batch))
  BY SeenBest
<1>2. DOMAIN batch = 1 .. Len(batch) /\ Len(batch) \in Nat
  BY DEF BatchInv
<1> HIDE DEF kept
<1>3. ASSUME NEW i \in timed
      PROVE  /\ kept \in timed /\ batch[i].timestamp <= batch[kept].timestamp
             /\ batch[i].timestamp = batch[kept].timestamp => kept <= i
  <2>1. i \in 1 .. Len(batch) /\ batch[i].origin = origin /\ batch[i].timestamp # NoTime
    BY <1>2
  <2>2. /\ kept \in 0 .. Len(batch) /\ (kept # 0 => batch[kept].origin = origin)
        /\ kept # 0 /\ batch[kept].timestamp # NoTime /\ batch[i].timestamp <= batch[kept].timestamp
        /\ batch[i].timestamp = batch[kept].timestamp => kept <= i
    BY <1>1, <2>1 DEF Best, Newest
  <2>3. kept \in DOMAIN batch
    BY <1>2, <2>2
  <2> QED
    BY <2>2, <2>3
<1> HIDE DEF timed
<1> QED
  BY <1>3 DEF kept, timed

LEMMA BatchInitInv == StorageInit => BatchInv
  BY DEF StorageInit, BatchInv

LEMMA BatchNextInv == BatchInv /\ [StorageNext]_storageVars => BatchInv'
<1>1. ASSUME BatchInv, StorageNext PROVE BatchInv'
  <2>1. PICK origin \in Origins, timestamp \in Stamps \cup {NoTime} :
          batch' = Append(batch, [origin |-> origin, timestamp |-> timestamp])
    BY <1>1 DEF StorageNext, Receive
  <2>2. [origin |-> origin, timestamp |-> timestamp] \in Heard
    BY DEF Heard
  <2> QED
    BY <1>1, <2>1, <2>2 DEF BatchInv
<1> QED
  BY <1>1 DEF storageVars, BatchInv

(* Repositories: what the reports on their health look at.                 *)
RepositoryRows ==
  [tal : Nat, protocol : {"rrdp"}, sync : {"success", "pending", "failed"}, synced : Int]
HealthInv == tick \in Nat /\ repositories \in Seq(RepositoryRows)

LEMMA HealthFollows == HealthInv => HealthAgrees
<1> SUFFICES ASSUME HealthInv PROVE HealthAgrees
  OBVIOUS
<1>1. ASSUME NEW r \in DOMAIN repositories
      PROVE  /\ repositories[r].synced \in Int /\ repositories[r].sync \in {"success", "pending", "failed"}
             /\ tick - repositories[r].synced \in Int
             /\ ~(tick - repositories[r].synced > StaleAfter) <=> tick - repositories[r].synced <= StaleAfter
  <2>1. repositories[r] \in RepositoryRows
    BY DEF HealthInv
  <2>2. repositories[r].synced \in Int /\ repositories[r].sync \in {"success", "pending", "failed"}
    BY <2>1 DEF RepositoryRows
  <2> QED
    BY <2>2, CollectionAssumption DEF HealthInv
<1>2. ASSUME NEW r \in DOMAIN repositories
      PROVE  RepositoryHealthy(r) <=> /\ repositories[r].sync # "failed" /\ repositories[r].synced # Never
                                      /\ ~(tick - repositories[r].synced > StaleAfter)
  BY <1>1 DEF RepositoryHealthy
<1> QED
  BY <1>2 DEF HealthAgrees, OverallHealthy, SyncHealthy, StaleRepositories

(***************************************************************************)
(* What a collection stores: the rows.                                     *)
(***************************************************************************)

(* A ROA as a collection stores it.                                        *)
RoaRows == [prefix : Spelt, origin : Nat, max : Nat, tal : Nat, object : Nat]

LEMMA CanonicalRoasAre ==
  ASSUME NEW roas \in Seq(RoaRows)
  PROVE  /\ CanonicalRoas(roas) \in Seq(RoaRows)
         /\ \A x : (\E j \in DOMAIN CanonicalRoas(roas) : CanonicalRoas(roas)[j] = x) <=>
                     \E i \in DOMAIN roas : Canonical(roas[i].prefix) /\ roas[i] = x
<1> DEFINE P == {i \in DOMAIN roas : Canonical(roas[i].prefix)}
           e == EntriesAt(roas, P)
<1>1. P \in SUBSET (1 .. Len(roas))
  OBVIOUS
<1>2. CanonicalRoas(roas) = e
  BY DEF CanonicalRoas
<1> HIDE DEF P
<1>3. e \in Seq(RoaRows) /\ \A x : (\E j \in 1 .. Len(e) : e[j] = x) <=> \E i \in P : roas[i] = x
  BY <1>1, EntriesType
<1> HIDE DEF e
<1>4. DOMAIN e = 1 .. Len(e)
  BY <1>3
<1>5. \A x : (\E i \in P : roas[i] = x) <=> \E i \in DOMAIN roas : Canonical(roas[i].prefix) /\ roas[i] = x
  BY DEF P
<1> QED
  BY <1>2, <1>3, <1>4, <1>5

LEMMA CoveringRoas ==
  ASSUME NEW roas \in Seq(RoaRows), NEW prefix \in Spelt
  PROVE  /\ FindCovering(prefix, roas) \in Seq(RoaRows)
         /\ \A x : (\E j \in DOMAIN FindCovering(prefix, roas) : FindCovering(prefix, roas)[j] = x) <=>
                     \E i \in Holding(roas, Network(prefix)) : roas[i] = x
<1> DEFINE net == Network(prefix)
           P == Parents(roas, net)
           last == net.len + 1
           s == FlattenSeq(Chosen(roas, P, last))
<1>1. net \in Spelt /\ Canonical(net)
  BY NetworkFields
<1>2. \A x \in RoaRows : x.prefix \in Spelt
  BY DEF RoaRows
<1>3. /\ last \in Nat /\ \A n \in 1 .. last : P[n] \in SUBSET (1 .. Len(roas))
      /\ Placed(P, last) = Holding(roas, net)
  BY <1>1, <1>2, ParentsAre
<1>4. FindCovering(prefix, roas) = s
  BY FindCoveringIs
<1> HIDE DEF net, P, last
<1>5. s \in Seq(RoaRows) /\ \A x : x \in Values(s) <=> \E i \in Placed(P, last) : roas[i] = x
  BY <1>3, ChosenValues
<1> HIDE DEF s
<1>6. \A x : x \in Values(s) <=> \E j \in DOMAIN s : s[j] = x
  BY DEF Values
<1> QED
  BY <1>3, <1>4, <1>5, <1>6 DEF net

LEMMA JudgedStatus ==
  ASSUME NEW roas \in Seq(RoaRows), NEW route, route.prefix \in Spelt
  PROVE  /\ Judged(route, roas).prefix = route.prefix /\ Judged(route, roas).origin = route.origin
         /\ Judged(route, roas).status = ComputedStatus(route.prefix, route.origin, CanonicalRoas(roas))
<1> DEFINE net == Network(route.prefix)
           covering == FindCovering(route.prefix, roas)
           canon == CanonicalRoas(roas)
           around == Covering(route.prefix, canon)
           fits(x) == x.origin = route.origin /\ route.prefix.len <= MaxLength(x)
<1>1. /\ covering \in Seq(RoaRows)
      /\ \A x : (\E j \in DOMAIN covering : covering[j] = x) <=> \E i \in Holding(roas, net) : roas[i] = x
  BY CoveringRoas
<1>2. /\ canon \in Seq(RoaRows)
      /\ \A x : (\E j \in DOMAIN canon : canon[j] = x) <=>
                  \E i \in DOMAIN roas : Canonical(roas[i].prefix) /\ roas[i] = x
  BY CanonicalRoasAre
<1>3. \A j \in DOMAIN canon : j \in around <=> SubnetOf(net, Network(canon[j].prefix))
  BY DEF Covering
<1>4. around \subseteq DOMAIN canon
  BY DEF Covering
<1>5. /\ Judged(route, roas).prefix = route.prefix /\ Judged(route, roas).origin = route.origin
      /\ Judged(route, roas).status =
           CASE covering = <<>> -> "not_found" [] \E j \in DOMAIN covering : fits(covering[j]) -> "valid"
             [] OTHER -> "invalid"
  BY DEF Judged
<1>6. ComputedStatus(route.prefix, route.origin, canon) =
        CASE around = {} -> "not_found" [] \E j \in around : fits(canon[j]) -> "valid" [] OTHER -> "invalid"
  BY DEF ComputedStatus
<1> HIDE DEF net, covering, canon, around, fits
<1>7. ASSUME NEW j \in DOMAIN canon PROVE Network(canon[j].prefix) = canon[j].prefix
  <2>1. PICK i \in DOMAIN roas : Canonical(roas[i].prefix) /\ roas[i] = canon[j]
    BY <1>2
  <2> QED
    BY <2>1 DEF Canonical
<1>8. ASSUME NEW j \in DOMAIN covering PROVE \E k \in around : canon[k] = covering[j]
  <2>1. PICK i \in Holding(roas, net) : roas[i] = covering[j]
    BY <1>1
  <2>2. i \in DOMAIN roas /\ Canonical(roas[i].prefix) /\ SubnetOf(net, roas[i].prefix)
    BY DEF Holding
  <2>3. PICK k \in DOMAIN canon : canon[k] = roas[i]
    BY <1>2, <2>2
  <2> QED
    BY <1>3, <1>7, <2>1, <2>2, <2>3
<1>9. ASSUME NEW k \in around PROVE \E j \in DOMAIN covering : covering[j] = canon[k]
  <2>1. k \in DOMAIN canon /\ SubnetOf(net, canon[k].prefix)
    BY <1>3, <1>4, <1>7
  <2>2. PICK i \in DOMAIN roas : Canonical(roas[i].prefix) /\ roas[i] = canon[k]
    BY <1>2, <2>1
  <2>3. i \in Holding(roas, net)
    BY <2>1, <2>2 DEF Holding
  <2> QED
    BY <1>1, <2>2, <2>3
<1>10. covering = <<>> <=> around = {}
  <2>1. covering = <<>> <=> DOMAIN covering = {}
    BY <1>1
  <2> QED
    BY <1>8, <1>9, <2>1
<1>11. (\E j \in DOMAIN covering : fits(covering[j])) <=> \E j \in around : fits(canon[j])
  BY <1>8, <1>9
<1> QED
  BY <1>5, <1>6, <1>10, <1>11 DEF canon

(***************************************************************************)
(* Collections: CollectionInv.                                             *)
(***************************************************************************)

(* The collection of RPKI data: the tables, what the collection in         *)
(* progress found, which stays right until it commits, and what the last   *)
(* committed one stored.                                                   *)
TalRows == [name : ToSet(TalSources), status : {"active", "disabled"}, own : BOOLEAN]
ObjectRows == [repository : Nat, type : {"roa"}, own : BOOLEAN]
FoundRows == [tal : Nat, object : Nat, at : Nat]

RowsTyped ==
  /\ tick \in Nat /\ tals \in Seq(TalRows) /\ repositories \in Seq(RepositoryRows) /\ objects \in Seq(ObjectRows)
  /\ Len(repositories) = Len(tals)
  /\ \A r \in DOMAIN repositories : repositories[r].tal = r
  /\ \A o \in DOMAIN objects : objects[o].repository \in DOMAIN repositories

MetFor(name, row) ==
  /\ row \in FoundRows
  /\ row.tal = 0 => row.object = 0 /\ \A t \in DOMAIN tals : tals[t].own => tals[t].name # name
  /\ row.tal # 0 =>
       /\ row.tal \in DOMAIN tals /\ tals[row.tal].name = name
       /\ row.object = 0 => \A o \in DOMAIN objects : objects[o].own => objects[o].repository # row.tal
  /\ row.object # 0 =>
       row.tal # 0 /\ row.object \in DOMAIN objects /\ objects[row.object].repository = row.tal

FoundRight(found) ==
  DOMAIN found \subseteq ToSet(TalSources) /\ \A name \in DOMAIN found : MetFor(name, found[name])

FoundInv == collection # <<>> => FoundRight(collection[1])

StoredRight ==
  /\ collected.roas \in Seq(RoaRows)
  /\ \A i \in DOMAIN collected.roas :
       /\ collected.roas[i].tal \in DOMAIN tals /\ collected.roas[i].object \in DOMAIN objects
       /\ objects[collected.roas[i].object].repository = collected.roas[i].tal

CollectionInv == RowsTyped /\ NoOwnDuplicates /\ FoundInv /\ StoredRight /\ CollectionsWhole

(* The rows that a step leaves, with more after them, none of them a       *)
(* collection's own.                                                       *)
RowsKept ==
  /\ \A t \in DOMAIN tals : t \in DOMAIN tals' /\ tals'[t].name = tals[t].name
  /\ \A t \in DOMAIN tals' : tals'[t].own => t \in DOMAIN tals /\ tals[t].own
  /\ \A r \in DOMAIN repositories : r \in DOMAIN repositories'
  /\ \A o \in DOMAIN objects : o \in DOMAIN objects' /\ objects'[o].repository = objects[o].repository
  /\ \A o \in DOMAIN objects' : objects'[o].own => o \in DOMAIN objects /\ objects[o].own

LEMMA StoredTyped ==
  ASSUME RowsTyped, StoredRight, NEW i \in DOMAIN collected.roas
  PROVE  /\ collected.roas[i].tal \in DOMAIN tals /\ collected.roas[i].object \in DOMAIN objects
         /\ objects[collected.roas[i].object].repository = collected.roas[i].tal
         /\ collected.roas[i].tal \in DOMAIN repositories
         /\ repositories[collected.roas[i].tal].tal = collected.roas[i].tal
<1>1. /\ collected.roas[i].tal \in DOMAIN tals /\ collected.roas[i].object \in DOMAIN objects
      /\ objects[collected.roas[i].object].repository = collected.roas[i].tal
  BY DEF StoredRight
<1>2. \A o \in DOMAIN objects : objects[o].repository \in DOMAIN repositories
  BY DEF RowsTyped
<1>3. \A r \in DOMAIN repositories : repositories[r].tal = r
  BY DEF RowsTyped
<1> QED
  BY <1>1, <1>2, <1>3

LEMMA StoredStays ==
  ASSUME RowsTyped, StoredRight, CollectionsWhole, RowsTyped', UNCHANGED collected,
         \A t \in DOMAIN tals : t \in DOMAIN tals' /\ tals'[t].name = tals[t].name,
         \A o \in DOMAIN objects : o \in DOMAIN objects' /\ objects'[o].repository = objects[o].repository
  PROVE  StoredRight' /\ CollectionsWhole'
<1> DEFINE roas == collected.roas
           vrps == collected.vrps
<1>1. collected' = collected
  OBVIOUS
<1>2. ASSUME NEW i \in DOMAIN roas
      PROVE  /\ roas[i].tal \in DOMAIN tals' /\ roas[i].object \in DOMAIN objects'
             /\ objects'[roas[i].object].repository = roas[i].tal
             /\ tals'[roas[i].tal].name = tals[roas[i].tal].name
             /\ repositories'[objects'[roas[i].object].repository].tal = roas[i].tal
  <2>1. /\ roas[i].tal \in DOMAIN tals /\ roas[i].object \in DOMAIN objects
        /\ objects[roas[i].object].repository = roas[i].tal
    BY StoredTyped
  <2>2. /\ roas[i].tal \in DOMAIN tals' /\ roas[i].object \in DOMAIN objects'
        /\ objects'[roas[i].object].repository = roas[i].tal
        /\ tals'[roas[i].tal].name = tals[roas[i].tal].name
    BY <2>1
  <2>3. (\A o \in DOMAIN objects : objects[o].repository \in DOMAIN repositories)'
    BY DEF RowsTyped
  <2>4. (\A r \in DOMAIN repositories : repositories[r].tal = r)'
    BY DEF RowsTyped
  <2> QED
    BY <2>2, <2>3, <2>4
<1>3. StoredRight'
  BY <1>1, <1>2 DEF StoredRight
<1>4. /\ DOMAIN vrps = DOMAIN roas
      /\ \A i \in DOMAIN roas :
           /\ vrps[i].roa = i /\ vrps[i].prefix = roas[i].prefix
           /\ vrps[i].origin = roas[i].origin /\ vrps[i].max = roas[i].max
           /\ vrps[i].anchor = tals[roas[i].tal].name
  BY DEF CollectionsWhole
<1>5. \A i \in DOMAIN collected.announcements :
        collected.announcements[i].status =
          ComputedStatus(collected.announcements[i].prefix, collected.announcements[i].origin, CanonicalRoas(roas))
  BY DEF CollectionsWhole
<1>6. CollectionsWhole'
  <2>1. \A i \in DOMAIN roas : vrps[i].anchor = tals'[roas[i].tal].name
    BY <1>2, <1>4
  <2>2. \A i \in DOMAIN roas : repositories'[objects'[roas[i].object].repository].tal = roas[i].tal
    BY <1>2
  <2>3. CanonicalRoas(roas)' = CanonicalRoas(roas)
    BY <1>1 DEF CanonicalRoas
  <2> QED
    BY <1>1, <1>4, <1>5, <2>1, <2>2 DEF CollectionsWhole
<1> QED
  BY <1>3, <1>6

LEMMA MetStays ==
  ASSUME RowsKept, NEW name, NEW row, MetFor(name, row)
  PROVE  MetFor(name, row)'
<1>1. row \in FoundRows
  BY DEF MetFor
<1>2. row.tal = 0 => row.object = 0 /\ \A t \in DOMAIN tals' : tals'[t].own => tals'[t].name # name
  <2> SUFFICES ASSUME row.tal = 0, NEW t \in DOMAIN tals', tals'[t].own PROVE row.object = 0 /\ tals'[t].name # name
    BY DEF MetFor
  <2>1. t \in DOMAIN tals /\ tals[t].own /\ tals'[t].name = tals[t].name
    BY DEF RowsKept
  <2> QED
    BY <2>1 DEF MetFor
<1>3. row.tal # 0 => row.tal \in DOMAIN tals' /\ tals'[row.tal].name = name
  BY DEF MetFor, RowsKept
<1>4. row.tal # 0 /\ row.object = 0 => \A o \in DOMAIN objects' : objects'[o].own => objects'[o].repository # row.tal
  <2> SUFFICES ASSUME row.tal # 0, row.object = 0, NEW o \in DOMAIN objects', objects'[o].own
               PROVE  objects'[o].repository # row.tal
    OBVIOUS
  <2>1. o \in DOMAIN objects /\ objects[o].own /\ objects'[o].repository = objects[o].repository
    BY DEF RowsKept
  <2> QED
    BY <2>1 DEF MetFor
<1>5. row.object # 0 =>
        row.tal # 0 /\ row.object \in DOMAIN objects' /\ objects'[row.object].repository = row.tal
  BY DEF MetFor, RowsKept
<1> QED
  BY <1>1, <1>2, <1>3, <1>4, <1>5 DEF MetFor

LEMMA KeptFollows ==
  ASSUME CollectionInv, RowsTyped', RowsKept, UNCHANGED collected,
         collection' = collection \/ FoundInv'
  PROVE  CollectionInv'
<1>1. StoredRight' /\ CollectionsWhole'
  BY StoredStays DEF CollectionInv, RowsKept
<1>2. NoOwnDuplicates'
  <2>1. ASSUME NEW t \in DOMAIN tals', NEW u \in DOMAIN tals', t # u, tals'[t].own, tals'[u].own
        PROVE  tals'[t].name # tals'[u].name
    <3>1. t \in DOMAIN tals /\ tals[t].own /\ u \in DOMAIN tals /\ tals[u].own
      BY <2>1 DEF RowsKept
    <3>2. tals'[t].name = tals[t].name /\ tals'[u].name = tals[u].name
      BY <3>1 DEF RowsKept
    <3> QED
      BY <2>1, <3>1, <3>2 DEF CollectionInv, NoOwnDuplicates
  <2>2. ASSUME NEW o \in DOMAIN objects', NEW p \in DOMAIN objects', o # p, objects'[o].own, objects'[p].own
        PROVE  objects'[o].repository # objects'[p].repository
    <3>1. o \in DOMAIN objects /\ objects[o].own /\ p \in DOMAIN objects /\ objects[p].own
      BY <2>2 DEF RowsKept
    <3>2. objects'[o].repository = objects[o].repository /\ objects'[p].repository = objects[p].repository
      BY <3>1 DEF RowsKept
    <3> QED
      BY <2>2, <3>1, <3>2 DEF CollectionInv, NoOwnDuplicates
  <2> QED
    BY <2>1, <2>2 DEF NoOwnDuplicates
<1>3. FoundInv'
  <2>1. CASE collection' = collection
    <3>0. CASE collection = <<>>
      BY <2>1, <3>0 DEF FoundInv
    <3>5. CASE collection # <<>>
      <4>1. PICK found : found = collection[1]
        OBVIOUS
      <4>2. FoundRight(found)
        BY <3>5, <4>1 DEF CollectionInv, FoundInv
      <4>3. ASSUME NEW name \in DOMAIN found PROVE MetFor(name, found[name])'
        <5>1. MetFor(name, found[name])
          BY <4>2 DEF FoundRight
        <5> QED
          BY <5>1, MetStays
      <4>4. FoundRight(found)'
        BY <4>2, <4>3 DEF FoundRight
      <4> QED
        BY <2>1, <4>1, <4>4 DEF FoundInv
    <3> QED
      BY <3>0, <3>5
  <2>2. CASE FoundInv'
    BY <2>2
  <2> QED
    BY <2>1, <2>2
<1> QED
  BY <1>1, <1>2, <1>3 DEF CollectionInv

LEMMA RowsSame ==
  ASSUME RowsTyped, UNCHANGED <<tals, repositories, objects>>, tick' \in Nat
  PROVE  RowsTyped' /\ RowsKept
  BY DEF RowsTyped, RowsKept

LEMMA RowAppended ==
  ASSUME NEW A, NEW s \in Seq(A), NEW x \in A
  PROVE  /\ Append(s, x) \in Seq(A) /\ Len(Append(s, x)) = Len(s) + 1 /\ Append(s, x)[Len(s) + 1] = x
         /\ \A i \in DOMAIN s : i \in DOMAIN Append(s, x) /\ Append(s, x)[i] = s[i]
         /\ \A i \in DOMAIN Append(s, x) : i \in DOMAIN s \/ i = Len(s) + 1
         /\ Len(s) \in Nat /\ DOMAIN s = 1 .. Len(s) /\ Len(s) + 1 \in DOMAIN Append(s, x)
OBVIOUS

(* The calls that change the tables, one by one.                           *)
LEMMA InitTalInv ==
  ASSUME CollectionInv, NEW i \in DOMAIN TalSources, InitTal(TalSources[i])
  PROVE  CollectionInv'
<1> DEFINE name == TalSources[i]
           row == [name |-> name, status |-> "active", own |-> FALSE]
           repository == [tal |-> Len(tals) + 1, protocol |-> "rrdp", sync |-> "pending", synced |-> Never]
<1>1. /\ tick \in Nat /\ tals \in Seq(TalRows) /\ repositories \in Seq(RepositoryRows) /\ objects \in Seq(ObjectRows)
      /\ Len(repositories) = Len(tals)
      /\ \A r \in DOMAIN repositories : repositories[r].tal = r
      /\ \A o \in DOMAIN objects : objects[o].repository \in DOMAIN repositories
  BY DEF CollectionInv, RowsTyped
<1>2. /\ tals' = Append(tals, row) /\ repositories' = Append(repositories, repository)
      /\ UNCHANGED <<objects, collected, collections, collection, tick>>
  BY DEF InitTal
<1>3. row \in TalRows /\ row.own = FALSE
  BY DEF TalRows, ToSet
<1>4. repository \in RepositoryRows /\ repository.tal = Len(tals) + 1
  <2>1. Len(tals) + 1 \in Nat /\ Never \in Int
    BY <1>1 DEF Never
  <2> QED
    BY <2>1 DEF RepositoryRows
<1> HIDE DEF row, repository
<1>5. /\ tals' \in Seq(TalRows) /\ Len(tals') = Len(tals) + 1 /\ tals'[Len(tals) + 1] = row
      /\ \A t \in DOMAIN tals : t \in DOMAIN tals' /\ tals'[t] = tals[t]
      /\ \A t \in DOMAIN tals' : t \in DOMAIN tals \/ t = Len(tals) + 1
  BY <1>1, <1>2, <1>3, RowAppended
<1>6. /\ repositories' \in Seq(RepositoryRows) /\ Len(repositories') = Len(repositories) + 1
      /\ repositories'[Len(repositories) + 1] = repository
      /\ \A r \in DOMAIN repositories : r \in DOMAIN repositories' /\ repositories'[r] = repositories[r]
      /\ \A r \in DOMAIN repositories' : r \in DOMAIN repositories \/ r = Len(repositories) + 1
  BY <1>1, <1>2, <1>4, RowAppended
<1>7. RowsTyped'
  <2>1. \A r \in DOMAIN repositories' : repositories'[r].tal = r
    BY <1>1, <1>4, <1>6
  <2>2. \A o \in DOMAIN objects' : objects'[o].repository \in DOMAIN repositories'
    BY <1>1, <1>2, <1>6
  <2> QED
    BY <1>1, <1>2, <1>5, <1>6, <2>1, <2>2 DEF RowsTyped
<1>8. RowsKept
  <2>1. \A t \in DOMAIN tals' : tals'[t].own => t \in DOMAIN tals /\ tals[t].own
    BY <1>3, <1>5
  <2> QED
    BY <1>2, <1>5, <1>6, <2>1 DEF RowsKept
<1> QED
  BY <1>2, <1>7, <1>8, KeptFollows

LEMMA DeleteTalInv ==
  ASSUME CollectionInv, NEW t \in DOMAIN tals, DeleteTal(t)
  PROVE  CollectionInv'
<1>1. /\ tick \in Nat /\ tals \in Seq(TalRows) /\ repositories \in Seq(RepositoryRows) /\ objects \in Seq(ObjectRows)
      /\ Len(repositories) = Len(tals)
      /\ \A r \in DOMAIN repositories : repositories[r].tal = r
      /\ \A o \in DOMAIN objects : objects[o].repository \in DOMAIN repositories
  BY DEF CollectionInv, RowsTyped
<1>2. /\ tals' = [tals EXCEPT ![t].status = "disabled"]
      /\ UNCHANGED <<repositories, objects, collected, collections, collection, tick>>
  BY DEF DeleteTal
<1>3. ASSUME NEW u \in DOMAIN tals
      PROVE  [tals[u] EXCEPT !.status = "disabled"] \in TalRows
             /\ [tals[u] EXCEPT !.status = "disabled"].name = tals[u].name
             /\ [tals[u] EXCEPT !.status = "disabled"].own = tals[u].own
  <2>1. tals[u] \in TalRows
    BY <1>1
  <2> QED
    BY <2>1 DEF TalRows
<1>4. tals' \in Seq(TalRows) /\ DOMAIN tals' = DOMAIN tals /\ Len(tals') = Len(tals)
  <2>1. tals' = [tals EXCEPT ![t] = [tals[t] EXCEPT !.status = "disabled"]]
    BY <1>2
  <2>2. [tals[t] EXCEPT !.status = "disabled"] \in TalRows
    BY <1>3
  <2> QED
    BY <1>1, <2>1, <2>2
<1>5. \A u \in DOMAIN tals : tals'[u].name = tals[u].name /\ tals'[u].own = tals[u].own
  BY <1>2, <1>3
<1>6. RowsTyped'
  BY <1>1, <1>2, <1>4 DEF RowsTyped
<1>7. RowsKept
  BY <1>2, <1>4, <1>5 DEF RowsKept
<1> QED
  BY <1>2, <1>6, <1>7, KeptFollows

LEMMA SyncedType ==
  ASSUME RowsTyped, NEW row \in RepositoryRows
  PROVE  Synced(row) \in RepositoryRows /\ Synced(row).tal = row.tal
<1>1. /\ row.tal \in Nat /\ row.protocol \in {"rrdp"} /\ row.synced \in Int
      /\ row = [tal |-> row.tal, protocol |-> row.protocol, sync |-> row.sync, synced |-> row.synced]
  BY DEF RepositoryRows
<1>2. SyncOutcome(row.protocol) = "success"
  BY <1>1 DEF SyncOutcome
<1>3. Synced(row) = [row EXCEPT !.sync = "success", !.synced = tick]
  BY <1>2 DEF Synced
<1>4. tick \in Int
  BY DEF RowsTyped
<1> QED
  BY <1>3, <1>4 DEF RepositoryRows

LEMMA SyncsInv ==
  ASSUME CollectionInv, UNCHANGED <<tals, objects, collected, collections, collection, tick>>,
         repositories' \in Seq(RepositoryRows), Len(repositories') = Len(repositories),
         \A r \in DOMAIN repositories : repositories'[r].tal = r
  PROVE  CollectionInv'
<1>1. RowsTyped
  BY DEF CollectionInv
<1>2. DOMAIN repositories' = DOMAIN repositories
  BY <1>1 DEF RowsTyped
<1>3. RowsTyped'
  BY <1>1, <1>2 DEF RowsTyped
<1>4. RowsKept
  BY <1>2 DEF RowsKept
<1> QED
  BY <1>3, <1>4, KeptFollows

LEMMA SyncTalInv ==
  ASSUME CollectionInv, NEW t \in DOMAIN tals, SyncTal(t)
  PROVE  CollectionInv'
<1>1. RowsTyped /\ repositories \in Seq(RepositoryRows) /\ \A r \in DOMAIN repositories : repositories[r].tal = r
  BY DEF CollectionInv, RowsTyped
<1>2. PICK r : repositories' = [repositories EXCEPT ![r] = Synced(repositories[r])]
  BY DEF SyncTal
<1>3. UNCHANGED <<tals, objects, collected, collections, collection, tick>>
  BY DEF SyncTal
<1>4. \A s \in DOMAIN repositories : Synced(repositories[s]) \in RepositoryRows /\ Synced(repositories[s]).tal = s
  <2> SUFFICES ASSUME NEW s \in DOMAIN repositories
               PROVE  Synced(repositories[s]) \in RepositoryRows /\ Synced(repositories[s]).tal = s
    OBVIOUS
  <2>1. repositories[s] \in RepositoryRows
    BY <1>1
  <2> QED
    BY <1>1, <2>1, SyncedType
<1>5. repositories' \in Seq(RepositoryRows) /\ Len(repositories') = Len(repositories)
  <2>1. repositories' = [s \in DOMAIN repositories |-> IF s = r THEN Synced(repositories[s]) ELSE repositories[s]]
    BY <1>2
  <2>2. DOMAIN repositories = 1 .. Len(repositories) /\ Len(repositories) \in Nat
    BY <1>1
  <2>3. repositories' \in [1 .. Len(repositories) -> RepositoryRows]
    BY <1>1, <1>4, <2>1, <2>2
  <2> QED
    BY <2>2, <2>3
<1>6. \A s \in DOMAIN repositories : repositories'[s].tal = s
  BY <1>1, <1>2, <1>4
<1> QED
  BY <1>3, <1>5, <1>6, SyncsInv

LEMMA SyncAllInv ==
  ASSUME CollectionInv, SyncAll
  PROVE  CollectionInv'
<1>1. RowsTyped /\ repositories \in Seq(RepositoryRows) /\ \A r \in DOMAIN repositories : repositories[r].tal = r
  BY DEF CollectionInv, RowsTyped
<1>2. /\ repositories' = [r \in DOMAIN repositories |-> Synced(repositories[r])]
      /\ UNCHANGED <<tals, objects, collected, collections, collection, tick>>
  BY DEF SyncAll
<1>4. \A s \in DOMAIN repositories : Synced(repositories[s]) \in RepositoryRows /\ Synced(repositories[s]).tal = s
  <2> SUFFICES ASSUME NEW s \in DOMAIN repositories
               PROVE  Synced(repositories[s]) \in RepositoryRows /\ Synced(repositories[s]).tal = s
    OBVIOUS
  <2>1. repositories[s] \in RepositoryRows
    BY <1>1
  <2> QED
    BY <1>1, <2>1, SyncedType
<1>5. repositories' \in Seq(RepositoryRows) /\ Len(repositories') = Len(repositories)
  <2>1. DOMAIN repositories = 1 .. Len(repositories) /\ Len(repositories) \in Nat
    BY <1>1
  <2>2. repositories' \in [1 .. Len(repositories) -> RepositoryRows]
    BY <1>2, <1>4, <2>1
  <2> QED
    BY <2>1, <2>2
<1>6. \A s \in DOMAIN repositories : repositories'[s].tal = s
  BY <1>2, <1>4
<1> QED
  BY <1>2, <1>5, <1>6, SyncsInv

LEMMA CreateLocalRoaInv ==
  ASSUME CollectionInv, NEW r \in DOMAIN repositories, CreateLocalRoa(r)
  PROVE  CollectionInv'
<1> DEFINE row == [repository |-> r, type |-> "roa", own |-> FALSE]
<1>1. /\ tick \in Nat /\ tals \in Seq(TalRows) /\ repositories \in Seq(RepositoryRows) /\ objects \in Seq(ObjectRows)
      /\ Len(repositories) = Len(tals)
      /\ \A s \in DOMAIN repositories : repositories[s].tal = s
      /\ \A o \in DOMAIN objects : objects[o].repository \in DOMAIN repositories
  BY DEF CollectionInv, RowsTyped
<1>2. /\ objects' = Append(objects, row)
      /\ UNCHANGED <<tals, repositories, collected, collections, collection, tick>>
  BY DEF CreateLocalRoa
<1>3. row \in ObjectRows /\ row.own = FALSE /\ row.repository = r
  <2>1. r \in Nat
    BY <1>1
  <2> QED
    BY <2>1 DEF ObjectRows
<1> HIDE DEF row
<1>4. /\ objects' \in Seq(ObjectRows) /\ Len(objects') = Len(objects) + 1 /\ objects'[Len(objects) + 1] = row
      /\ \A o \in DOMAIN objects : o \in DOMAIN objects' /\ objects'[o] = objects[o]
      /\ \A o \in DOMAIN objects' : o \in DOMAIN objects \/ o = Len(objects) + 1
  BY <1>1, <1>2, <1>3, RowAppended
<1>5. RowsTyped'
  <2>1. \A o \in DOMAIN objects' : objects'[o].repository \in DOMAIN repositories'
    BY <1>1, <1>2, <1>3, <1>4
  <2> QED
    BY <1>1, <1>2, <1>4, <2>1 DEF RowsTyped
<1>6. RowsKept
  <2>1. \A o \in DOMAIN objects' : objects'[o].own => o \in DOMAIN objects /\ objects[o].own
    BY <1>3, <1>4
  <2> QED
    BY <1>2, <1>4, <2>1 DEF RowsKept
<1> QED
  BY <1>2, <1>5, <1>6, KeptFollows

LEMMA SyncsAgeInv ==
  ASSUME CollectionInv, SyncsAge
  PROVE  CollectionInv'
<1>1. RowsTyped /\ tick \in Nat
  BY DEF CollectionInv, RowsTyped
<1>2. tick' = tick + 1 /\ UNCHANGED <<tals, repositories, objects, collected, collections, collection>>
  BY DEF SyncsAge
<1>3. tick' \in Nat
  BY <1>1, <1>2
<1> QED
  BY <1>1, <1>2, <1>3, RowsSame, KeptFollows

LEMMA AbortCollectionInv ==
  ASSUME CollectionInv, AbortCollection
  PROVE  CollectionInv'
<1>1. RowsTyped /\ tick \in Nat
  BY DEF CollectionInv, RowsTyped
<1>2. collection' = <<>> /\ UNCHANGED <<tals, repositories, objects, collected, collections, tick, calls>>
  BY DEF AbortCollection
<1>3. FoundInv'
  BY <1>2 DEF FoundInv
<1> QED
  BY <1>1, <1>2, <1>3, RowsSame, KeptFollows

LEMMA AloneIn ==
  ASSUME NEW S, IsFiniteSet(S), Cardinality(S) <= 1, NEW x \in S, NEW y \in S
  PROVE  x = y
<1> SUFFICES ASSUME x # y PROVE FALSE
  OBVIOUS
<1>1. {x, y} \in SUBSET S
  OBVIOUS
<1>2. IsFiniteSet({x, y}) /\ Cardinality({x, y}) <= Cardinality(S)
  BY <1>1, FS_Subset
<1>3. Cardinality({x, y}) = 2
  <2>1. Cardinality({x}) = 1 /\ IsFiniteSet({x})
    BY FS_Singleton
  <2>2. {x, y} = {x} \cup {y} /\ y \notin {x}
    OBVIOUS
  <2> QED
    BY <2>1, <2>2, FS_AddElement
<1>4. Cardinality(S) \in Nat
  BY FS_CardinalityType
<1> QED
  BY <1>2, <1>3, <1>4

LEMMA OneOf ==
  ASSUME NEW rows
  PROVE  (One(rows) = 0 /\ rows = {}) \/ One(rows) \in rows
  BY DEF One

(* The objects that a search for those of a name finds.                    *)
ObjectsFor(name) == UNION {RoaObjectsOf(r) : r \in UNION {RepositoriesOf(t) : t \in TalsNamed(name)}}

LEMMA BeginFinds ==
  ASSUME CollectionInv, NEW name \in ToSet(TalSources), Cardinality(TalsNamed(name)) <= 1
  PROVE  MetFor(name, [tal |-> One(TalsNamed(name)), object |-> One(ObjectsFor(name)), at |-> tick])
<1> DEFINE t == One(TalsNamed(name))
           o == One(ObjectsFor(name))
<1>1. /\ tick \in Nat /\ tals \in Seq(TalRows) /\ repositories \in Seq(RepositoryRows) /\ objects \in Seq(ObjectRows)
      /\ \A r \in DOMAIN repositories : repositories[r].tal = r
      /\ \A p \in DOMAIN objects : objects[p].repository \in DOMAIN repositories
  BY DEF CollectionInv, RowsTyped
<1>2. ASSUME NEW p
      PROVE  p \in ObjectsFor(name) <=> p \in DOMAIN objects /\ objects[p].repository \in TalsNamed(name)
  <2>1. p \in ObjectsFor(name) <=>
          \E r \in DOMAIN repositories, u \in TalsNamed(name) :
            repositories[r].tal = u /\ p \in DOMAIN objects /\ objects[p].repository = r /\ objects[p].type = "roa"
    BY DEF ObjectsFor, RoaObjectsOf, RepositoriesOf
  <2>2. p \in DOMAIN objects => objects[p].type = "roa"
    <3> SUFFICES ASSUME p \in DOMAIN objects PROVE objects[p].type = "roa"
      OBVIOUS
    <3>1. objects[p] \in ObjectRows
      BY <1>1
    <3> QED
      BY <3>1 DEF ObjectRows
  <2> QED
    BY <1>1, <2>1, <2>2
<1>3. \A u : u \in TalsNamed(name) <=> u \in DOMAIN tals /\ tals[u].name = name
  BY DEF TalsNamed
<1>4. DOMAIN tals = 1 .. Len(tals) /\ DOMAIN objects = 1 .. Len(objects) /\ Len(tals) \in Nat /\ Len(objects) \in Nat
  BY <1>1
<1>5. IsFiniteSet(TalsNamed(name))
  <2>1. IsFiniteSet(1 .. Len(tals))
    BY <1>4, FS_Interval
  <2>2. TalsNamed(name) \in SUBSET (1 .. Len(tals))
    BY <1>3, <1>4
  <2> QED
    BY <2>1, <2>2, FS_Subset
<1>6. (t = 0 /\ TalsNamed(name) = {}) \/ t \in TalsNamed(name)
  BY OneOf
<1>7. (o = 0 /\ ObjectsFor(name) = {}) \/ o \in ObjectsFor(name)
  BY OneOf
<1> HIDE DEF t, o
<1>8. t \in Nat /\ o \in Nat
  BY <1>2, <1>3, <1>4, <1>6, <1>7
<1>9. t # 0 => t \in TalsNamed(name)
  BY <1>6
<1>10. t = 0 => TalsNamed(name) = {}
  BY <1>3, <1>4, <1>6
<1>11. o = 0 => ObjectsFor(name) = {}
  BY <1>2, <1>4, <1>7
<1>12. o # 0 => o \in DOMAIN objects /\ objects[o].repository \in TalsNamed(name)
  BY <1>2, <1>7
<1>13. o # 0 => t # 0 /\ objects[o].repository = t
  <2> SUFFICES ASSUME o # 0 PROVE t # 0 /\ objects[o].repository = t
    OBVIOUS
  <2>1. objects[o].repository \in TalsNamed(name) /\ t \in TalsNamed(name) /\ t # 0
    BY <1>9, <1>10, <1>12
  <2> QED
    BY <1>5, <2>1, AloneIn
<1>14. o = 0 /\ t # 0 => \A p \in DOMAIN objects : objects[p].repository # t
  BY <1>2, <1>9, <1>11
<1> DEFINE row == [tal |-> t, object |-> o, at |-> tick]
<1>15. row \in FoundRows /\ row.tal = t /\ row.object = o
  BY <1>1, <1>8 DEF FoundRows
<1> HIDE DEF row
<1>16. MetFor(name, row)
  BY <1>3, <1>9, <1>10, <1>12, <1>13, <1>14, <1>15 DEF MetFor
<1> QED
  BY <1>16 DEF row, t, o

LEMMA BeginCollectionInv ==
  ASSUME CollectionInv, NEW answers \in [{TalSources[i] : i \in DOMAIN TalSources} -> TalResponses],
         BeginCollection(answers)
  PROVE  CollectionInv'
<1> DEFINE names == {name \in DOMAIN answers : Downloaded(answers[name])}
           found == [name \in names |-> [tal |-> One(TalsNamed(name)), object |-> One(ObjectsFor(name)), at |-> tick]]
<1>1. RowsTyped /\ tick \in Nat
  BY DEF CollectionInv, RowsTyped
<1>2. /\ \A name \in names : Cardinality(TalsNamed(name)) <= 1
      /\ collection' = <<found>> /\ UNCHANGED <<tals, repositories, objects, collected, collections, tick, calls>>
  BY DEF BeginCollection, ObjectsFor
<1>3. names \subseteq ToSet(TalSources)
  BY DEF ToSet
<1> HIDE DEF names
<1>4. ASSUME NEW name \in names PROVE MetFor(name, found[name])
  <2>1. name \in ToSet(TalSources) /\ Cardinality(TalsNamed(name)) <= 1
    BY <1>2, <1>3
  <2> QED
    BY <2>1, BeginFinds
<1>5. PICK f : f = found
  OBVIOUS
<1>6. DOMAIN f = names
  BY <1>5
<1> HIDE DEF found
<1>7. FoundRight(f)
  BY <1>3, <1>4, <1>5, <1>6 DEF FoundRight
<1>8. RowsTyped' /\ RowsKept
  BY <1>1, <1>2, RowsSame
<1>9. ASSUME NEW name \in names PROVE MetFor(name, f[name])'
  <2>1. MetFor(name, f[name])
    BY <1>4, <1>5
  <2> QED
    BY <1>8, <2>1, MetStays
<1>10. FoundRight(f)'
  BY <1>3, <1>6, <1>9 DEF FoundRight
<1>11. collection'[1] = f
  BY <1>2, <1>5
<1>12. FoundInv'
  BY <1>10, <1>11 DEF FoundInv
<1> QED
  BY <1>2, <1>8, <1>12, KeptFollows

(***************************************************************************)
(* What the commit of a collection stores.                                 *)
(***************************************************************************)

(* The names of some trust anchors, in the order of TAL_SOURCES.           *)
NamesIn(Q) == EntriesAt(TalSources, {i \in DOMAIN TalSources : TalSources[i] \in Q})

LEMMA NamesInAre ==
  ASSUME NEW Q \in SUBSET ToSet(TalSources)
  PROVE  /\ NamesIn(Q) \in Seq(ToSet(TalSources))
         /\ \A n \in DOMAIN NamesIn(Q) : NamesIn(Q)[n] \in Q /\ PlaceOf(NamesIn(Q)[n], NamesIn(Q)) = n
         /\ \A x \in Q : PlaceOf(x, NamesIn(Q)) \in DOMAIN NamesIn(Q) /\ NamesIn(Q)[PlaceOf(x, NamesIn(Q))] = x
<1> DEFINE P == {i \in DOMAIN TalSources : TalSources[i] \in Q}
           e == EntriesAt(TalSources, P)
<1>1. /\ TalSources \in Seq(ToSet(TalSources))
      /\ \A i, j \in DOMAIN TalSources : TalSources[i] = TalSources[j] => i = j
  BY CollectionAssumption
<1>2. P \in SUBSET (1 .. Len(TalSources)) /\ Len(TalSources) \in Nat /\ DOMAIN TalSources = 1 .. Len(TalSources)
  BY <1>1
<1>3. NamesIn(Q) = e
  BY DEF NamesIn
<1>4. \A i \in P : i \in DOMAIN TalSources /\ TalSources[i] \in Q
  OBVIOUS
<1>5. \A x \in Q : \E i \in P : TalSources[i] = x
  BY DEF ToSet
<1> HIDE DEF P
<1>6. PICK m \in Nat : \E g : Listing(g, m, P)
  BY <1>2, Enumerated
<1>7. PICK g : Listing(g, m, P)
  BY <1>6
<1>8. e \in Seq(ToSet(TalSources)) /\ Len(e) = m /\ \A n \in 1 .. m : e[n] = TalSources[g[n]] /\ g[n] \in P
  BY <1>1, <1>2, <1>7, EntriesAre
<1> HIDE DEF e
<1>9. DOMAIN e = 1 .. m
  BY <1>8
<1>10. \A n \in DOMAIN e : e[n] \in Q
  BY <1>4, <1>8, <1>9
<1>11. ASSUME NEW n \in DOMAIN e, NEW k \in DOMAIN e, e[n] = e[k] PROVE n = k
  <2>0. PICK i \in P, j \in P : i = g[n] /\ j = g[k]
    BY <1>8, <1>9
  <2>4. e[n] = TalSources[i] /\ e[k] = TalSources[j]
    BY <1>8, <1>9, <2>0
  <2>5. i \in DOMAIN TalSources /\ j \in DOMAIN TalSources
    BY <1>4
  <2>6. i = j
    BY <1>1, <1>11, <2>4, <2>5
  <2>7. i \in Nat
    BY <1>2, <2>5
  <2>1. g[n] = g[k] /\ g[n] \in Nat
    BY <2>0, <2>6, <2>7
  <2>2. n < k => g[n] < g[k]
    BY <1>7, <1>9 DEF Listing
  <2>3. k < n => g[k] < g[n]
    BY <1>7, <1>9 DEF Listing
  <2> QED
    BY <1>9, <2>1, <2>2, <2>3
<1>12. \A x \in Q : \E n \in DOMAIN e : e[n] = x
  <2> SUFFICES ASSUME NEW x \in Q PROVE \E n \in DOMAIN e : e[n] = x
    OBVIOUS
  <2>1. PICK i \in P : TalSources[i] = x
    BY <1>5
  <2>2. PICK n \in 1 .. m : g[n] = i
    BY <1>7 DEF Listing
  <2> QED
    BY <1>8, <1>9, <2>1, <2>2
<1>13. \A x : (\E n \in DOMAIN e : e[n] = x) => PlaceOf(x, e) \in DOMAIN e /\ e[PlaceOf(x, e)] = x
  BY DEF PlaceOf
<1>14. \A n \in DOMAIN e : PlaceOf(e[n], e) = n
  BY <1>11, <1>13
<1> QED
  BY <1>3, <1>8, <1>10, <1>12, <1>13, <1>14

(* The trust anchors that were found without a row, or without an object.  *)
Untalled(found) == {name \in DOMAIN found : found[name].tal = 0}
Unheld(found) == {name \in DOMAIN found : found[name].object = 0}

LEMMA FreshAre ==
  ASSUME NEW found, DOMAIN found \in SUBSET ToSet(TalSources)
  PROVE  /\ FreshTals(found) = NamesIn(Untalled(found)) /\ BareTals(found) = NamesIn(Unheld(found))
         /\ Untalled(found) \in SUBSET ToSet(TalSources) /\ Unheld(found) \in SUBSET ToSet(TalSources)
<1>1. \A i \in DOMAIN TalSources :
        TalSources[i] \in DOMAIN found /\ found[TalSources[i]].tal = 0 <=> TalSources[i] \in Untalled(found)
  BY DEF Untalled
<1>2. \A i \in DOMAIN TalSources :
        TalSources[i] \in DOMAIN found /\ found[TalSources[i]].object = 0 <=> TalSources[i] \in Unheld(found)
  BY DEF Unheld
<1>3. {i \in DOMAIN TalSources : TalSources[i] \in DOMAIN found /\ found[TalSources[i]].tal = 0} =
        {i \in DOMAIN TalSources : TalSources[i] \in Untalled(found)}
  BY <1>1
<1>4. {i \in DOMAIN TalSources : TalSources[i] \in DOMAIN found /\ found[TalSources[i]].object = 0} =
        {i \in DOMAIN TalSources : TalSources[i] \in Unheld(found)}
  BY <1>2
<1>5. FreshTals(found) = NamesIn(Untalled(found)) /\ BareTals(found) = NamesIn(Unheld(found))
  BY <1>3, <1>4 DEF FreshTals, BareTals, NamesIn
<1> QED
  BY <1>5 DEF Untalled, Unheld

LEMMA MatchedTal ==
  ASSUME NEW anchor, NEW names \in SUBSET ToSet(TalSources), MatchTal(anchor, names) # <<>>
  PROVE  MatchTal(anchor, names)[1] \in names
<1> DEFINE P == {i \in DOMAIN TalSources : TalSources[i] \in names \cap Partly[anchor]}
           partly == EntriesAt(TalSources, P)
<1>1. MatchTal(anchor, names) =
        IF anchor \in names THEN <<anchor>> ELSE IF partly = <<>> THEN <<>> ELSE <<Head(partly)>>
  BY DEF MatchTal
<1>2. TalSources \in Seq(ToSet(TalSources)) /\ P \in SUBSET (1 .. Len(TalSources))
  <2>1. TalSources \in Seq(ToSet(TalSources))
    BY CollectionAssumption
  <2> QED
    BY <2>1
<1>3. \A i \in P : TalSources[i] \in names
  OBVIOUS
<1> HIDE DEF P
<1>4. partly \in Seq(ToSet(TalSources)) /\ \A x : (\E n \in 1 .. Len(partly) : partly[n] = x) <=> \E i \in P : TalSources[i] = x
  BY <1>2, EntriesType
<1> HIDE DEF partly
<1>5. ASSUME partly # <<>> PROVE Head(partly) \in names
  <2>1. 1 \in 1 .. Len(partly) /\ Head(partly) = partly[1]
    BY <1>4, <1>5
  <2>2. \E i \in P : TalSources[i] = partly[1]
    BY <1>4, <2>1
  <2> QED
    BY <1>3, <2>1, <2>2
<1>6. CASE anchor \in names
  BY <1>1, <1>6
<1>7. CASE anchor \notin names
  <2>1. partly # <<>> /\ MatchTal(anchor, names) = <<Head(partly)>>
    BY <1>1, <1>7
  <2> QED
    BY <1>5, <2>1
<1> QED
  BY <1>6, <1>7

Records == [prefix : Spelt, origin : Nat, max : Nat, anchor : ToSet(TalSources) \cup DOMAIN Partly]

(* The ROAs of the trust anchors that a collection found.                  *)
RoasUnder(names, talOf, objectOf) ==
  {x \in RoaRows : \E name \in names : x.tal = talOf[name] /\ x.object = objectOf[name]}

RoaFrom(x, names, talOf, objectOf) ==
  [prefix |-> x.prefix, origin |-> x.origin, max |-> MaxLength(x),
   tal |-> talOf[MatchTal(x.anchor, names)[1]], object |-> objectOf[MatchTal(x.anchor, names)[1]]]

LEMMA RoaFromType ==
  ASSUME NEW names \in SUBSET ToSet(TalSources), NEW talOf, NEW objectOf,
         \A name \in names : talOf[name] \in Nat /\ objectOf[name] \in Nat,
         NEW x \in Records, MatchTal(x.anchor, names) # <<>>
  PROVE  RoaFrom(x, names, talOf, objectOf) \in RoasUnder(names, talOf, objectOf)
<1>1. PICK name \in names : name = MatchTal(x.anchor, names)[1]
  BY MatchedTal
<1>2. talOf[name] \in Nat /\ objectOf[name] \in Nat
  OBVIOUS
<1>3. x.prefix \in Spelt /\ x.origin \in Nat /\ x.max \in Nat
  BY DEF Records
<1>4. MaxLength(x) \in Nat
  <2>1. x.prefix.len \in Nat
    BY <1>3, PrefixAssumption DEF Spelt
  <2> QED
    BY <1>3, <2>1 DEF MaxLength
<1>5. PICK r : r = RoaFrom(x, names, talOf, objectOf)
  OBVIOUS
<1>6. r = [prefix |-> x.prefix, origin |-> x.origin, max |-> MaxLength(x), tal |-> talOf[name], object |-> objectOf[name]]
  BY <1>1, <1>5 DEF RoaFrom
<1>7. r \in RoaRows /\ r.tal = talOf[name] /\ r.object = objectOf[name]
  BY <1>2, <1>3, <1>4, <1>6 DEF RoaRows
<1> QED
  BY <1>5, <1>7 DEF RoasUnder

LEMMA CollectRoasAre ==
  ASSUME NEW answered, NEW names \in SUBSET ToSet(TalSources), NEW talOf, NEW objectOf,
         \A name \in names : talOf[name] \in Nat /\ objectOf[name] \in Nat
  PROVE  CollectRoas(answered, names, talOf, objectOf) \in Seq(RoasUnder(names, talOf, objectOf))
<1> DEFINE A == RoasUnder(names, talOf, objectOf)
           P(list) == {j \in DOMAIN list : MatchTal(list[j].anchor, names) # <<>>}
           matched(list) == EntriesAt(list, P(list))
           RoasAt(i) == IF Targets[i] \notin answered THEN <<>>
                       ELSE [j \in DOMAIN matched(RoasOf[Targets[i]]) |->
                               RoaFrom(matched(RoasOf[Targets[i]])[j], names, talOf, objectOf)]
<1>1. /\ Targets \in Seq(DOMAIN RoutesOf \cap DOMAIN RoasOf)
      /\ \A a \in DOMAIN RoasOf : RoasOf[a] \in Seq(Records)
  BY CollectionAssumption DEF Records
<1>2. CollectRoas(answered, names, talOf, objectOf) = FlattenSeq([i \in DOMAIN Targets |-> RoasAt(i)])
  BY DEF CollectRoas, RoaFrom
<1>3. ASSUME NEW list \in Seq(Records)
      PROVE  [j \in DOMAIN matched(list) |-> RoaFrom(matched(list)[j], names, talOf, objectOf)] \in Seq(A)
  <2> DEFINE e == matched(list)
  <2>1. P(list) \in SUBSET (1 .. Len(list))
    OBVIOUS
  <2>2. \A j \in P(list) : MatchTal(list[j].anchor, names) # <<>>
    OBVIOUS
  <2> HIDE DEF P
  <2>3. e \in Seq(Records) /\ \A x : (\E n \in 1 .. Len(e) : e[n] = x) <=> \E j \in P(list) : list[j] = x
    BY <2>1, EntriesType
  <2> HIDE DEF matched, A
  <2>4. DOMAIN e = 1 .. Len(e) /\ Len(e) \in Nat
    BY <2>3
  <2>5. ASSUME NEW n \in 1 .. Len(e) PROVE RoaFrom(e[n], names, talOf, objectOf) \in A
    <3>1. PICK x : x = e[n]
      OBVIOUS
    <3>2. x \in Records
      BY <2>3, <3>1
    <3>3. PICK j \in P(list) : list[j] = x
      BY <2>3, <3>1
    <3>4. MatchTal(x.anchor, names) # <<>>
      BY <2>2, <3>3
    <3> QED
      BY <3>1, <3>2, <3>4, RoaFromType DEF A
  <2> HIDE DEF e
  <2>6. [j \in DOMAIN e |-> RoaFrom(e[j], names, talOf, objectOf)] \in [1 .. Len(e) -> A]
    BY <2>4, <2>5
  <2>7. [j \in DOMAIN e |-> RoaFrom(e[j], names, talOf, objectOf)] \in Seq(A)
    BY <2>4, <2>6
  <2> QED
    BY <2>7 DEF e
<1>4. \A i \in DOMAIN Targets : RoasAt(i) \in Seq(A)
  <2> SUFFICES ASSUME NEW i \in DOMAIN Targets PROVE RoasAt(i) \in Seq(A)
    OBVIOUS
  <2>1. RoasOf[Targets[i]] \in Seq(Records)
    BY <1>1
  <2> HIDE DEF matched, A
  <2> QED
    BY <1>3, <2>1
<1> HIDE DEF RoasAt, A
<1>5. [i \in DOMAIN Targets |-> RoasAt(i)] \in Seq(Seq(A))
  <2>1. DOMAIN Targets = 1 .. Len(Targets) /\ Len(Targets) \in Nat
    BY <1>1
  <2>2. [i \in DOMAIN Targets |-> RoasAt(i)] \in [1 .. Len(Targets) -> Seq(A)]
    BY <1>4, <2>1
  <2> QED
    BY <2>1, <2>2
<1>6. FlattenSeq([i \in DOMAIN Targets |-> RoasAt(i)]) \in Seq(A)
  BY <1>5, FlatValues
<1> QED
  BY <1>2, <1>6 DEF A

Routes == [prefix : Spelt, origin : DOMAIN RoutesOf]

LEMMA CollectRoutesAre ==
  ASSUME NEW answered
  PROVE  CollectRoutes(answered) \in Seq(Routes)
<1> DEFINE RoasAt(i) == IF Targets[i] \notin answered THEN <<>>
                       ELSE [j \in DOMAIN RoutesOf[Targets[i]] |->
                               [prefix |-> RoutesOf[Targets[i]][j], origin |-> Targets[i]]]
<1>1. /\ Targets \in Seq(DOMAIN RoutesOf \cap DOMAIN RoasOf)
      /\ \A a \in DOMAIN RoutesOf : RoutesOf[a] \in Seq(Spelt)
  BY CollectionAssumption
<1>2. CollectRoutes(answered) = FlattenSeq([i \in DOMAIN Targets |-> RoasAt(i)])
  BY DEF CollectRoutes
<1>3. ASSUME NEW a \in DOMAIN RoutesOf
      PROVE  [j \in DOMAIN RoutesOf[a] |-> [prefix |-> RoutesOf[a][j], origin |-> a]] \in Seq(Routes)
  <2>1. PICK s \in Seq(Spelt) : s = RoutesOf[a]
    BY <1>1
  <2>2. DOMAIN s = 1 .. Len(s) /\ Len(s) \in Nat /\ \A j \in 1 .. Len(s) : s[j] \in Spelt
    OBVIOUS
  <2>3. \A j \in 1 .. Len(s) : [prefix |-> s[j], origin |-> a] \in Routes
    BY <2>2 DEF Routes
  <2>4. [j \in DOMAIN s |-> [prefix |-> s[j], origin |-> a]] \in [1 .. Len(s) -> Routes]
    BY <2>2, <2>3
  <2>5. [j \in DOMAIN s |-> [prefix |-> s[j], origin |-> a]] \in Seq(Routes)
    BY <2>2, <2>4
  <2> QED
    BY <2>1, <2>5
<1>4. \A i \in DOMAIN Targets : RoasAt(i) \in Seq(Routes)
  <2> SUFFICES ASSUME NEW i \in DOMAIN Targets PROVE RoasAt(i) \in Seq(Routes)
    OBVIOUS
  <2>1. Targets[i] \in DOMAIN RoutesOf
    BY <1>1
  <2> QED
    BY <1>3, <2>1
<1> HIDE DEF RoasAt
<1>5. [i \in DOMAIN Targets |-> RoasAt(i)] \in Seq(Seq(Routes))
  <2>1. DOMAIN Targets = 1 .. Len(Targets) /\ Len(Targets) \in Nat
    BY <1>1
  <2>2. [i \in DOMAIN Targets |-> RoasAt(i)] \in [1 .. Len(Targets) -> Seq(Routes)]
    BY <1>4, <2>1
  <2> QED
    BY <2>1, <2>2
<1> QED
  BY <1>2, <1>5, FlatValues

(* The rows for what a collection found, by the tables before it commits.  *)
LEMMA TalOfIs ==
  ASSUME RowsTyped, NEW found, FoundRight(found)
  PROVE  /\ DOMAIN TalOf(found) = DOMAIN found /\ DOMAIN ObjectOf(found) = DOMAIN found
         /\ Len(FreshTals(found)) \in Nat /\ Len(BareTals(found)) \in Nat
         /\ \A name \in DOMAIN found :
              /\ found[name].tal # 0 =>
                   TalOf(found)[name] = found[name].tal /\ found[name].tal \in DOMAIN tals
                     /\ tals[found[name].tal].name = name
              /\ found[name].tal = 0 => \E i \in DOMAIN FreshTals(found) :
                   TalOf(found)[name] = Len(tals) + i /\ FreshTals(found)[i] = name
              /\ RepositoryOf(found, name) = TalOf(found)[name]
              /\ found[name].object # 0 =>
                   /\ ObjectOf(found)[name] = found[name].object /\ found[name].object \in DOMAIN objects
                   /\ objects[found[name].object].repository = TalOf(found)[name]
              /\ found[name].object = 0 => \E i \in DOMAIN BareTals(found) :
                   ObjectOf(found)[name] = Len(objects) + i /\ BareTals(found)[i] = name
<1> DEFINE fresh == FreshTals(found)
           bare == BareTals(found)
<1>1. DOMAIN found \in SUBSET ToSet(TalSources) /\ \A name \in DOMAIN found : MetFor(name, found[name])
  BY DEF FoundRight
<1>2. /\ fresh = NamesIn(Untalled(found)) /\ bare = NamesIn(Unheld(found))
      /\ Untalled(found) \in SUBSET ToSet(TalSources) /\ Unheld(found) \in SUBSET ToSet(TalSources)
  BY <1>1, FreshAre
<1>3. fresh \in Seq(ToSet(TalSources)) /\ bare \in Seq(ToSet(TalSources))
  BY <1>2, NamesInAre
<1>4. \A name \in Untalled(found) : PlaceOf(name, fresh) \in DOMAIN fresh /\ fresh[PlaceOf(name, fresh)] = name
  BY <1>2, NamesInAre
<1>5. \A name \in Unheld(found) : PlaceOf(name, bare) \in DOMAIN bare /\ bare[PlaceOf(name, bare)] = name
  BY <1>2, NamesInAre
<1> HIDE DEF fresh, bare
<1>6. /\ TalOf(found) = [name \in DOMAIN found |->
           IF found[name].tal # 0 THEN found[name].tal ELSE Len(tals) + PlaceOf(name, fresh)]
      /\ ObjectOf(found) = [name \in DOMAIN found |->
           IF found[name].object # 0 THEN found[name].object ELSE Len(objects) + PlaceOf(name, bare)]
  BY DEF TalOf, ObjectOf, fresh, bare
<1>7. /\ DOMAIN TalOf(found) = DOMAIN found /\ DOMAIN ObjectOf(found) = DOMAIN found
      /\ \A name \in DOMAIN found :
           /\ TalOf(found)[name] = IF found[name].tal # 0 THEN found[name].tal ELSE Len(tals) + PlaceOf(name, fresh)
           /\ ObjectOf(found)[name] =
                IF found[name].object # 0 THEN found[name].object ELSE Len(objects) + PlaceOf(name, bare)
  BY <1>6
<1>8. /\ Len(repositories) = Len(tals) /\ DOMAIN repositories = DOMAIN tals
      /\ \A r \in DOMAIN repositories : repositories[r].tal = r
  BY DEF RowsTyped
<1>9. ASSUME NEW name \in DOMAIN found, found[name].tal # 0
      PROVE  /\ TalOf(found)[name] = found[name].tal /\ found[name].tal \in DOMAIN tals
             /\ tals[found[name].tal].name = name
             /\ RepositoryOf(found, name) = TalOf(found)[name]
  <2>1. found[name].tal \in DOMAIN tals /\ tals[found[name].tal].name = name
    BY <1>1, <1>9 DEF MetFor
  <2>2. RepositoriesOf(found[name].tal) = {found[name].tal}
    BY <1>8, <2>1 DEF RepositoriesOf
  <2>3. \A x : One({x}) = x
    BY DEF One
  <2>4. RepositoryOf(found, name) = found[name].tal
    BY <1>9, <2>2, <2>3 DEF RepositoryOf
  <2> QED
    BY <1>7, <1>9, <2>1, <2>4
<1>10. ASSUME NEW name \in DOMAIN found, found[name].tal = 0
       PROVE  /\ \E i \in DOMAIN fresh : TalOf(found)[name] = Len(tals) + i /\ fresh[i] = name
              /\ RepositoryOf(found, name) = TalOf(found)[name]
  <2>1. name \in Untalled(found)
    BY <1>10 DEF Untalled
  <2>2. TalOf(found)[name] = Len(tals) + PlaceOf(name, fresh)
    BY <1>7, <1>10
  <2>3. RepositoryOf(found, name) = Len(repositories) + PlaceOf(name, fresh)
    BY <1>10 DEF RepositoryOf, fresh
  <2> QED
    BY <1>4, <1>8, <2>1, <2>2, <2>3
<1>11. ASSUME NEW name \in DOMAIN found, found[name].object # 0
       PROVE  /\ ObjectOf(found)[name] = found[name].object /\ found[name].object \in DOMAIN objects
              /\ objects[found[name].object].repository = TalOf(found)[name]
  <2>1. /\ found[name].tal # 0 /\ found[name].object \in DOMAIN objects
        /\ objects[found[name].object].repository = found[name].tal
    BY <1>1, <1>11 DEF MetFor
  <2> QED
    BY <1>7, <1>9, <1>11, <2>1
<1>12. ASSUME NEW name \in DOMAIN found, found[name].object = 0
       PROVE  \E i \in DOMAIN bare : ObjectOf(found)[name] = Len(objects) + i /\ bare[i] = name
  <2>1. name \in Unheld(found)
    BY <1>12 DEF Unheld
  <2>2. ObjectOf(found)[name] = Len(objects) + PlaceOf(name, bare)
    BY <1>7, <1>12
  <2> QED
    BY <1>5, <2>1, <2>2
<1>13. Len(fresh) \in Nat /\ Len(bare) \in Nat
  BY <1>3
<1> QED
  BY <1>7, <1>9, <1>10, <1>11, <1>12, <1>13 DEF fresh, bare

(* The tables after the commit.                                            *)
Committed(found) ==
  /\ tals' = [t \in DOMAIN tals |->
                IF \E name \in DOMAIN found : found[name].tal = t
                THEN [tals[t] EXCEPT !.status = "active"] ELSE tals[t]]
             \o [i \in DOMAIN FreshTals(found) |->
                   [name |-> FreshTals(found)[i], status |-> "active", own |-> TRUE]]
  /\ repositories' = repositories \o [i \in DOMAIN FreshTals(found) |->
       [tal |-> TalOf(found)[FreshTals(found)[i]], protocol |-> "rrdp", sync |-> "success",
        synced |-> found[FreshTals(found)[i]].at]]
  /\ objects' = objects \o [i \in DOMAIN BareTals(found) |->
       [repository |-> RepositoryOf(found, BareTals(found)[i]), type |-> "roa", own |-> TRUE]]
  /\ tick' = tick

(* The rows of u, and after them those of w.                               *)
Following(u, w, v) ==
  /\ Len(v) = Len(u) + Len(w) /\ Len(u) \in Nat
  /\ \A i \in DOMAIN u : i \in DOMAIN v /\ v[i] = u[i]
  /\ \A i \in DOMAIN w : Len(u) + i \in DOMAIN v /\ v[Len(u) + i] = w[i]
  /\ \A i \in DOMAIN v : i \in DOMAIN u \/ \E j \in DOMAIN w : i = Len(u) + j

LEMMA RowsJoined ==
  ASSUME NEW A, NEW u \in Seq(A), NEW w \in Seq(A)
  PROVE  u \o w \in Seq(A) /\ Following(u, w, u \o w)
<1> DEFINE a == Len(u)
           b == Len(w)
           v == u \o w
<1>1. a \in Nat /\ b \in Nat /\ DOMAIN u = 1 .. a /\ DOMAIN w = 1 .. b
  OBVIOUS
<1>2. v \in Seq(A) /\ Len(v) = a + b /\ \A i \in 1 .. a + b : v[i] = IF i <= a THEN u[i] ELSE w[i - a]
  BY JoinIs
<1>3. DOMAIN v = 1 .. a + b
  BY <1>2
<1> HIDE DEF a, b, v
<1>4. \A i \in 1 .. a : i \in 1 .. a + b /\ i <= a
  BY <1>1
<1>5. \A i \in 1 .. b : a + i \in 1 .. a + b /\ ~(a + i <= a) /\ (a + i) - a = i
  BY <1>1
<1>6. ASSUME NEW i \in 1 .. a + b PROVE i \in 1 .. a \/ \E j \in 1 .. b : i = a + j
  <2>1. CASE i <= a
    BY <1>1, <2>1
  <2>2. CASE ~(i <= a)
    <3>1. i - a \in 1 .. b /\ i = a + (i - a)
      BY <1>1, <2>2
    <3> QED
      BY <3>1
  <2> QED
    BY <2>1, <2>2
<1>7. \A i \in DOMAIN w : a + i \in DOMAIN v /\ v[a + i] = w[i]
  BY <1>1, <1>2, <1>3, <1>5
<1>8. \A i \in DOMAIN u : i \in DOMAIN v /\ v[i] = u[i]
  BY <1>1, <1>2, <1>3, <1>4
<1> QED
  BY <1>1, <1>2, <1>3, <1>6, <1>7, <1>8 DEF a, v, b, Following

LEMMA CommittedTals ==
  ASSUME RowsTyped, NEW found, FoundRight(found), Committed(found)
  PROVE  /\ tals' \in Seq(TalRows) /\ Len(tals') = Len(tals) + Len(FreshTals(found)) /\ Len(tals) \in Nat
         /\ \A t \in DOMAIN tals : t \in DOMAIN tals' /\ tals'[t].name = tals[t].name /\ tals'[t].own = tals[t].own
         /\ \A i \in DOMAIN FreshTals(found) :
              Len(tals) + i \in DOMAIN tals' /\ tals'[Len(tals) + i].name = FreshTals(found)[i]
         /\ \A t \in DOMAIN tals' : t \in DOMAIN tals \/ \E i \in DOMAIN FreshTals(found) : t = Len(tals) + i
<1> DEFINE fresh == FreshTals(found)
           u == [t \in DOMAIN tals |->
                  IF \E name \in DOMAIN found : found[name].tal = t
                  THEN [tals[t] EXCEPT !.status = "active"] ELSE tals[t]]
           w == [i \in DOMAIN fresh |-> [name |-> fresh[i], status |-> "active", own |-> TRUE]]
<1>1. tals \in Seq(TalRows) /\ DOMAIN tals = 1 .. Len(tals) /\ Len(tals) \in Nat
  BY DEF RowsTyped
<1>2. tals' = u \o w
  BY DEF Committed
<1>3. fresh \in Seq(ToSet(TalSources))
  BY FreshAre, NamesInAre DEF FoundRight
<1> HIDE DEF fresh
<1>4. DOMAIN fresh = 1 .. Len(fresh) /\ Len(fresh) \in Nat /\ \A i \in DOMAIN fresh : fresh[i] \in ToSet(TalSources)
  BY <1>3
<1>5. ASSUME NEW t \in DOMAIN tals
      PROVE u[t] \in TalRows /\ u[t].name = tals[t].name /\ u[t].own = tals[t].own
  <2>1. PICK row \in TalRows : row = tals[t]
    BY <1>1
  <2>2. /\ [row EXCEPT !.status = "active"] \in TalRows /\ [row EXCEPT !.status = "active"].name = row.name
        /\ [row EXCEPT !.status = "active"].own = row.own
    BY DEF TalRows
  <2> QED
    BY <2>1, <2>2
<1>6. u \in Seq(TalRows) /\ Len(u) = Len(tals) /\ DOMAIN u = DOMAIN tals
  <2>1. DOMAIN u = DOMAIN tals
    OBVIOUS
  <2> HIDE DEF u
  <2>3. u = [t \in 1 .. Len(tals) |-> u[t]]
    BY <1>1, <2>1 DEF u
  <2>2. u \in [1 .. Len(tals) -> TalRows]
    BY <1>1, <1>5, <2>3
  <2> QED
    BY <1>1, <2>2
<1>7. \A i \in DOMAIN fresh : w[i] \in TalRows /\ w[i].name = fresh[i] /\ w[i].own = TRUE
  BY <1>4 DEF TalRows
<1>8. w \in Seq(TalRows) /\ Len(w) = Len(fresh) /\ DOMAIN w = DOMAIN fresh
  <2>2. w \in [1 .. Len(fresh) -> TalRows]
    BY <1>4, <1>7
  <2> QED
    BY <1>4, <2>2
<1> HIDE DEF u, w
<1>9. /\ u \o w \in Seq(TalRows) /\ Len(u \o w) = Len(u) + Len(w)
      /\ \A i \in DOMAIN u : i \in DOMAIN (u \o w) /\ (u \o w)[i] = u[i]
      /\ \A i \in DOMAIN w : Len(u) + i \in DOMAIN (u \o w) /\ (u \o w)[Len(u) + i] = w[i]
      /\ \A i \in DOMAIN (u \o w) : i \in DOMAIN u \/ \E j \in DOMAIN w : i = Len(u) + j
  <2>1. u \in Seq(TalRows)
    BY <1>6
  <2>2. w \in Seq(TalRows)
    BY <1>8
  <2>3. u \o w \in Seq(TalRows) /\ Following(u, w, u \o w)
    BY <2>1, <2>2, RowsJoined
  <2> QED
    BY <2>3 DEF Following
<1> QED
  BY <1>1, <1>2, <1>5, <1>6, <1>7, <1>8, <1>9 DEF fresh

LEMMA CommittedRepositories ==
  ASSUME RowsTyped, NEW found, FoundRight(found), Committed(found)
  PROVE  /\ repositories' \in Seq(RepositoryRows)
         /\ Len(repositories') = Len(repositories) + Len(FreshTals(found))
         /\ \A r \in DOMAIN repositories' : repositories'[r].tal = r
<1> DEFINE fresh == FreshTals(found)
           w == [i \in DOMAIN fresh |-> [tal |-> TalOf(found)[fresh[i]], protocol |-> "rrdp", sync |-> "success",
                                         synced |-> found[fresh[i]].at]]
<1>1. /\ repositories \in Seq(RepositoryRows) /\ Len(repositories) = Len(tals) /\ Len(tals) \in Nat
      /\ \A r \in DOMAIN repositories : repositories[r].tal = r
  BY DEF RowsTyped
<1>2. repositories' = repositories \o w
  BY DEF Committed
<1>3. /\ fresh = NamesIn(Untalled(found)) /\ Untalled(found) \in SUBSET ToSet(TalSources)
  BY FreshAre DEF FoundRight
<1>4. fresh \in Seq(ToSet(TalSources))
      /\ \A i \in DOMAIN fresh : fresh[i] \in Untalled(found) /\ PlaceOf(fresh[i], fresh) = i
  BY <1>3, NamesInAre
<1> HIDE DEF fresh
<1>5. DOMAIN fresh = 1 .. Len(fresh) /\ Len(fresh) \in Nat
  BY <1>4
<1>6. ASSUME NEW i \in DOMAIN fresh
      PROVE  TalOf(found)[fresh[i]] = Len(tals) + i /\ found[fresh[i]].at \in Nat
  <2>1. fresh[i] \in DOMAIN found /\ found[fresh[i]].tal = 0
    BY <1>4 DEF Untalled
  <2>2. TalOf(found)[fresh[i]] = Len(tals) + PlaceOf(fresh[i], fresh)
    BY <2>1 DEF TalOf, fresh
  <2>3. found[fresh[i]] \in FoundRows
    BY <2>1 DEF FoundRight, MetFor
  <2> QED
    BY <1>4, <2>2, <2>3 DEF FoundRows
<1>7. \A i \in DOMAIN fresh : w[i] \in RepositoryRows /\ w[i].tal = Len(tals) + i
  <2> SUFFICES ASSUME NEW i \in DOMAIN fresh PROVE w[i] \in RepositoryRows /\ w[i].tal = Len(tals) + i
    OBVIOUS
  <2>1. Len(tals) + i \in Nat /\ found[fresh[i]].at \in Int
    BY <1>1, <1>5, <1>6
  <2>2. w[i] = [tal |-> Len(tals) + i, protocol |-> "rrdp", sync |-> "success", synced |-> found[fresh[i]].at]
    BY <1>6
  <2> QED
    BY <2>1, <2>2 DEF RepositoryRows
<1>8. w \in Seq(RepositoryRows) /\ Len(w) = Len(fresh) /\ DOMAIN w = DOMAIN fresh
  <2>1. DOMAIN w = DOMAIN fresh
    OBVIOUS
  <2>2. w \in [1 .. Len(fresh) -> RepositoryRows]
    BY <1>5, <1>7
  <2> QED
    BY <1>5, <2>1, <2>2
<1> HIDE DEF w
<1>9. /\ repositories' \in Seq(RepositoryRows) /\ Len(repositories') = Len(repositories) + Len(w)
      /\ \A i \in DOMAIN repositories : repositories'[i] = repositories[i]
      /\ \A i \in DOMAIN w : repositories'[Len(repositories) + i] = w[i]
      /\ \A i \in DOMAIN repositories' : i \in DOMAIN repositories \/ \E j \in DOMAIN w : i = Len(repositories) + j
  <2>1. repositories \in Seq(RepositoryRows)
    BY <1>1
  <2>2. w \in Seq(RepositoryRows)
    BY <1>8
  <2>3. repositories \o w \in Seq(RepositoryRows) /\ Following(repositories, w, repositories \o w)
    BY <2>1, <2>2, RowsJoined
  <2>4. repositories' \in Seq(RepositoryRows) /\ Following(repositories, w, repositories')
    BY <1>2, <2>3
  <2> QED
    BY <2>4 DEF Following
<1> QED
  BY <1>1, <1>7, <1>8, <1>9 DEF fresh

LEMMA CommittedObjects ==
  ASSUME RowsTyped, NEW found, FoundRight(found), Committed(found)
  PROVE  /\ objects' \in Seq(ObjectRows) /\ Len(objects) \in Nat
         /\ \A o \in DOMAIN objects :
              o \in DOMAIN objects' /\ objects'[o].repository = objects[o].repository /\ objects'[o].own = objects[o].own
         /\ \A i \in DOMAIN BareTals(found) :
              Len(objects) + i \in DOMAIN objects' /\ objects'[Len(objects) + i].repository = TalOf(found)[BareTals(found)[i]]
         /\ \A o \in DOMAIN objects' : o \in DOMAIN objects \/ \E i \in DOMAIN BareTals(found) : o = Len(objects) + i
         /\ \A name \in DOMAIN found : TalOf(found)[name] \in Nat /\ ObjectOf(found)[name] \in Nat
<1> DEFINE bare == BareTals(found)
           w == [i \in DOMAIN bare |-> [repository |-> RepositoryOf(found, bare[i]), type |-> "roa", own |-> TRUE]]
<1>1. objects \in Seq(ObjectRows) /\ Len(objects) \in Nat /\ tals \in Seq(TalRows) /\ Len(tals) \in Nat
      /\ DOMAIN objects = 1 .. Len(objects) /\ DOMAIN tals = 1 .. Len(tals)
  BY DEF RowsTyped
<1>2. objects' = objects \o w
  BY DEF Committed
<1>3. /\ bare = NamesIn(Unheld(found)) /\ FreshTals(found) = NamesIn(Untalled(found))
      /\ Unheld(found) \in SUBSET ToSet(TalSources) /\ Untalled(found) \in SUBSET ToSet(TalSources)
  BY FreshAre DEF FoundRight
<1>4. bare \in Seq(ToSet(TalSources)) /\ \A i \in DOMAIN bare : bare[i] \in Unheld(found)
  BY <1>3, NamesInAre
<1>5. FreshTals(found) \in Seq(ToSet(TalSources))
  BY <1>3, NamesInAre
<1> HIDE DEF bare
<1>6. DOMAIN bare = 1 .. Len(bare) /\ Len(bare) \in Nat
  BY <1>4
<1>7. ASSUME NEW name \in DOMAIN found
      PROVE  TalOf(found)[name] \in Nat /\ ObjectOf(found)[name] \in Nat /\ RepositoryOf(found, name) = TalOf(found)[name]
  <2>1. DOMAIN FreshTals(found) = 1 .. Len(FreshTals(found))
    BY <1>5
  <2>2. TalOf(found)[name] \in Nat
    <3>1. CASE found[name].tal # 0
      <4>1. TalOf(found)[name] \in DOMAIN tals
        BY <3>1, TalOfIs
      <4> QED
        BY <1>1, <4>1
    <3>2. CASE found[name].tal = 0
      <4>1. PICK i \in DOMAIN FreshTals(found) : TalOf(found)[name] = Len(tals) + i
        BY <3>2, TalOfIs
      <4> QED
        BY <1>1, <2>1, <4>1
    <3> QED
      BY <3>1, <3>2
  <2>3. ObjectOf(found)[name] \in Nat
    <3>1. CASE found[name].object # 0
      <4>1. ObjectOf(found)[name] \in DOMAIN objects
        BY <3>1, TalOfIs
      <4> QED
        BY <1>1, <4>1
    <3>2. CASE found[name].object = 0
      <4>1. PICK i \in DOMAIN bare : ObjectOf(found)[name] = Len(objects) + i
        BY <3>2, TalOfIs DEF bare
      <4> QED
        BY <1>1, <1>6, <4>1
    <3> QED
      BY <3>1, <3>2
  <2>4. RepositoryOf(found, name) = TalOf(found)[name]
    BY TalOfIs
  <2> QED
    BY <2>2, <2>3, <2>4
<1>8. \A i \in DOMAIN bare : w[i] \in ObjectRows /\ w[i].repository = TalOf(found)[bare[i]]
  <2> SUFFICES ASSUME NEW i \in DOMAIN bare PROVE w[i] \in ObjectRows /\ w[i].repository = TalOf(found)[bare[i]]
    OBVIOUS
  <2>1. bare[i] \in DOMAIN found
    BY <1>4 DEF Unheld
  <2>2. w[i] = [repository |-> TalOf(found)[bare[i]], type |-> "roa", own |-> TRUE] /\ TalOf(found)[bare[i]] \in Nat
    BY <1>7, <2>1
  <2> QED
    BY <2>2 DEF ObjectRows
<1>9. w \in Seq(ObjectRows) /\ Len(w) = Len(bare) /\ DOMAIN w = DOMAIN bare
  <2>1. DOMAIN w = DOMAIN bare
    OBVIOUS
  <2>2. w \in [1 .. Len(bare) -> ObjectRows]
    BY <1>6, <1>8
  <2> QED
    BY <1>6, <2>1, <2>2
<1> HIDE DEF w
<1>10. /\ objects' \in Seq(ObjectRows)
       /\ \A i \in DOMAIN objects : i \in DOMAIN objects' /\ objects'[i] = objects[i]
       /\ \A i \in DOMAIN w : Len(objects) + i \in DOMAIN objects' /\ objects'[Len(objects) + i] = w[i]
       /\ \A i \in DOMAIN objects' : i \in DOMAIN objects \/ \E j \in DOMAIN w : i = Len(objects) + j
  <2>1. objects \in Seq(ObjectRows)
    BY <1>1
  <2>2. w \in Seq(ObjectRows)
    BY <1>9
  <2>3. objects \o w \in Seq(ObjectRows) /\ Following(objects, w, objects \o w)
    BY <2>1, <2>2, RowsJoined
  <2>4. objects' \in Seq(ObjectRows) /\ Following(objects, w, objects')
    BY <1>2, <2>3
  <2> QED
    BY <2>4 DEF Following
<1> QED
  BY <1>1, <1>7, <1>8, <1>9, <1>10 DEF bare

(* After the commit each trust anchor and each object that a collection    *)
(* found is in its table, under its own name.                              *)
LEMMA CommittedRows ==
  ASSUME RowsTyped, NEW found, FoundRight(found), Committed(found), NEW name \in DOMAIN found
  PROVE  /\ TalOf(found)[name] \in DOMAIN tals' /\ tals'[TalOf(found)[name]].name = name
         /\ ObjectOf(found)[name] \in DOMAIN objects'
         /\ objects'[ObjectOf(found)[name]].repository = TalOf(found)[name]
<1>1. TalOf(found)[name] \in DOMAIN tals' /\ tals'[TalOf(found)[name]].name = name
  <2>1. CASE found[name].tal # 0
    <3>1. PICK t \in DOMAIN tals : t = TalOf(found)[name] /\ tals[t].name = name
      BY <2>1, TalOfIs
    <3>2. t \in DOMAIN tals' /\ tals'[t].name = tals[t].name
      BY CommittedTals
    <3> QED
      BY <3>1, <3>2
  <2>2. CASE found[name].tal = 0
    <3>1. PICK i \in DOMAIN FreshTals(found) : TalOf(found)[name] = Len(tals) + i /\ FreshTals(found)[i] = name
      BY <2>2, TalOfIs
    <3>2. Len(tals) + i \in DOMAIN tals' /\ tals'[Len(tals) + i].name = FreshTals(found)[i]
      BY CommittedTals
    <3> QED
      BY <3>1, <3>2
  <2> QED
    BY <2>1, <2>2
<1>2. ObjectOf(found)[name] \in DOMAIN objects' /\ objects'[ObjectOf(found)[name]].repository = TalOf(found)[name]
  <2>1. CASE found[name].object # 0
    <3>1. PICK o \in DOMAIN objects : o = ObjectOf(found)[name] /\ objects[o].repository = TalOf(found)[name]
      BY <2>1, TalOfIs
    <3>2. o \in DOMAIN objects' /\ objects'[o].repository = objects[o].repository
      BY CommittedObjects
    <3> QED
      BY <3>1, <3>2
  <2>2. CASE found[name].object = 0
    <3>1. PICK i \in DOMAIN BareTals(found) : ObjectOf(found)[name] = Len(objects) + i /\ BareTals(found)[i] = name
      BY <2>2, TalOfIs
    <3>2. Len(objects) + i \in DOMAIN objects'
          /\ objects'[Len(objects) + i].repository = TalOf(found)[BareTals(found)[i]]
      BY CommittedObjects
    <3> QED
      BY <3>1, <3>2
  <2> QED
    BY <2>1, <2>2
<1> QED
  BY <1>1, <1>2

LEMMA CommittedTyped ==
  ASSUME RowsTyped, NEW found, FoundRight(found), Committed(found)
  PROVE  RowsTyped'
<1>1. tick' \in Nat /\ tals' \in Seq(TalRows) /\ Len(tals') = Len(tals) + Len(FreshTals(found))
  BY CommittedTals DEF RowsTyped, Committed
<1>2. /\ repositories' \in Seq(RepositoryRows) /\ Len(repositories') = Len(repositories) + Len(FreshTals(found))
      /\ \A r \in DOMAIN repositories' : repositories'[r].tal = r
  BY CommittedRepositories
<1>3. /\ Len(repositories) = Len(tals) /\ tals \in Seq(TalRows)
      /\ \A o \in DOMAIN objects : objects[o].repository \in DOMAIN repositories
      /\ repositories \in Seq(RepositoryRows)
  BY DEF RowsTyped
<1>4. DOMAIN repositories' = DOMAIN tals' /\ DOMAIN repositories = DOMAIN tals /\ Len(repositories') = Len(tals')
  BY <1>1, <1>2, <1>3
<1>5. objects' \in Seq(ObjectRows)
  BY CommittedObjects
<1>6. ASSUME NEW o \in DOMAIN objects' PROVE objects'[o].repository \in DOMAIN repositories'
  <2>1. CASE o \in DOMAIN objects
    <3>1. objects'[o].repository = objects[o].repository /\ objects[o].repository \in DOMAIN tals
      BY <1>3, <1>4, <2>1, CommittedObjects
    <3>2. objects[o].repository \in DOMAIN tals'
      BY <3>1, CommittedTals
    <3> QED
      BY <1>4, <3>1, <3>2
  <2>2. CASE o \notin DOMAIN objects
    <3>1. PICK i \in DOMAIN BareTals(found) : o = Len(objects) + i
      BY <2>2, CommittedObjects
    <3>2. objects'[o].repository = TalOf(found)[BareTals(found)[i]]
      BY <3>1, CommittedObjects
    <3>3. BareTals(found)[i] \in DOMAIN found
      <4>1. BareTals(found) = NamesIn(Unheld(found)) /\ Unheld(found) \in SUBSET ToSet(TalSources)
        BY FreshAre DEF FoundRight
      <4>2. BareTals(found)[i] \in Unheld(found)
        BY <4>1, NamesInAre
      <4> QED
        BY <4>2 DEF Unheld
    <3>4. TalOf(found)[BareTals(found)[i]] \in DOMAIN tals'
      BY <3>3, CommittedRows
    <3> QED
      BY <1>4, <3>2, <3>4
  <2> QED
    BY <2>1, <2>2
<1> QED
  BY <1>1, <1>2, <1>4, <1>5, <1>6 DEF RowsTyped

LEMMA CommittedAlone ==
  ASSUME RowsTyped, NoOwnDuplicates, NEW found, FoundRight(found), Committed(found)
  PROVE  NoOwnDuplicates'
<1> DEFINE fresh == FreshTals(found)
           bare == BareTals(found)
<1>1. /\ Len(tals) \in Nat /\ \A t \in DOMAIN tals : tals'[t].name = tals[t].name /\ tals'[t].own = tals[t].own
      /\ \A i \in DOMAIN fresh : tals'[Len(tals) + i].name = fresh[i]
      /\ \A t \in DOMAIN tals' : t \in DOMAIN tals \/ \E i \in DOMAIN fresh : t = Len(tals) + i
  BY CommittedTals
<1>2. /\ \A o \in DOMAIN objects :
           objects'[o].repository = objects[o].repository /\ objects'[o].own = objects[o].own
      /\ \A i \in DOMAIN bare : objects'[Len(objects) + i].repository = TalOf(found)[bare[i]]
      /\ \A o \in DOMAIN objects' : o \in DOMAIN objects \/ \E i \in DOMAIN bare : o = Len(objects) + i
  BY CommittedObjects
<1>3. /\ fresh = NamesIn(Untalled(found)) /\ bare = NamesIn(Unheld(found))
      /\ Untalled(found) \in SUBSET ToSet(TalSources) /\ Unheld(found) \in SUBSET ToSet(TalSources)
  BY FreshAre DEF FoundRight
<1>4. \A i \in DOMAIN fresh : fresh[i] \in Untalled(found) /\ PlaceOf(fresh[i], fresh) = i
  BY <1>3, NamesInAre
<1>5. \A i \in DOMAIN bare : bare[i] \in Unheld(found) /\ PlaceOf(bare[i], bare) = i
  BY <1>3, NamesInAre
<1>6. \A name \in DOMAIN found : MetFor(name, found[name])
  BY DEF FoundRight
<1>7. DOMAIN repositories = DOMAIN tals /\ DOMAIN tals = 1 .. Len(tals)
      /\ \A o \in DOMAIN objects : objects[o].repository \in DOMAIN tals
  BY DEF RowsTyped
<1>8. \A i \in DOMAIN fresh : i \in Nat \ {0}
  <2>1. fresh \in Seq(ToSet(TalSources))
    BY <1>3, NamesInAre
  <2> HIDE DEF fresh
  <2> QED
    BY <2>1
<1>9. \A name \in DOMAIN found : tals'[TalOf(found)[name]].name = name
  BY CommittedRows
<1> HIDE DEF fresh, bare
<1>10. ASSUME NEW t \in DOMAIN tals, NEW i \in DOMAIN fresh, tals'[t].own
       PROVE  tals'[t].name # tals'[Len(tals) + i].name
  <2>1. fresh[i] \in DOMAIN found /\ found[fresh[i]].tal = 0
    BY <1>4 DEF Untalled
  <2>2. tals[t].own => tals[t].name # fresh[i]
    BY <1>6, <2>1 DEF MetFor
  <2> QED
    BY <1>1, <1>10, <2>2
<1>11. ASSUME NEW t \in DOMAIN tals', NEW u \in DOMAIN tals', t # u, tals'[t].own, tals'[u].own
       PROVE  tals'[t].name # tals'[u].name
  <2>1. CASE t \in DOMAIN tals /\ u \in DOMAIN tals
    BY <1>1, <1>11, <2>1 DEF NoOwnDuplicates
  <2>2. CASE t \in DOMAIN tals /\ u \notin DOMAIN tals
    BY <1>1, <1>10, <1>11, <2>2
  <2>3. CASE t \notin DOMAIN tals /\ u \in DOMAIN tals
    BY <1>1, <1>10, <1>11, <2>3
  <2>4. CASE t \notin DOMAIN tals /\ u \notin DOMAIN tals
    <3>1. PICK i \in DOMAIN fresh, j \in DOMAIN fresh : t = Len(tals) + i /\ u = Len(tals) + j
      BY <1>1, <2>4
    <3>2. fresh[i] # fresh[j]
      BY <1>4, <1>11, <3>1
    <3> QED
      BY <1>1, <3>1, <3>2
  <2> QED
    BY <2>1, <2>2, <2>3, <2>4
<1>12. ASSUME NEW o \in DOMAIN objects, NEW i \in DOMAIN bare, objects'[o].own
       PROVE  objects'[o].repository # objects'[Len(objects) + i].repository
  <2>1. bare[i] \in DOMAIN found /\ found[bare[i]].object = 0
    BY <1>5 DEF Unheld
  <2>2. objects'[o].repository = objects[o].repository /\ objects[o].own /\ objects[o].repository \in DOMAIN tals
    BY <1>2, <1>7, <1>12
  <2>3. objects'[Len(objects) + i].repository = TalOf(found)[bare[i]]
    BY <1>2
  <2>4. CASE found[bare[i]].tal # 0
    <3>1. TalOf(found)[bare[i]] = found[bare[i]].tal
      BY <2>1, <2>4, TalOfIs
    <3>2. \A p \in DOMAIN objects : objects[p].own => objects[p].repository # found[bare[i]].tal
      BY <1>6, <2>1, <2>4 DEF MetFor
    <3> QED
      BY <2>2, <2>3, <3>1, <3>2
  <2>5. CASE found[bare[i]].tal = 0
    <3>1. PICK j \in DOMAIN fresh : TalOf(found)[bare[i]] = Len(tals) + j
      BY <2>1, <2>5, TalOfIs DEF fresh
    <3>2. Len(tals) + j \notin DOMAIN tals
      <4>1. j \in Nat /\ j # 0
        BY <1>8
      <4> QED
        BY <1>1, <1>7, <4>1
    <3> QED
      BY <2>2, <2>3, <3>1, <3>2
  <2> QED
    BY <2>4, <2>5
<1>13. ASSUME NEW o \in DOMAIN objects', NEW p \in DOMAIN objects', o # p, objects'[o].own, objects'[p].own
       PROVE  objects'[o].repository # objects'[p].repository
  <2>1. CASE o \in DOMAIN objects /\ p \in DOMAIN objects
    BY <1>2, <1>13, <2>1 DEF NoOwnDuplicates
  <2>2. CASE o \in DOMAIN objects /\ p \notin DOMAIN objects
    BY <1>2, <1>12, <1>13, <2>2
  <2>3. CASE o \notin DOMAIN objects /\ p \in DOMAIN objects
    BY <1>2, <1>12, <1>13, <2>3
  <2>4. CASE o \notin DOMAIN objects /\ p \notin DOMAIN objects
    <3>1. PICK i \in DOMAIN bare, j \in DOMAIN bare : o = Len(objects) + i /\ p = Len(objects) + j
      BY <1>2, <2>4
    <3>2. bare[i] # bare[j] /\ bare[i] \in DOMAIN found /\ bare[j] \in DOMAIN found
      BY <1>5, <1>13, <3>1 DEF Unheld
    <3>3. TalOf(found)[bare[i]] # TalOf(found)[bare[j]]
      BY <1>9, <3>2
    <3> QED
      BY <1>2, <3>1, <3>3
  <2> QED
    BY <2>1, <2>2, <2>3, <2>4
<1> QED
  BY <1>11, <1>13 DEF NoOwnDuplicates

LEMMA NamesOfAre ==
  ASSUME RowsTyped, NEW found, FoundRight(found), Committed(found), NEW name \in DOMAIN found
  PROVE  NamesOf(found)[TalOf(found)[name]] = name
<1> DEFINE t == TalOf(found)[name]
           fits(n) == n \in DOMAIN found /\ TalOf(found)[n] = t
<1>1. \A n \in DOMAIN found : tals'[TalOf(found)[n]].name = n
  BY CommittedRows
<1>2. t \in {TalOf(found)[n] : n \in DOMAIN found}
  OBVIOUS
<1>3. NamesOf(found)[t] = CHOOSE n \in DOMAIN found : TalOf(found)[n] = t
  BY <1>2 DEF NamesOf
<1>4. \A n \in DOMAIN found : TalOf(found)[n] = t => n = name
  BY <1>1
<1>5. (CHOOSE n \in DOMAIN found : TalOf(found)[n] = t) = name
  BY <1>4
<1> QED
  BY <1>3, <1>5

LEMMA CommitStores ==
  ASSUME RowsTyped, NEW found, FoundRight(found), Committed(found), NEW routed, NEW answered,
         NEW roas, roas = CollectRoas(answered, DOMAIN found, TalOf(found), ObjectOf(found)),
         NEW routes, routes = CollectRoutes(routed),
         collected' = [roas |-> roas, vrps |-> DeriveVrps(roas, NamesOf(found)),
                       announcements |-> [i \in DOMAIN routes |-> Judged(routes[i], roas)]]
  PROVE  StoredRight' /\ CollectionsWhole'
<1> DEFINE under == RoasUnder(DOMAIN found, TalOf(found), ObjectOf(found))
           vrps == DeriveVrps(roas, NamesOf(found))
           judged == [i \in DOMAIN routes |-> Judged(routes[i], roas)]
<1>1. DOMAIN found \in SUBSET ToSet(TalSources) /\ \A name \in DOMAIN found : TalOf(found)[name] \in Nat /\ ObjectOf(found)[name] \in Nat
  BY CommittedObjects DEF FoundRight
<1>2. roas \in Seq(under)
  BY <1>1, CollectRoasAre
<1>3. \A x \in under : x \in RoaRows /\ \E name \in DOMAIN found : x.tal = TalOf(found)[name] /\ x.object = ObjectOf(found)[name]
  BY DEF RoasUnder
<1> HIDE DEF under
<1>4. roas \in Seq(RoaRows) /\ \A i \in DOMAIN roas : roas[i] \in under
  BY <1>2, <1>3
<1>5. routes \in Seq(Routes)
  BY CollectRoutesAre
<1>6. /\ collected'.roas = roas /\ collected'.vrps = vrps /\ collected'.announcements = judged
  OBVIOUS
<1>7. RowsTyped'
  BY CommittedTyped
<1>8. (\A r \in DOMAIN repositories : repositories[r].tal = r)' /\ (\A o \in DOMAIN objects : objects[o].repository \in DOMAIN repositories)'
  BY <1>7 DEF RowsTyped
<1>9. ASSUME NEW i \in DOMAIN roas
      PROVE  /\ roas[i].tal \in DOMAIN tals' /\ roas[i].object \in DOMAIN objects'
             /\ objects'[roas[i].object].repository = roas[i].tal
             /\ repositories'[objects'[roas[i].object].repository].tal = roas[i].tal
             /\ vrps[i].roa = i /\ vrps[i].prefix = roas[i].prefix
             /\ vrps[i].origin = roas[i].origin /\ vrps[i].max = roas[i].max
             /\ vrps[i].anchor = tals'[roas[i].tal].name
  <2>1. PICK name \in DOMAIN found : roas[i].tal = TalOf(found)[name] /\ roas[i].object = ObjectOf(found)[name]
    BY <1>3, <1>4
  <2>2. /\ TalOf(found)[name] \in DOMAIN tals' /\ tals'[TalOf(found)[name]].name = name
        /\ ObjectOf(found)[name] \in DOMAIN objects'
        /\ objects'[ObjectOf(found)[name]].repository = TalOf(found)[name]
    BY CommittedRows
  <2>3. NamesOf(found)[TalOf(found)[name]] = name
    BY NamesOfAre
  <2>4. vrps[i] = [prefix |-> roas[i].prefix, origin |-> roas[i].origin, max |-> roas[i].max,
                   roa |-> i, anchor |-> NamesOf(found)[roas[i].tal]]
    BY DEF DeriveVrps
  <2> HIDE DEF vrps
  <2> QED
    BY <1>8, <2>1, <2>2, <2>3, <2>4
<1>10. DOMAIN vrps = DOMAIN roas /\ DOMAIN judged = DOMAIN routes
  BY DEF DeriveVrps
<1>11. ASSUME NEW i \in DOMAIN judged
       PROVE  judged[i].status = ComputedStatus(judged[i].prefix, judged[i].origin, CanonicalRoas(roas))
  <2>1. PICK route : route = routes[i]
    OBVIOUS
  <2>2. route.prefix \in Spelt
    <3>1. i \in DOMAIN routes
      BY <1>10
    <3>2. routes[i] \in Routes
      BY <1>5, <3>1
    <3> QED
      BY <2>1, <3>2 DEF Routes
  <2>3. judged[i] = Judged(route, roas)
    BY <1>10, <2>1
  <2>4. /\ Judged(route, roas).prefix = route.prefix /\ Judged(route, roas).origin = route.origin
        /\ Judged(route, roas).status = ComputedStatus(route.prefix, route.origin, CanonicalRoas(roas))
    BY <1>4, <2>2, JudgedStatus
  <2> HIDE DEF judged
  <2> QED
    BY <2>3, <2>4
<1> HIDE DEF vrps, judged
<1>12. StoredRight'
  BY <1>4, <1>6, <1>9 DEF StoredRight
<1>13. CollectionsWhole'
  <2>1. PICK c : c = collected'
    OBVIOUS
  <2>2. c.roas = roas /\ c.vrps = vrps /\ c.announcements = judged
    BY <1>6, <2>1
  <2>3. /\ DOMAIN c.vrps = DOMAIN c.roas
        /\ \A i \in DOMAIN c.roas :
             /\ c.vrps[i].roa = i /\ c.vrps[i].prefix = c.roas[i].prefix
             /\ c.vrps[i].origin = c.roas[i].origin /\ c.vrps[i].max = c.roas[i].max
             /\ c.vrps[i].anchor = tals'[c.roas[i].tal].name
             /\ repositories'[objects'[c.roas[i].object].repository].tal = c.roas[i].tal
    BY <1>9, <1>10, <2>2
  <2>4. \A i \in DOMAIN c.announcements :
          c.announcements[i].status = ComputedStatus(c.announcements[i].prefix, c.announcements[i].origin, CanonicalRoas(c.roas))
    BY <1>11, <2>2
  <2> QED
    BY <2>1, <2>3, <2>4 DEF CollectionsWhole
<1> QED
  BY <1>12, <1>13

LEMMA CommitCollectionInv ==
  ASSUME CollectionInv, NEW routesFrom, NEW roasFrom, CommitCollection(routesFrom, roasFrom)
  PROVE  CollectionInv'
<1>1. PICK found : found = collection[1]
  OBVIOUS
<1> DEFINE routed == {a \in DOMAIN RoutesOf : Answered(routesFrom[a])}
           answered == {a \in DOMAIN RoasOf : Answered(roasFrom[a])}
           roas == CollectRoas(answered, DOMAIN found, TalOf(found), ObjectOf(found))
           routes == CollectRoutes(routed)
<1>2. /\ collection # <<>> /\ collection' = <<>>
      /\ collected' = [roas |-> roas, vrps |-> DeriveVrps(roas, NamesOf(found)),
                       announcements |-> [i \in DOMAIN routes |-> Judged(routes[i], roas)]]
  BY <1>1 DEF CommitCollection
<1>3. Committed(found)
  BY <1>1 DEF CommitCollection, Committed
<1> HIDE DEF routed, answered
<1>4. RowsTyped /\ NoOwnDuplicates
  BY DEF CollectionInv
<1>5. FoundRight(found)
  BY <1>1, <1>2 DEF CollectionInv, FoundInv
<1>6. RowsTyped' /\ NoOwnDuplicates'
  BY <1>3, <1>4, <1>5, CommittedTyped, CommittedAlone
<1>7. StoredRight' /\ CollectionsWhole'
  <2>1. PICK rs : rs = roas
    OBVIOUS
  <2>2. PICK us : us = routes
    OBVIOUS
  <2>3. collected' = [roas |-> rs, vrps |-> DeriveVrps(rs, NamesOf(found)),
                      announcements |-> [i \in DOMAIN us |-> Judged(us[i], rs)]]
    BY <1>2, <2>1, <2>2
  <2> QED
    BY <1>3, <1>4, <1>5, <2>1, <2>2, <2>3, CommitStores
<1>8. FoundInv'
  BY <1>2 DEF FoundInv
<1> QED
  BY <1>6, <1>7, <1>8 DEF CollectionInv

(***************************************************************************)
(* The theorems.                                                           *)
(***************************************************************************)

LEMMA CollectionInitInv == SupplyInit => CollectionInv
<1> SUFFICES ASSUME SupplyInit PROVE CollectionInv
  OBVIOUS
<1>1. /\ tals = <<>> /\ repositories = <<>> /\ objects = <<>> /\ collection = <<>> /\ tick = 0
      /\ collected.roas = <<>> /\ collected.vrps = <<>> /\ collected.announcements = <<>>
  BY DEF SupplyInit, NoRows
<1>2. RowsTyped
  BY <1>1 DEF RowsTyped
<1>3. NoOwnDuplicates
  BY <1>1 DEF NoOwnDuplicates
<1>4. FoundInv
  BY <1>1 DEF FoundInv
<1>5. StoredRight
  BY <1>1 DEF StoredRight
<1>6. CollectionsWhole
  BY <1>1 DEF CollectionsWhole
<1> QED
  BY <1>2, <1>3, <1>4, <1>5, <1>6 DEF CollectionInv

(* The steps together, and what the invariant implies.                     *)
LEMMA CollectionStill == CollectionInv /\ UNCHANGED supplyVars => CollectionInv'
<1> SUFFICES ASSUME CollectionInv, UNCHANGED supplyVars PROVE CollectionInv'
  OBVIOUS
<1>1. RowsTyped /\ tick \in Nat
  BY DEF CollectionInv, RowsTyped
<1>2. UNCHANGED <<tals, repositories, objects, collected, collections, collection, tick>>
  BY DEF supplyVars
<1>3. RowsTyped' /\ RowsKept
  BY <1>1, <1>2, RowsSame
<1> QED
  BY <1>2, <1>3, KeptFollows

LEMMA CollectionNextInv == CollectionInv /\ [SupplyNext]_supplyVars => CollectionInv'
<1> SUFFICES ASSUME CollectionInv, SupplyNext PROVE CollectionInv'
  BY CollectionStill
<1>1. CASE \E answers \in [{TalSources[i] : i \in DOMAIN TalSources} -> TalResponses] : BeginCollection(answers)
  BY <1>1, BeginCollectionInv
<1>2. CASE \E routesFrom \in [DOMAIN RoutesOf -> ApiResponses], roasFrom \in [DOMAIN RoasOf -> ApiResponses] :
             CommitCollection(routesFrom, roasFrom)
  BY <1>2, CommitCollectionInv
<1>3. CASE AbortCollection
  BY <1>3, AbortCollectionInv
<1>4. CASE \E i \in DOMAIN TalSources : InitTal(TalSources[i])
  BY <1>4, InitTalInv
<1>5. CASE \E t \in DOMAIN tals : DeleteTal(t) \/ SyncTal(t)
  BY <1>5, DeleteTalInv, SyncTalInv
<1>6. CASE SyncAll
  BY <1>6, SyncAllInv
<1>7. CASE \E r \in DOMAIN repositories : CreateLocalRoa(r)
  BY <1>7, CreateLocalRoaInv
<1>8. CASE SyncsAge
  BY <1>8, SyncsAgeInv
<1> QED
  BY <1>1, <1>2, <1>3, <1>4, <1>5, <1>6, <1>7, <1>8 DEF SupplyNext

LEMMA SoundFollows == CollectionInv => SupplySound
<1> SUFFICES ASSUME CollectionInv PROVE SupplySound
  OBVIOUS
<1>1. HealthInv
  BY DEF CollectionInv, RowsTyped, HealthInv
<1> QED
  BY <1>1, HealthFollows DEF CollectionInv, SupplySound

(* The tree of prefixes, whatever is inserted and removed, answers what the *)
(* set of the ROAs in it answers: every prefix holds exactly the ROAs that  *)
(* were inserted for it and not removed since (RoaPrefixTree).              *)
THEOREM TreeAlwaysFaithful == ManagementSpec => []TreeFaithful
<1>1. ManagementInit => TreeInv
  BY TreeInitInv DEF ManagementInit
<1>2. TreeInv /\ [ManagementNext]_managementVars => TreeInv'
  <2>1. [ManagementNext]_managementVars => [TreeNext]_treeVars
    BY DEF ManagementNext, managementVars
  <2> QED
    BY <2>1, TreeNextInv
<1> QED
  BY <1>1, <1>2, FaithfulFollows, PTL DEF ManagementSpec

(* Of the data the platform works on: a collection that is committed is    *)
(* whole and finds its own rows again, and its reports on the repositories *)
(* agree, as far as SupplySound says (RealRpkiDataService); of a batch of  *)
(* announcements the newest of every origin stays, if some have a time     *)
(* (bgp_storage_service.py); and the tree and the dictionary find the ROAs *)
(* around a prefix alike.  What the sources collect is not part of it.     *)
THEOREM SupplyAlwaysHolds == ManagementSpec => []SupplyHolds
<1> DEFINE Inv == BatchInv /\ CollectionInv /\ TreeInv
<1>1. ManagementInit => Inv
  BY BatchInitInv, CollectionInitInv, TreeInitInv DEF ManagementInit
<1>2. Inv /\ [ManagementNext]_managementVars => Inv'
  <2>1. [ManagementNext]_managementVars => [StorageNext]_storageVars
    BY DEF ManagementNext, managementVars
  <2>2. [ManagementNext]_managementVars => [SupplyNext]_supplyVars
    BY DEF ManagementNext, managementVars
  <2>3. [ManagementNext]_managementVars => [TreeNext]_treeVars
    BY DEF ManagementNext, managementVars
  <2> QED
    BY <2>1, <2>2, <2>3, BatchNextInv, CollectionNextInv, TreeNextInv
<1>3. Inv => SupplyHolds
  BY NewestFollows, SoundFollows, CoveringFollows DEF SupplyHolds
<1> QED
  BY <1>1, <1>2, <1>3, PTL DEF ManagementSpec
=============================================================================
