--------------------------- MODULE SequenceLemmas ---------------------------
(***************************************************************************)
(* Facts about sequences, whatever they hold: the lists of threads and of   *)
(* alarms the runtime keeps (what inserting, removing and taking the head   *)
(* do to who is in a list, to its order and to being in it once), and the   *)
(* host stacks (what is still on one when a frame returns or is called).    *)
(***************************************************************************)
EXTENDS Integers, SequencesExt, SequenceTheorems, WellFoundedInduction, TLAPS

\* A nonempty set of numbers has a least one.
LEMMA LeastNat ==
  ASSUME NEW S \in SUBSET Nat, S # {}
  PROVE  \E m \in S : \A n \in S : m <= n
<1> DEFINE R == {ss \in Nat \X Nat : ss[1] < ss[2]}
<1>1. IsWellFoundedOn(R, Nat)
  <2>1. R = OpToRel(<, Nat)
    BY Zenon DEF OpToRel
  <2>2. IsWellFoundedOn(OpToRel(<, Nat), Nat)
    BY NatLessThanWellFounded
  <2> QED BY <2>1, <2>2, Zenon
<1>2. \A n, m \in Nat : n < m => <<n, m>> \in R
  OBVIOUS
<1> HIDE DEF R
<1>3. PICK m \in S : \A n \in S : ~(<<n, m>> \in R)
  BY <1>1, WFMin
<1>4. \A n \in S : ~(n < m)
  BY <1>2, <1>3, Zenon
<1>5. \A n \in S : m <= n
  BY <1>4, SMT
<1> QED BY <1>5, Zenon

-----------------------------------------------------------------------------
\* The threads in a list, and a list with no thread twice.
Elems(s) == {s[i] : i \in 1 .. Len(s)}

\* No item is in the list twice.
Distinct(s) == \A i, j \in 1 .. Len(s) : s[i] = s[j] => i = j

\* A queue is empty exactly when it holds nobody.
LEMMA EmptyElems ==
  ASSUME NEW T, NEW s \in Seq(T)
  PROVE  /\ s = <<>> <=> Elems(s) = {}
         /\ Elems(s) \subseteq T
<1>1. Elems(s) \subseteq T
  BY DEF Elems
<1>2. s = <<>> => Elems(s) = {}
  BY DEF Elems
<1>3. s # <<>> => s[1] \in Elems(s)
  BY DEF Elems
<1> QED BY <1>1, <1>2, <1>3

\* Taking the head of a queue leaves the others, once each.
LEMMA TailElems ==
  ASSUME NEW T, NEW s \in Seq(T), s # <<>>, Distinct(s)
  PROVE  /\ Tail(s) \in Seq(T) /\ Distinct(Tail(s))
         /\ Head(s) \in Elems(s)
         /\ Elems(Tail(s)) = Elems(s) \ {Head(s)}
<1>1. /\ Tail(s) \in Seq(T) /\ Len(Tail(s)) = Len(s) - 1 /\ Len(s) \in Nat \ {0}
      /\ \A i \in 1 .. Len(s) - 1 : Tail(s)[i] = s[i + 1]
      /\ Head(s) = s[1]
  OBVIOUS
<1>2. Distinct(Tail(s))
  BY <1>1 DEF Distinct
<1>3. ASSUME NEW e \in Elems(Tail(s)) PROVE e \in Elems(s) \ {Head(s)}
  BY <1>1, <1>3 DEF Elems, Distinct
<1>4. ASSUME NEW e \in Elems(s) \ {Head(s)} PROVE e \in Elems(Tail(s))
  <2>1. PICK i \in 1 .. Len(s) : e = s[i]
    BY DEF Elems
  <2>2. i # 1 /\ i - 1 \in 1 .. Len(s) - 1 /\ Tail(s)[i - 1] = e
    BY <1>1, <2>1
  <2> QED BY <1>1, <2>2 DEF Elems
<1>5. Head(s) \in Elems(s)
  BY <1>1 DEF Elems
<1> QED BY <1>1, <1>2, <1>3, <1>4, <1>5

\* Appending a thread that is not in the queue adds it, once.
LEMMA AppendElems ==
  ASSUME NEW T, NEW s \in Seq(T), NEW t \in T, t \notin Elems(s), Distinct(s)
  PROVE  /\ Append(s, t) \in Seq(T) /\ Distinct(Append(s, t))
         /\ Elems(Append(s, t)) = Elems(s) \cup {t}
<1>1. /\ Append(s, t) \in Seq(T) /\ Len(Append(s, t)) = Len(s) + 1 /\ Len(s) \in Nat
      /\ \A i \in 1 .. Len(s) : Append(s, t)[i] = s[i]
      /\ Append(s, t)[Len(s) + 1] = t
  OBVIOUS
<1>2. Distinct(Append(s, t))
  BY <1>1 DEF Distinct, Elems
<1>3. ASSUME NEW e \in Elems(Append(s, t)) PROVE e \in Elems(s) \cup {t}
  BY <1>1, <1>3 DEF Elems
<1>4. ASSUME NEW e \in Elems(s) \cup {t} PROVE e \in Elems(Append(s, t))
  <2>1. CASE e = t
    BY <1>1, <2>1 DEF Elems
  <2>2. CASE e \in Elems(s)
    <3>1. PICK i \in 1 .. Len(s) : e = s[i]
      BY <2>2 DEF Elems
    <3> QED BY <1>1, <3>1 DEF Elems
  <2> QED BY <2>1, <2>2
<1> QED BY <1>1, <1>2, <1>3, <1>4

\* Removing position k closes the gap and keeps the order of the rest.
LEMMA RemoveAtShape ==
  ASSUME NEW T, NEW s \in Seq(T), NEW k \in 1 .. Len(s)
  PROVE  /\ RemoveAt(s, k) \in Seq(T) /\ Len(RemoveAt(s, k)) = Len(s) - 1
         /\ \A i \in 1 .. Len(s) - 1 : RemoveAt(s, k)[i] = IF i < k THEN s[i] ELSE s[i + 1]
<1> DEFINE a == SubSeq(s, 1, k - 1)
           b == SubSeq(s, k + 1, Len(s))
<1>1. a \in Seq(T) /\ Len(a) = k - 1 /\ \A i \in 1 .. k - 1 : a[i] = s[i]
  OBVIOUS
<1>2. b \in Seq(T) /\ Len(b) = Len(s) - k /\ \A i \in 1 .. Len(s) - k : b[i] = s[k + i]
  OBVIOUS
<1>3. RemoveAt(s, k) = a \o b
  BY DEF RemoveAt
<1> HIDE DEF a, b
<1>4. /\ a \o b \in Seq(T) /\ Len(a \o b) = Len(a) + Len(b)
      /\ \A i \in 1 .. Len(a) + Len(b) : (a \o b)[i] = IF i <= Len(a) THEN a[i] ELSE b[i - Len(a)]
  BY <1>1, <1>2, ConcatProperties
<1>5. ASSUME NEW i \in 1 .. Len(s) - 1
      PROVE  (a \o b)[i] = IF i < k THEN s[i] ELSE s[i + 1]
  <2>1. CASE i < k
    BY <1>1, <1>2, <1>4, <2>1
  <2>2. CASE ~(i < k)
    <3>1. i - (k - 1) \in 1 .. Len(s) - k /\ k + (i - (k - 1)) = i + 1
      BY <2>2
    <3>2. (a \o b)[i] = b[i - (k - 1)]
      BY <1>1, <1>2, <1>4, <2>2
    <3> QED BY <1>2, <3>1, <3>2, <2>2
  <2> QED BY <2>1, <2>2
<1> QED BY <1>1, <1>2, <1>3, <1>4, <1>5

\* Inserting at position k shifts the rest and keeps its order.
LEMMA InsertAtShape ==
  ASSUME NEW T, NEW s \in Seq(T), NEW k \in 1 .. Len(s) + 1, NEW t \in T
  PROVE  /\ InsertAt(s, k, t) \in Seq(T) /\ Len(InsertAt(s, k, t)) = Len(s) + 1
         /\ \A i \in 1 .. Len(s) + 1 :
              InsertAt(s, k, t)[i] = IF i < k THEN s[i] ELSE IF i = k THEN t ELSE s[i - 1]
<1> DEFINE a == SubSeq(s, 1, k - 1)
           b == SubSeq(s, k, Len(s))
           c == <<t>>
<1>1. a \in Seq(T) /\ Len(a) = k - 1 /\ \A i \in 1 .. k - 1 : a[i] = s[i]
  OBVIOUS
<1>2. b \in Seq(T) /\ Len(b) = Len(s) - k + 1 /\ \A i \in 1 .. Len(s) - k + 1 : b[i] = s[k + i - 1]
  OBVIOUS
<1>3. InsertAt(s, k, t) = (a \o c) \o b
  BY DEF InsertAt
<1>4. c \in Seq(T) /\ Len(c) = 1 /\ c[1] = t
  OBVIOUS
<1> HIDE DEF a, b, c
<1>5. /\ a \o c \in Seq(T) /\ Len(a \o c) = k
      /\ \A i \in 1 .. k : (a \o c)[i] = IF i <= k - 1 THEN a[i] ELSE c[i - (k - 1)]
  <2>1. /\ a \o c \in Seq(T) /\ Len(a \o c) = Len(a) + Len(c)
        /\ \A i \in 1 .. Len(a) + Len(c) : (a \o c)[i] = IF i <= Len(a) THEN a[i] ELSE c[i - Len(a)]
    BY <1>1, <1>4, ConcatProperties
  <2> QED BY <1>1, <1>4, <2>1
<1> DEFINE d == a \o c
<1> HIDE DEF d
<1>6. /\ d \o b \in Seq(T) /\ Len(d \o b) = Len(s) + 1
      /\ \A i \in 1 .. Len(s) + 1 : (d \o b)[i] = IF i <= k THEN d[i] ELSE b[i - k]
  <2>1. d \in Seq(T) /\ Len(d) = k
    BY <1>5 DEF d
  <2>2. /\ d \o b \in Seq(T) /\ Len(d \o b) = Len(d) + Len(b)
        /\ \A i \in 1 .. Len(d) + Len(b) : (d \o b)[i] = IF i <= Len(d) THEN d[i] ELSE b[i - Len(d)]
    BY <1>2, <2>1, ConcatProperties
  <2> QED BY <1>2, <2>1, <2>2
<1>7. ASSUME NEW i \in 1 .. Len(s) + 1
      PROVE  (d \o b)[i] = IF i < k THEN s[i] ELSE IF i = k THEN t ELSE s[i - 1]
  <2>1. CASE i < k
    <3>1. (d \o b)[i] = d[i] /\ d[i] = a[i] /\ a[i] = s[i]
      BY <1>1, <1>5, <1>6, <2>1 DEF d
    <3> QED BY <2>1, <3>1
  <2>2. CASE i = k
    <3>1. i - (k - 1) = 1 /\ ~(i <= k - 1) /\ i \in 1 .. k
      BY <2>2
    <3>2. d[i] = c[1]
      BY <1>5, <3>1 DEF d
    <3>3. (d \o b)[i] = d[i]
      BY <1>6, <2>2
    <3> QED BY <1>4, <2>2, <3>2, <3>3
  <2>3. CASE i > k
    <3>1. i - k \in 1 .. Len(s) - k + 1 /\ k + (i - k) - 1 = i - 1
      BY <2>3
    <3>2. (d \o b)[i] = b[i - k] /\ b[i - k] = s[i - 1]
      BY <1>2, <1>6, <2>3, <3>1
    <3> QED BY <2>3, <3>2
  <2>4. i < k \/ i = k \/ i > k
    OBVIOUS
  <2> QED BY <2>1, <2>2, <2>3, <2>4, Zenon
<1> QED BY <1>3, <1>6, <1>7 DEF d

\* Linking a thread that is not there adds it, once.
LEMMA InsertElems ==
  ASSUME NEW T, NEW s \in Seq(T), NEW k \in 1 .. Len(s) + 1, NEW t \in T,
         t \notin Elems(s), Distinct(s)
  PROVE  /\ InsertAt(s, k, t) \in Seq(T) /\ Distinct(InsertAt(s, k, t))
         /\ Elems(InsertAt(s, k, t)) = Elems(s) \cup {t}
<1> DEFINE r == InsertAt(s, k, t)
<1>1. /\ r \in Seq(T) /\ Len(r) = Len(s) + 1
      /\ \A i \in 1 .. Len(s) + 1 : r[i] = IF i < k THEN s[i] ELSE IF i = k THEN t ELSE s[i - 1]
  BY InsertAtShape, SMTT(30)
<1> HIDE DEF r
<1>2. Distinct(r)
  <2> SUFFICES ASSUME NEW i \in 1 .. Len(s) + 1, NEW j \in 1 .. Len(s) + 1, r[i] = r[j]
               PROVE  i = j
    BY <1>1 DEF Distinct
  <2>1. \A n \in 1 .. Len(s) : s[n] # t
    BY DEF Elems
  <2>2. \A n \in 1 .. Len(s) + 1 : r[n] = t <=> n = k
    <3> TAKE n \in 1 .. Len(s) + 1
    <3>1. CASE n < k
      BY <1>1, <2>1, <3>1
    <3>2. CASE n = k
      BY <1>1, <3>2
    <3>3. CASE n > k
      <4>1. n - 1 \in 1 .. Len(s) /\ r[n] = s[n - 1]
        BY <1>1, <3>3
      <4> QED BY <2>1, <3>3, <4>1
    <3> QED BY <3>1, <3>2, <3>3
  <2>3. CASE i = k \/ j = k
    BY <2>2, <2>3
  <2>4. CASE i # k /\ j # k
    <3> DEFINE m(n) == IF n < k THEN n ELSE n - 1
    <3>1. \A n \in 1 .. Len(s) + 1 : n # k => m(n) \in 1 .. Len(s) /\ r[n] = s[m(n)]
      BY <1>1
    <3>2. m(i) = m(j)
      BY <2>4, <3>1 DEF Distinct
    <3> QED BY <2>4, <3>2
  <2> QED BY <2>3, <2>4
<1>3. ASSUME NEW e \in Elems(r) PROVE e \in Elems(s) \cup {t}
  <2>1. PICK i \in 1 .. Len(s) + 1 : e = r[i]
    BY <1>1 DEF Elems
  <2>2. CASE i < k
    BY <1>1, <2>1, <2>2 DEF Elems
  <2>3. CASE i = k
    BY <1>1, <2>1, <2>3
  <2>4. CASE i > k
    <3>1. i - 1 \in 1 .. Len(s) /\ e = s[i - 1]
      BY <1>1, <2>1, <2>4
    <3> QED BY <3>1 DEF Elems
  <2> QED BY <2>2, <2>3, <2>4
<1>4. ASSUME NEW e \in Elems(s) \cup {t} PROVE e \in Elems(r)
  <2>1. CASE e = t
    BY <1>1, <2>1 DEF Elems
  <2>2. CASE e \in Elems(s)
    <3>1. PICK i \in 1 .. Len(s) : e = s[i]
      BY <2>2 DEF Elems
    <3>2. CASE i < k
      <4>1. i \in 1 .. Len(r) /\ r[i] = e
        BY <1>1, <3>1, <3>2
      <4> QED BY <4>1 DEF Elems
    <3>3. CASE i >= k
      <4>1. i + 1 \in 1 .. Len(r) /\ r[i + 1] = e
        BY <1>1, <3>1, <3>3
      <4> QED BY <4>1 DEF Elems
    <3> QED BY <3>2, <3>3
  <2> QED BY <2>1, <2>2
<1> QED BY <1>1, <1>2, <1>3, <1>4 DEF r

-----------------------------------------------------------------------------
(* Lists in order. *)

\* The list s is in order of pr, equals in any order.
Sorted(pr, s) == \A i, j \in 1 .. Len(s) : i < j => pr[s[i]] <= pr[s[j]]

\* Taking the head of a sorted list leaves it sorted.
LEMMA SortedTail ==
  ASSUME NEW T, NEW s \in Seq(T), NEW pr, Sorted(pr, s), s # <<>>
  PROVE  Sorted(pr, Tail(s))
<1>1. /\ Len(Tail(s)) = Len(s) - 1 /\ Len(s) \in Nat \ {0}
      /\ \A i \in 1 .. Len(s) - 1 : Tail(s)[i] = s[i + 1]
  OBVIOUS
<1> DEFINE r == Tail(s)
<1>2. Len(r) = Len(s) - 1 /\ \A i \in 1 .. Len(s) - 1 : r[i] = s[i + 1]
  BY <1>1
<1> HIDE DEF r
<1>3. Sorted(pr, r)
  BY <1>1, <1>2 DEF Sorted
<1> QED BY <1>3 DEF r

\* A list stays sorted while the keys of its items stay.
LEMMA SortedSame ==
  ASSUME NEW T, NEW s \in Seq(T), NEW pr, NEW pr2, Sorted(pr, s),
         \A u \in Elems(s) : pr2[u] = pr[u]
  PROVE  Sorted(pr2, s)
BY DEF Sorted, Elems

\* Inserting before the first item that belongs behind keeps a list in order.
LEMMA SortedInsert ==
  ASSUME NEW T, NEW s \in Seq(T), NEW k \in 1 .. Len(s) + 1, NEW t \in T,
         NEW pr, NEW p \in Int, \A u \in Elems(s) : pr[u] \in Int, Sorted(pr, s),
         \A j \in 1 .. k - 1 : pr[s[j]] <= p, k <= Len(s) => pr[s[k]] >= p,
         NEW pr2, pr2[t] = p, \A u \in Elems(s) : pr2[u] = pr[u]
  PROVE  Sorted(pr2, InsertAt(s, k, t))
<1> DEFINE r == InsertAt(s, k, t)
<1>1. /\ Len(r) = Len(s) + 1 /\ Len(s) \in Nat
      /\ \A i \in 1 .. Len(s) + 1 : r[i] = IF i < k THEN s[i] ELSE IF i = k THEN t ELSE s[i - 1]
  BY InsertAtShape, SMTT(30)
<1> HIDE DEF r
<1>2. \A n \in 1 .. Len(s) : pr[s[n]] \in Int /\ pr2[s[n]] = pr[s[n]]
  <2> TAKE n \in 1 .. Len(s)
  <2>1. s[n] \in Elems(s)
    BY DEF Elems
  <2> QED BY <2>1
<1>3. \A n \in 1 .. Len(s) : n >= k => pr[s[n]] >= p
  <2> TAKE n \in 1 .. Len(s)
  <2>1. CASE n = k
    BY <1>2, <2>1
  <2>2. CASE n > k
    <3>1. k \in 1 .. Len(s) /\ pr[s[k]] <= pr[s[n]]
      BY <2>2 DEF Sorted
    <3> QED BY <1>2, <3>1
  <2> QED BY <2>1, <2>2
<1>4. ASSUME NEW i \in 1 .. Len(r), NEW j \in 1 .. Len(r), i < j
      PROVE  pr2[r[i]] <= pr2[r[j]]
  <2>1. CASE i < k /\ j < k
    <3>1. r[i] = s[i] /\ r[j] = s[j] /\ i \in 1 .. Len(s) /\ j \in 1 .. Len(s)
      BY <1>1, <2>1
    <3> QED BY <1>2, <1>4, <3>1 DEF Sorted
  <2>2. CASE i < k /\ j = k
    <3>1. r[i] = s[i] /\ r[j] = t /\ i \in 1 .. Len(s) /\ i \in 1 .. k - 1
      BY <1>1, <2>2
    <3> QED BY <1>2, <3>1
  <2>3. CASE i < k /\ j > k
    <3>1. /\ r[i] = s[i] /\ r[j] = s[j - 1] /\ i \in 1 .. Len(s) /\ j - 1 \in 1 .. Len(s)
          /\ i < j - 1
      BY <1>1, <2>3
    <3> QED BY <1>2, <3>1 DEF Sorted
  <2>4. CASE i = k
    <3>1. r[i] = t /\ r[j] = s[j - 1] /\ j - 1 \in 1 .. Len(s) /\ j - 1 >= k
      BY <1>1, <1>4, <2>4
    <3> QED BY <1>2, <1>3, <3>1
  <2>5. CASE i > k
    <3>1. /\ r[i] = s[i - 1] /\ r[j] = s[j - 1] /\ i - 1 \in 1 .. Len(s) /\ j - 1 \in 1 .. Len(s)
          /\ i - 1 < j - 1
      BY <1>1, <1>4, <2>5
    <3> QED BY <1>2, <3>1 DEF Sorted
  <2> QED BY <1>1, <1>4, <2>1, <2>2, <2>3, <2>4, <2>5
<1> QED BY <1>4 DEF Sorted, r

-----------------------------------------------------------------------------
(* Host stacks. *)

\* A sequence whose items are all in B is a sequence over B.
LEMMA InSeq ==
  ASSUME NEW T, NEW s \in Seq(T), NEW B, \A i \in 1 .. Len(s) : s[i] \in B
  PROVE  s \in Seq(B)
<1>1. Len(s) \in Nat
  OBVIOUS
<1>2. SubSeq(s, 1, Len(s)) \in Seq(B)
  BY <1>1, SubSeqProperties
<1> QED BY <1>2, SubSeqFull

\* The stack s has a frame of G under frames of F and over frames of B.
Over(s, F, G, B) ==
  \E k \in 1 .. Len(s) :
    /\ s[k] \in G
    /\ \A j \in 1 .. k - 1 : s[j] \in F
    /\ \A j \in k + 1 .. Len(s) : s[j] \in B

\* A frame that is not the awaited one may return; below the awaited frame only B
\* is left.
LEMMA OverPop ==
  ASSUME NEW T, NEW s \in Seq(T), NEW F, NEW G, NEW B, Over(s, F, G, B)
  PROVE  /\ s # <<>>
         /\ Head(s) \notin G => Head(s) \in F /\ Over(Tail(s), F, G, B)
         /\ Head(s) \notin F => Head(s) \in G /\ Tail(s) \in Seq(B)
<1>1. PICK k \in 1 .. Len(s) :
        /\ s[k] \in G
        /\ \A j \in 1 .. k - 1 : s[j] \in F
        /\ \A j \in k + 1 .. Len(s) : s[j] \in B
  BY DEF Over
<1>2. s # <<>> /\ Head(s) = s[1]
  OBVIOUS
<1>3. /\ Tail(s) \in Seq(T) /\ Len(Tail(s)) = Len(s) - 1 /\ Len(s) \in Nat \ {0}
      /\ \A i \in 1 .. Len(s) - 1 : Tail(s)[i] = s[i + 1]
  BY <1>2
<1>4. ASSUME Head(s) \notin G PROVE Head(s) \in F /\ Over(Tail(s), F, G, B)
  <2>1. k # 1
    BY <1>1, <1>2, <1>4
  <2>2. k - 1 \in 1 .. Len(Tail(s)) /\ Tail(s)[k - 1] \in G
    BY <1>1, <1>3, <2>1
  <2>3. \A j \in 1 .. (k - 1) - 1 : Tail(s)[j] \in F
    BY <1>1, <1>3
  <2>4. \A j \in (k - 1) + 1 .. Len(Tail(s)) : Tail(s)[j] \in B
    BY <1>1, <1>3
  <2>5. Head(s) \in F
    BY <1>1, <1>2, <2>1
  <2> QED BY <2>2, <2>3, <2>4, <2>5 DEF Over
<1>5. ASSUME Head(s) \notin F PROVE Head(s) \in G /\ Tail(s) \in Seq(B)
  <2>1. k = 1
    BY <1>1, <1>2, <1>5
  <2>2. \A i \in 1 .. Len(Tail(s)) : Tail(s)[i] \in B
    BY <1>1, <1>3, <2>1
  <2>3. Tail(s) \in Seq(B)
    BY <1>3, <2>2, InSeq
  <2> QED BY <1>1, <1>2, <2>1, <2>3
<1> QED BY <1>2, <1>4, <1>5

\* Calling another frame of F keeps the awaited frame below it.
LEMMA OverPush ==
  ASSUME NEW T, NEW s \in Seq(T), NEW F \in SUBSET T, NEW G, NEW B, Over(s, F, G, B),
         NEW f \in F
  PROVE  Over(<<f>> \o s, F, G, B)
<1> DEFINE r == <<f>> \o s
<1>1. /\ Len(r) = Len(s) + 1 /\ Len(s) \in Nat
      /\ \A i \in 1 .. Len(s) + 1 : r[i] = IF i <= 1 THEN f ELSE s[i - 1]
  OBVIOUS
<1> HIDE DEF r
<1>2. PICK k \in 1 .. Len(s) :
        /\ s[k] \in G
        /\ \A j \in 1 .. k - 1 : s[j] \in F
        /\ \A j \in k + 1 .. Len(s) : s[j] \in B
  BY DEF Over
<1>3. k + 1 \in 1 .. Len(r) /\ r[k + 1] \in G
  BY <1>1, <1>2
<1>4. \A j \in 1 .. (k + 1) - 1 : r[j] \in F
  BY <1>1, <1>2
<1>5. \A j \in (k + 1) + 1 .. Len(r) : r[j] \in B
  BY <1>1, <1>2
<1>6. Over(r, F, G, B)
  BY <1>3, <1>4, <1>5 DEF Over
<1> QED BY <1>6 DEF r

\* The awaited frame may be called on any frames of B.
LEMMA OverTop ==
  ASSUME NEW B, NEW s \in Seq(B), NEW F, NEW G, NEW g \in G
  PROVE  Over(<<g>> \o s, F, G, B)
<1> DEFINE r == <<g>> \o s
<1>1. /\ Len(r) = Len(s) + 1 /\ Len(s) \in Nat
      /\ r[1] = g
      /\ \A i \in 2 .. Len(s) + 1 : r[i] = s[i - 1]
  OBVIOUS
<1>2. \A i \in 1 .. Len(s) : s[i] \in B
  OBVIOUS
<1> HIDE DEF r
<1>3. \A j \in 2 .. Len(r) : r[j] \in B
  BY <1>1, <1>2
<1>4. Over(r, F, G, B)
  BY <1>1, <1>3 DEF Over
<1> QED BY <1>4 DEF r

\* Whatever is over a frame of G is over a frame of every larger set.
LEMMA OverMore ==
  ASSUME NEW s, NEW F, NEW G, NEW B, Over(s, F, G, B),
         NEW F2, F \subseteq F2, NEW G2, G \subseteq G2
  PROVE  Over(s, F2, G2, B)
BY DEF Over
\* Some item of the list is in F.
On(s, F) == \E i \in 1 .. Len(s) : s[i] \in F

\* An item stays in the list when another one is taken from its head.
LEMMA OnTail ==
  ASSUME NEW T, NEW s \in Seq(T), NEW F, On(s, F), s # <<>>, Head(s) \notin F
  PROVE  On(Tail(s), F)
<1>1. /\ Len(Tail(s)) = Len(s) - 1 /\ Len(s) \in Nat \ {0} /\ Head(s) = s[1]
      /\ \A i \in 1 .. Len(s) - 1 : Tail(s)[i] = s[i + 1]
  OBVIOUS
<1>2. PICK i \in 1 .. Len(s) : s[i] \in F
  BY DEF On
<1>3. i - 1 \in 1 .. Len(Tail(s)) /\ Tail(s)[i - 1] = s[i]
  BY <1>1, <1>2
<1> QED BY <1>2, <1>3 DEF On

\* An item stays in the list when others are put before it.
LEMMA OnUnder ==
  ASSUME NEW T, NEW s \in Seq(T), NEW r \in Seq(T), NEW F, On(s, F)
  PROVE  On(r \o s, F)
<1> DEFINE w == r \o s
<1>1. PICK i \in 1 .. Len(s) : s[i] \in F
  BY DEF On
<1>2. /\ Len(w) = Len(r) + Len(s) /\ Len(r) \in Nat /\ Len(s) \in Nat
      /\ \A j \in 1 .. Len(r) + Len(s) : w[j] = IF j <= Len(r) THEN r[j] ELSE s[j - Len(r)]
  BY ConcatProperties, LenProperties
<1> HIDE DEF w
<1>3. Len(r) + i \in 1 .. Len(w) /\ w[Len(r) + i] = s[i]
  BY <1>1, <1>2
<1>4. On(w, F)
  BY <1>1, <1>3 DEF On
<1> QED BY <1>4 DEF w
=============================================================================
