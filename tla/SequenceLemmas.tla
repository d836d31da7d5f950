---------------------------- MODULE SequenceLemmas ----------------------------
(***************************************************************************)
(* Facts about numbers and sequences that several proofs use: every set of *)
(* naturals has a least element, which is all the induction they need, and *)
(* what inserting into a sequence, removing from it and folding over it do.*)
(***************************************************************************)
EXTENDS Integers, Sequences, FiniteSets, FiniteSetTheorems, SequenceTheorems,
        WellFoundedInduction, TLAPS

Smaller == {p \in Nat \X Nat : p[1] < p[2]}

\* The least element of a set of naturals.
LEMMA Least ==
  ASSUME NEW T \in SUBSET Nat, T # {}
  PROVE  \E n \in T : \A m \in T : n <= m
<1>1. OpToRel(<, Nat) = Smaller
  BY Zenon DEF OpToRel, Smaller
<1>2. IsWellFoundedOn(Smaller, Nat)
  BY <1>1, NatLessThanWellFounded, Zenon
<1>3. \E n \in T : \A m \in T : <<m, n>> \notin Smaller
  BY <1>2, WFMin
<1>4. ASSUME NEW n \in Nat, NEW m \in Nat, ~(n <= m)
      PROVE  <<m, n>> \in Smaller
  <2> DEFINE p == <<m, n>>
  <2>1. p \in Nat \X Nat /\ p[1] = m /\ p[2] = n
    OBVIOUS
  <2>2. p[1] < p[2]
    BY <1>4, <2>1
  <2> QED
    BY <2>1, <2>2, Zenon DEF Smaller
<1> QED
  BY <1>3, <1>4

\* Induction: a set that contains a number whenever it contains all smaller ones
\* contains every number.
LEMMA Induction ==
  ASSUME NEW T, \A n \in Nat : (\A m \in Nat : m < n => m \in T) => n \in T
  PROVE  Nat \subseteq T
<1> SUFFICES ASSUME Nat \ T # {}
             PROVE  FALSE
  OBVIOUS
<1>1. PICK n \in Nat \ T : \A m \in Nat \ T : n <= m
  BY Least
<1> QED
  BY <1>1

-----------------------------------------------------------------------------
(* Remainders.                                                              *)

\* The remainder of a number below twice the modulus.
LEMMA ModIs ==
  ASSUME NEW n \in Nat \ {0}, NEW a \in 0..2 * n - 1
  PROVE  a % n = IF a < n THEN a ELSE a - n
  OBVIOUS

\* The remainder of a sum of two small numbers.
LEMMA ModSum ==
  ASSUME NEW n \in Nat \ {0}, NEW a \in 0..n - 1, NEW b \in 0..n
  PROVE  (a + b) % n = IF a + b < n THEN a + b ELSE a + b - n
  OBVIOUS

\* The remainder, from a quotient and a remainder.
LEMMA Remainder ==
  ASSUME NEW n \in Nat \ {0}, NEW a \in Nat, NEW q \in Int, NEW r \in 0..n - 1, a = n * q + r
  PROVE  a % n = r
  OBVIOUS

\* A quotient and the remainder exist.
LEMMA Division ==
  ASSUME NEW n \in Nat \ {0}, NEW b \in Nat
  PROVE  \E r \in 0..n - 1, q \in Int : b = n * q + r /\ b % n = r
<1>1. b = n * (b \div n) + (b % n) /\ b \div n \in Int /\ b % n \in 0..n - 1
  OBVIOUS
<1> QED
  BY <1>1, Zenon

\* Taking the remainder of one summand first changes nothing.
LEMMA ModTwice ==
  ASSUME NEW n \in Nat \ {0}, NEW a \in 0..n - 1, NEW b \in Nat
  PROVE  (a + b) % n = (a + (b % n)) % n
<1>1. PICK r \in 0..n - 1, q \in Int : b = n * q + r /\ b % n = r
  BY Division
<1>2. (a + r) % n = IF a + r < n THEN a + r ELSE a + r - n
  <2>1. r \in 0..n
    OBVIOUS
  <2> QED
    BY <2>1, ModSum, Zenon
<1>3. CASE a + r < n
  <2>1. a + b = n * q + (a + r) /\ a + r \in 0..n - 1 /\ a + b \in Nat
    BY <1>1, <1>3
  <2>2. (a + b) % n = a + r
    BY <2>1, Remainder
  <2> QED
    BY <1>1, <1>2, <1>3, <2>2
<1>4. CASE a + r >= n
  <2>1. a + b = n * (q + 1) + (a + r - n) /\ a + r - n \in 0..n - 1 /\ a + b \in Nat /\ q + 1 \in Int
    BY <1>1, <1>4
  <2>2. (a + b) % n = a + r - n
    BY <2>1, Remainder
  <2>3. (a + r) % n = a + r - n
    BY <1>2, <1>4
  <2> QED
    BY <1>1, <2>2, <2>3
<1> QED
  BY <1>3, <1>4

-----------------------------------------------------------------------------
\* The indices of a sequence up to which a property holds, if it holds for every
\* index before one for which it holds, are counted by an index.
LEMMA Prefix ==
  ASSUME NEW n \in Nat, NEW T \in SUBSET (1..n),
         \A i \in T : \A j \in 1..n : j < i => j \in T
  PROVE  Cardinality(T) \in 0..n /\ T = 1..Cardinality(T)
<1> DEFINE Outside == {m \in Nat : \A i \in 1..n : i > m => i \notin T}
<1>1. n \in Outside
  OBVIOUS
<1>2. PICK m \in Outside : \A k \in Outside : m <= k
  BY <1>1, Least
<1>3. m \in 0..n
  BY <1>1, <1>2
<1>4. m > 0 => m \in T
  <2> SUFFICES ASSUME m > 0, m \notin T
               PROVE  FALSE
    OBVIOUS
  <2>1. m - 1 \in Outside
    BY <1>2
  <2> QED
    BY <1>2, <2>1
<1>5. T = 1..m
  <2>1. ASSUME NEW i \in T
        PROVE  i \in 1..m
    BY <1>2, <1>3
  <2>2. ASSUME NEW i \in 1..m
        PROVE  i \in T
    BY <1>3, <1>4
  <2> QED
    BY <2>1, <2>2
<1>6. Cardinality(1..m) = m
  BY <1>3, FS_Interval
<1> QED
  BY <1>3, <1>5, <1>6

\* InsertAt and RemoveAt of the community modules.
Inserted(q, n, e) == SubSeq(q, 1, n - 1) \o <<e>> \o SubSeq(q, n, Len(q))
Removed(q, n) == SubSeq(q, 1, n - 1) \o SubSeq(q, n + 1, Len(q))

LEMMA Joined ==
  ASSUME NEW S, NEW a \in Seq(S), NEW b \in Seq(S), NEW r, r = a \o b
  PROVE  /\ r \in Seq(S) /\ Len(r) = Len(a) + Len(b)
         /\ \A i \in 1..Len(a) + Len(b) : r[i] = IF i <= Len(a) THEN a[i] ELSE b[i - Len(a)]
  BY ConcatProperties, Zenon

\* Inserting e at index n of a sequence.
LEMMA Inserting ==
  ASSUME NEW S, NEW q \in Seq(S), NEW e \in S, NEW n \in 1..Len(q) + 1,
         NEW r, r = Inserted(q, n, e)
  PROVE  /\ r \in Seq(S) /\ Len(r) = Len(q) + 1 /\ r[n] = e
         /\ \A i \in 1..n - 1 : r[i] = q[i]
         /\ \A i \in n..Len(q) : r[i + 1] = q[i]
<1> DEFINE a == SubSeq(q, 1, n - 1)
           b == SubSeq(q, n, Len(q))
<1>1. Len(q) \in Nat /\ n \in Int
  BY LenProperties
<1>2. a \in Seq(S) /\ Len(a) = n - 1 /\ \A i \in 1..n - 1 : a[i] = q[i]
  OBVIOUS
<1>3. b \in Seq(S) /\ Len(b) = Len(q) - n + 1 /\ \A i \in 1..Len(q) - n + 1 : b[i] = q[n + i - 1]
  OBVIOUS
<1>4. <<e>> \in Seq(S) /\ Len(<<e>>) = 1 /\ <<e>>[1] = e
  OBVIOUS
<1> HIDE DEF a, b
<1> DEFINE c == a \o <<e>>
<1>5. c \in Seq(S) /\ Len(c) = n /\ c[n] = e /\ \A i \in 1..n - 1 : c[i] = q[i]
  BY <1>1, <1>2, <1>4
<1> HIDE DEF c
<1>6. r = c \o b
  BY DEF a, b, c, Inserted
<1>7. r \in Seq(S) /\ Len(r) = Len(c) + Len(b)
  <2>1. b \in Seq(S) /\ c \in Seq(S)
    BY <1>3, <1>5
  <2> QED
    BY <2>1, <1>6, Joined
<1>8. \A i \in 1..Len(c) + Len(b) : r[i] = IF i <= Len(c) THEN c[i] ELSE b[i - Len(c)]
  <2>1. b \in Seq(S) /\ c \in Seq(S)
    BY <1>3, <1>5
  <2> QED
    BY <2>1, <1>6, Joined
<1>9. Len(r) = Len(q) + 1
  BY <1>1, <1>3, <1>5, <1>7
<1>10. r[n] = e /\ \A i \in 1..n - 1 : r[i] = q[i]
  BY <1>1, <1>3, <1>5, <1>8
<1>11. ASSUME NEW i \in n..Len(q)
       PROVE  r[i + 1] = q[i]
  <2>1. i + 1 \in 1..Len(c) + Len(b) /\ ~(i + 1 <= Len(c))
    BY <1>1, <1>3, <1>5
  <2>2. r[i + 1] = b[i + 1 - n]
    BY <1>5, <1>8, <2>1
  <2>3. i + 1 - n \in 1..Len(q) - n + 1 /\ n + (i + 1 - n) - 1 = i
    BY <1>1
  <2> QED
    BY <1>3, <2>2, <2>3
<1> QED
  BY <1>7, <1>9, <1>10, <1>11

\* Removing the element at index n of a sequence.
LEMMA Removing ==
  ASSUME NEW S, NEW q \in Seq(S), NEW n \in 1..Len(q),
         NEW r, r = Removed(q, n)
  PROVE  /\ r \in Seq(S) /\ Len(r) = Len(q) - 1
         /\ \A i \in 1..n - 1 : r[i] = q[i]
         /\ \A i \in n..Len(r) : r[i] = q[i + 1]
<1> DEFINE a == SubSeq(q, 1, n - 1)
           b == SubSeq(q, n + 1, Len(q))
<1>1. Len(q) \in Nat /\ n \in Int
  BY LenProperties
<1>2. a \in Seq(S) /\ Len(a) = n - 1 /\ \A i \in 1..n - 1 : a[i] = q[i]
  OBVIOUS
<1>3. b \in Seq(S) /\ Len(b) = Len(q) - n /\ \A i \in 1..Len(q) - n : b[i] = q[n + i]
  OBVIOUS
<1> HIDE DEF a, b
<1>4. r = a \o b
  BY DEF a, b, Removed
<1>5. r \in Seq(S) /\ Len(r) = Len(a) + Len(b)
  BY <1>2, <1>3, <1>4, Joined, ZenonT(60)
<1>6. \A i \in 1..Len(a) + Len(b) : r[i] = IF i <= Len(a) THEN a[i] ELSE b[i - Len(a)]
  <2>1. a \in Seq(S) /\ b \in Seq(S)
    BY <1>2, <1>3
  <2> QED
    BY <2>1, <1>4, Joined
<1>7. Len(r) = Len(q) - 1
  BY <1>1, <1>2, <1>3, <1>5
<1>8. \A i \in 1..n - 1 : r[i] = q[i]
  BY <1>1, <1>2, <1>3, <1>6
<1>9. ASSUME NEW i \in n..Len(r)
      PROVE  r[i] = q[i + 1]
  <2>1. i \in 1..Len(a) + Len(b) /\ ~(i <= Len(a))
    BY <1>1, <1>2, <1>3, <1>7
  <2>2. r[i] = b[i - (n - 1)]
    BY <1>2, <1>6, <2>1
  <2>3. i - (n - 1) \in 1..Len(q) - n /\ n + (i - (n - 1)) = i + 1
    BY <1>1, <1>7
  <2> QED
    BY <1>3, <2>2, <2>3
<1> QED
  BY <1>5, <1>7, <1>8, <1>9

-----------------------------------------------------------------------------
(* Folds over sequences and loops, which are recursive functions on 0..n.   *)

\* The steps g of a fold stay in S; f is the fold from a by these steps.
StaysIn(g, n, S) == \A k \in 1..n : \A v \in S : g[k][v] \in S
IsFold(f, g, n, S, a) == f \in [0..n -> S] /\ f[0] = a /\ \A k \in 1..n : f[k] = g[k][f[k - 1]]

\* A step further in an interval.
LEMMA UpTo ==
  ASSUME NEW n \in Nat, NEW T, 0 \in T, \A k \in 1..n : k - 1 \in T => k \in T
  PROVE  \A k \in 0..n : k \in T
<1> DEFINE U == {m \in Nat : m <= n => m \in T}
<1>1. ASSUME NEW m \in Nat, \A j \in Nat : j < m => j \in U
      PROVE  m \in U
  <2>1. CASE m = 0
    BY <2>1
  <2>2. CASE m # 0 /\ m <= n
    <3>1. m - 1 \in U /\ m \in 1..n
      BY <1>1, <2>2
    <3> QED
      BY <3>1
  <2> QED
    BY <2>1, <2>2
<1> HIDE DEF U
<1>2. Nat \subseteq U
  BY <1>1, Induction
<1> QED
  BY <1>2 DEF U

\* A function that folds steps which stay in a set: by induction on how many.
LEMMA Folding ==
  ASSUME NEW S, NEW a, NEW n, NEW g, a \in S, n \in Nat, StaysIn(g, n, S)
  PROVE  \E f : IsFold(f, g, n, S, a)
<1> USE DEF StaysIn, IsFold
<1> DEFINE T == {m \in Nat : m <= n => \E f \in [0..m -> S] :
                    f[0] = a /\ \A k \in 1..m : f[k] = g[k][f[k - 1]]}
<1>1. 0 \in T
  <2> DEFINE h == [k \in 0..0 |-> a]
  <2>1. h \in [0..0 -> S] /\ h[0] = a /\ 1..0 = {}
    OBVIOUS
  <2>2. \E f \in [0..0 -> S] : f[0] = a /\ \A k \in 1..0 : f[k] = g[k][f[k - 1]]
    BY <2>1, Zenon
  <2> QED
    BY <2>2
<1>2. ASSUME NEW m \in 1..n, m - 1 \in T
      PROVE  m \in T
  <2> DEFINE j == m - 1
  <2>0. j \in T
    BY <1>2
  <2>1. j \in Nat /\ j < m /\ j <= n /\ m \in Nat
    OBVIOUS
  <2>2. PICK f \in [0..j -> S] : f[0] = a /\ \A k \in 1..j : f[k] = g[k][f[k - 1]]
    BY <2>0, <2>1, Zenon
  <2> DEFINE h == [k \in 0..m |-> IF k = m THEN g[m][f[m - 1]] ELSE f[k]]
  <2>3. f[m - 1] \in S /\ g[m][f[m - 1]] \in S
    BY <2>1
  <2>4. h \in [0..m -> S]
    BY <2>1, <2>3
  <2>5. h[0] = a /\ \A k \in 1..m : h[k] = g[k][h[k - 1]]
    BY <2>1, <2>2
  <2>6. \E q \in [0..m -> S] : q[0] = a /\ \A k \in 1..m : q[k] = g[k][q[k - 1]]
    BY <2>4, <2>5, Zenon
  <2> QED
    BY <2>1, <2>6, Zenon
<1> HIDE DEF T
<1>3. n \in T
  BY <1>1, <1>2, UpTo
<1> QED
  BY <1>3 DEF T
=============================================================================
