----------------------- MODULE CalendarSchedulerProofs -----------------------
(***************************************************************************)
(* Proof that the calendar queue is an event list, for any number of       *)
(* events, any delays and both orders of the buckets. Every event is in    *)
(* the bucket of its day; the search starts on the day of the event taken  *)
(* out last, before which there is none, and comes through the days of a   *)
(* year in order. Taking out samples to estimate the width and putting     *)
(* them back, and moving all events to other buckets, change none of it.   *)
(***************************************************************************)
EXTENDS CalendarScheduler, SequenceLemmas

\* The simulator's delays are not negative.
DelaysAreTimes == Delays \subseteq Nat

Entries == [ts : Nat, uid : Nat]

Listed(b) == {b[j] : j \in 1..Len(b)}

\* A bucket in its order.
Sorted(b) == b \in Seq(Entries) /\ \A j, k \in 1..Len(b) : j < k => Order(b[j], b[k])

\* The calendars with n buckets.
Calendars(n) ==
    [m_buckets : [0..n - 1 -> Seq(Entries)], m_width : Nat \ {0}, m_lastPrio : Nat,
     m_lastBucket : Nat, m_bucketTop : Nat, m_qSize : Nat]

\* Every event is in the bucket of its day.
Filed(c, n) ==
    /\ c \in Calendars(n)
    /\ \A i \in 0..n - 1 : /\ Sorted(Bucket(c, i))
                           /\ \A e \in Listed(Bucket(c, i)) : Hash(c, e.ts) = i

-----------------------------------------------------------------------------
(* Buckets                                                                  *)

\* The order of keys is total and strict, and so is that of a bucket.
LEMMA KeyOrder ==
  ASSUME NEW a \in Entries, NEW b \in Entries, NEW c \in Entries
  PROVE  /\ ~(Sched!Before(a, b) /\ Sched!Before(b, a))
         /\ Sched!Before(a, b) /\ Sched!Before(b, c) => Sched!Before(a, c)
         /\ a.uid # b.uid => Sched!Before(a, b) \/ Sched!Before(b, a)
  BY DEF Sched!Before, Entries

LEMMA BucketOrder ==
  ASSUME NEW a \in Entries, NEW b \in Entries, NEW c \in Entries
  PROVE  /\ ~(Order(a, b) /\ Order(b, a))
         /\ Order(a, b) /\ Order(b, c) => Order(a, c)
         /\ a.uid # b.uid => Order(a, b) \/ Order(b, a)
  BY KeyOrder DEF Order

\* Where DoInsert puts an event: before the first one that it precedes.
LEMMA PlaceFound ==
  ASSUME NEW b \in Seq(Entries), NEW ev,
         NEW n, n = CHOOSE i \in 1..Len(b) + 1 :
                        /\ i <= Len(b) => Order(ev, b[i])
                        /\ \A j \in 1..i - 1 : ~Order(ev, b[j])
  PROVE  /\ n \in 1..Len(b) + 1
         /\ n <= Len(b) => Order(ev, b[n])
         /\ \A j \in 1..n - 1 : ~Order(ev, b[j])
<1>1. Len(b) \in Nat
  OBVIOUS
<1> DEFINE T == {i \in 1..Len(b) + 1 : i <= Len(b) => Order(ev, b[i])}
<1>2. T \in SUBSET Nat /\ Len(b) + 1 \in T
  BY <1>1
<1>3. PICK i \in T : \A m \in T : i <= m
  <2> HIDE DEF T
  <2> QED
    BY <1>2, Least
<1>4. \A j \in 1..i - 1 : ~Order(ev, b[j])
  BY <1>1, <1>3
<1> QED
  BY <1>3, <1>4

LEMMA InsertingEntry ==
  ASSUME NEW b \in Seq(Entries), NEW ev \in Entries, NEW n \in 1..Len(b) + 1,
         NEW r, r = Inserted(b, n, ev)
  PROVE  /\ r \in Seq(Entries) /\ Len(r) = Len(b) + 1 /\ r[n] = ev
         /\ \A i \in 1..n - 1 : r[i] = b[i]
         /\ \A i \in n..Len(b) : r[i + 1] = b[i]
  BY Inserting

LEMMA InsertSorted ==
  ASSUME NEW b, Sorted(b), NEW ev \in Entries, \A e \in Listed(b) : e.uid # ev.uid,
         NEW n \in 1..Len(b) + 1, n <= Len(b) => Order(ev, b[n]),
         \A j \in 1..n - 1 : ~Order(ev, b[j]),
         NEW r, r = Inserted(b, n, ev)
  PROVE  Sorted(r) /\ Listed(r) = Listed(b) \cup {ev}
<1>1. b \in Seq(Entries) /\ Len(b) \in Nat /\ n \in Int /\ \A j \in 1..Len(b) : b[j] \in Entries
  BY DEF Sorted
<1>2. /\ r \in Seq(Entries) /\ Len(r) = Len(b) + 1 /\ r[n] = ev
      /\ \A i \in 1..n - 1 : r[i] = b[i]
      /\ \A i \in n..Len(b) : r[i + 1] = b[i]
  BY <1>1, InsertingEntry, SMTT(30)
<1>3. \A i \in 1..n - 1 : Order(b[i], ev)
  <2> SUFFICES ASSUME NEW i \in 1..n - 1
               PROVE  Order(b[i], ev)
    OBVIOUS
  <2>1. i \in 1..Len(b) /\ ~Order(ev, b[i])
    BY <1>1
  <2>2. b[i].uid # ev.uid /\ b[i] \in Entries
    BY <1>1, <2>1 DEF Listed
  <2> QED
    BY <2>1, <2>2, BucketOrder
<1>4. \A i \in n..Len(b) : Order(ev, b[i])
  <2> SUFFICES ASSUME NEW i \in n..Len(b), i # n
               PROVE  Order(ev, b[i])
    BY <1>1
  <2>1. n \in 1..Len(b) /\ i \in 1..Len(b) /\ n < i
    BY <1>1
  <2>2. Order(b[n], b[i]) /\ Order(ev, b[n])
    BY <1>1, <2>1 DEF Sorted
  <2> QED
    BY <1>1, <2>1, <2>2, BucketOrder
<1>5. \A i \in 1..Len(r) :
         \/ i < n /\ i \in 1..Len(b) /\ r[i] = b[i]
         \/ i = n /\ r[i] = ev
         \/ i > n /\ i - 1 \in n..Len(b) /\ i - 1 \in 1..Len(b) /\ r[i] = b[i - 1]
  <2> SUFFICES ASSUME NEW i \in 1..Len(r), i > n
               PROVE  i - 1 \in n..Len(b) /\ r[i] = b[i - 1]
    BY <1>1, <1>2
  <2>1. i - 1 \in n..Len(b) /\ (i - 1) + 1 = i
    BY <1>1, <1>2
  <2> QED
    BY <1>2, <2>1
<1>6. ASSUME NEW i \in 1..Len(r), NEW j \in 1..Len(r), i < j
      PROVE  Order(r[i], r[j])
  <2>1. CASE j < n
    BY <1>1, <1>5, <1>6, <2>1 DEF Sorted
  <2>2. CASE j = n
    BY <1>1, <1>3, <1>5, <1>6, <2>2
  <2>3. CASE j > n /\ i < n
    <3>1. j - 1 \in 1..Len(b) /\ i \in 1..Len(b) /\ i < j - 1 /\ r[i] = b[i] /\ r[j] = b[j - 1]
      BY <1>1, <1>5, <2>3
    <3> QED
      BY <3>1 DEF Sorted
  <2>4. CASE j > n /\ i = n
    BY <1>4, <1>5, <2>4
  <2>5. CASE j > n /\ i > n
    <3>1. j - 1 \in 1..Len(b) /\ i - 1 \in 1..Len(b) /\ i - 1 < j - 1
          /\ r[i] = b[i - 1] /\ r[j] = b[j - 1]
      BY <1>1, <1>5, <1>6, <2>5
    <3> QED
      BY <3>1 DEF Sorted
  <2> QED
    BY <1>1, <1>6, <2>1, <2>2, <2>3, <2>4, <2>5
<1>7. \A i \in 1..Len(r) : r[i] \in Listed(b) \cup {ev}
  <2> SUFFICES ASSUME NEW i \in 1..Len(r)
               PROVE  r[i] = ev \/ \E k \in 1..Len(b) : r[i] = b[k]
    BY DEF Listed
  <2> QED
    BY <1>5
<1>8. \A k \in 1..Len(b) : b[k] \in Listed(r)
  <2> SUFFICES ASSUME NEW k \in 1..Len(b)
               PROVE  \E i \in 1..Len(r) : b[k] = r[i]
    BY DEF Listed
  <2>1. CASE k < n
    <3>1. k \in 1..n - 1 /\ k \in 1..Len(r)
      BY <1>1, <1>2, <2>1
    <3> QED
      BY <1>2, <3>1
  <2>2. CASE ~(k < n)
    <3>1. k \in n..Len(b) /\ k + 1 \in 1..Len(r)
      BY <1>1, <1>2, <2>2
    <3> QED
      BY <1>2, <3>1
  <2> QED
    BY <2>1, <2>2
<1>9. ev \in Listed(r)
  <2>1. n \in 1..Len(r)
    BY <1>1, <1>2
  <2> QED
    BY <1>2, <2>1 DEF Listed
<1>10. Listed(r) = Listed(b) \cup {ev}
  BY <1>7, <1>8, <1>9, SMTT(30) DEF Listed
<1> QED
  BY <1>2, <1>6, <1>10 DEF Sorted

LEMMA RemoveSorted ==
  ASSUME NEW b, Sorted(b), NEW n \in 1..Len(b), NEW r, r = Removed(b, n)
  PROVE  Sorted(r) /\ Listed(r) = Listed(b) \ {b[n]}
<1>1. b \in Seq(Entries) /\ Len(b) \in Nat /\ n \in Int /\ \A j \in 1..Len(b) : b[j] \in Entries
  BY DEF Sorted
<1>2. /\ r \in Seq(Entries) /\ Len(r) = Len(b) - 1
      /\ \A i \in 1..n - 1 : r[i] = b[i]
      /\ \A i \in n..Len(r) : r[i] = b[i + 1]
  BY <1>1, Removing
<1> DEFINE at(i) == IF i < n THEN i ELSE i + 1
<1>3. \A i \in 1..Len(r) : at(i) \in 1..Len(b) /\ at(i) # n /\ r[i] = b[at(i)]
  BY <1>1, <1>2
<1>4. \A i, j \in 1..Len(r) : i < j => at(i) < at(j)
  BY <1>1, <1>2
<1>5. \A k \in 1..Len(b) : k # n => \E i \in 1..Len(r) : k = at(i)
  <2> SUFFICES ASSUME NEW k \in 1..Len(b), k # n
               PROVE  \E i \in 1..Len(r) : k = at(i)
    OBVIOUS
  <2>1. CASE k < n
    <3>1. k \in 1..Len(r) /\ at(k) = k
      BY <1>1, <1>2, <2>1
    <3> QED
      BY <3>1
  <2>2. CASE k > n
    <3>1. k - 1 \in 1..Len(r) /\ at(k - 1) = k
      BY <1>1, <1>2, <2>2
    <3> QED
      BY <3>1
  <2> QED
    BY <1>1, <2>1, <2>2
<1> HIDE DEF at
<1>6. \A k \in 1..Len(b) : k # n => b[k] # b[n]
  <2> SUFFICES ASSUME NEW k \in 1..Len(b), k # n, b[k] = b[n]
               PROVE  FALSE
    OBVIOUS
  <2>1. k < n \/ n < k
    BY <1>1
  <2>2. Order(b[k], b[n]) \/ Order(b[n], b[k])
    BY <1>1, <2>1 DEF Sorted
  <2> QED
    BY <1>1, <2>2, BucketOrder
<1>7. Sorted(r)
  BY <1>2, <1>3, <1>4 DEF Sorted
<1>8. \A i \in 1..Len(r) : r[i] \in Listed(b) /\ r[i] # b[n]
  BY <1>3, <1>6 DEF Listed
<1>9. \A k \in 1..Len(b) : k # n => b[k] \in Listed(r)
  BY <1>3, <1>5 DEF Listed
<1> QED
  BY <1>7, <1>8, <1>9 DEF Listed

\* SetReverse: the next event of a bucket is its earliest, and Pop takes it out.
LEMMA NextPopped ==
  ASSUME NEW b, Sorted(b), b # <<>>
  PROVE  /\ NextEvent(b) \in Listed(b) /\ NextEvent(b) \in Entries
         /\ \A e \in Listed(b) : e = NextEvent(b) \/ Sched!Before(NextEvent(b), e)
         /\ Sorted(Pop(b)) /\ Listed(Pop(b)) = Listed(b) \ {NextEvent(b)}
<1>1. b \in Seq(Entries) /\ Len(b) \in Nat /\ Len(b) > 0 /\ \A j \in 1..Len(b) : b[j] \in Entries
  BY DEF Sorted
<1> DEFINE n == IF m_reverse THEN Len(b) ELSE 1
<1>2. n \in 1..Len(b) /\ NextEvent(b) = b[n]
  BY <1>1 DEF NextEvent
<1>3. \A j \in 1..Len(b) : j # n => Sched!Before(b[n], b[j])
  <2>1. CASE m_reverse
    <3> SUFFICES ASSUME NEW j \in 1..Len(b), j # n
                 PROVE  Sched!Before(b[n], b[j])
      OBVIOUS
    <3>1. Order(b[j], b[n])
      BY <1>1, <1>2, <2>1 DEF Sorted
    <3> QED
      BY <2>1, <3>1 DEF Order
  <2>2. CASE ~m_reverse
    <3> SUFFICES ASSUME NEW j \in 1..Len(b), j # n
                 PROVE  Sched!Before(b[n], b[j])
      OBVIOUS
    <3>1. Order(b[n], b[j])
      BY <1>1, <1>2, <2>2 DEF Sorted
    <3> QED
      BY <2>2, <3>1 DEF Order
  <2> QED
    BY <2>1, <2>2
<1>4. Pop(b) = Removed(b, n)
  <2>1. CASE m_reverse
    <3>1. SubSeq(b, Len(b) + 1, Len(b)) = <<>>
      BY <1>1
    <3>2. SubSeq(b, 1, Len(b) - 1) \in Seq(Entries)
      BY <1>1
    <3>3. SubSeq(b, 1, Len(b) - 1) \o <<>> = SubSeq(b, 1, Len(b) - 1)
      BY <3>2
    <3> QED
      BY <2>1, <3>1, <3>3 DEF Pop, Removed
  <2>2. CASE ~m_reverse
    <3>1. SubSeq(b, 1, 0) = <<>> /\ SubSeq(b, 2, Len(b)) = Tail(b)
      BY <1>1
    <3>2. <<>> \o Tail(b) = Tail(b)
      BY <1>1
    <3>3. n = 1 /\ 1 - 1 = 0 /\ 1 + 1 = 2
      BY <2>2
    <3> QED
      BY <2>2, <3>1, <3>2, <3>3 DEF Pop, Removed
  <2> QED
    BY <2>1, <2>2
<1> HIDE DEF n
<1>5. Sorted(Pop(b)) /\ Listed(Pop(b)) = Listed(b) \ {b[n]}
  BY <1>2, <1>4, RemoveSorted
<1>6. \A e \in Listed(b) : e = b[n] \/ Sched!Before(b[n], e)
  BY <1>3 DEF Listed
<1>7. b[n] \in Listed(b) /\ b[n] \in Entries
  BY <1>1, <1>2 DEF Listed
<1> QED
  BY <1>2, <1>5, <1>6, <1>7

-----------------------------------------------------------------------------
(* Days                                                                     *)

\* The day of a time stamp.
LEMMA DayIs ==
  ASSUME NEW w \in Nat \ {0}, NEW t \in Nat
  PROVE  /\ t \div w \in Nat
         /\ (t \div w) * w <= t /\ t < (t \div w + 1) * w
<1>1. t = w * (t \div w) + (t % w) /\ t \div w \in Int /\ t % w \in 0..w - 1
  OBVIOUS
<1> DEFINE q == t \div w
           r == t % w
<1> HIDE DEF q, r
<1>2. q \in Int /\ r \in Nat /\ r < w /\ t = w * q + r
  BY <1>1 DEF q, r
<1>3. q >= 0
  <2> SUFFICES ASSUME q <= -1
               PROVE  FALSE
    BY <1>2
  <2>1. w * q <= w * (-1)
    BY <1>2
  <2> QED
    BY <1>2, <2>1
<1>4. q * w <= t /\ t < (q + 1) * w
  BY <1>2
<1> QED
  BY <1>2, <1>3, <1>4 DEF q

LEMMA TimesWidth ==
  ASSUME NEW w \in Nat \ {0}, NEW a \in Int, NEW b \in Int
  PROVE  /\ a * w \in Int
         /\ a <= b => a * w <= b * w
         /\ (a + b) * w = a * w + b * w
  OBVIOUS

\* A time stamp is before the end of a day if its own day is not a later one.
LEMMA BeforeEnd ==
  ASSUME NEW w \in Nat \ {0}, NEW t \in Nat, NEW d \in Nat
  PROVE  t < (d + 1) * w <=> t \div w <= d
<1> DEFINE q == t \div w
<1>1. q \in Nat /\ q * w <= t /\ t < (q + 1) * w
  BY DayIs
<1> HIDE DEF q
<1>2. CASE q <= d
  <2>1. (q + 1) * w <= (d + 1) * w /\ (q + 1) * w \in Int /\ (d + 1) * w \in Int
    BY <1>1, <1>2, TimesWidth
  <2> QED
    BY <1>1, <1>2, <2>1 DEF q
<1>3. CASE d + 1 <= q
  <2>1. (d + 1) * w <= q * w /\ q * w \in Int /\ (d + 1) * w \in Int
    BY <1>1, <1>3, TimesWidth
  <2> QED
    BY <1>1, <1>3, <2>1 DEF q
<1> QED
  BY <1>1, <1>2, <1>3

\* An earlier time stamp is not on a later day.
LEMMA DaysInOrder ==
  ASSUME NEW w \in Nat \ {0}, NEW s \in Nat, NEW t \in Nat
  PROVE  /\ s <= t => s \div w <= t \div w
         /\ s \div w < t \div w => s < t
<1>1. /\ s \div w \in Nat /\ t \div w \in Nat
      /\ s < (s \div w + 1) * w /\ t < (t \div w + 1) * w
  BY DayIs
<1>2. s <= t => s \div w <= t \div w
  <2> SUFFICES ASSUME s <= t
               PROVE  s < (t \div w + 1) * w
    BY <1>1, BeforeEnd
  <2>1. (t \div w + 1) * w \in Int
    BY <1>1, TimesWidth
  <2> QED
    BY <1>1, <2>1
<1>3. t <= s => t \div w <= s \div w
  <2> SUFFICES ASSUME t <= s
               PROVE  t < (s \div w + 1) * w
    BY <1>1, BeforeEnd
  <2>1. (s \div w + 1) * w \in Int
    BY <1>1, TimesWidth
  <2> QED
    BY <1>1, <2>1
<1> QED
  BY <1>1, <1>2, <1>3

\* Days of one year that have the same bucket are the same day.
LEMMA SameDay ==
  ASSUME NEW n \in Nat \ {0}, NEW a \in Nat, NEW b \in Nat, a <= b, b < a + n, a % n = b % n
  PROVE  a = b
<1>1. PICK r \in 0..n - 1, q \in Int : a = n * q + r /\ a % n = r
  BY Division
<1>2. PICK s \in 0..n - 1, p \in Int : b = n * p + s /\ b % n = s
  BY Division
<1>3. r = s /\ b - a = n * (p - q) /\ 0 <= b - a /\ b - a < n
  BY <1>1, <1>2
<1>4. p - q <= 0
  <2> SUFFICES ASSUME p - q >= 1
               PROVE  FALSE
    BY <1>1, <1>2
  <2>1. n * (p - q) >= n * 1
    BY TimesWidth
  <2> QED
    BY <1>3, <2>1
<1>5. n * (p - q) <= 0
  BY <1>4, TimesWidth
<1> QED
  BY <1>1, <1>2, <1>3, <1>5

-----------------------------------------------------------------------------
(* Calendars                                                                *)

LEMMA Shape ==
  ASSUME NEW n \in Nat \ {0}, NEW c \in Calendars(n)
  PROVE  /\ DOMAIN c.m_buckets = 0..n - 1 /\ NBuckets(c) = n
         /\ \A i \in 0..n - 1 : Bucket(c, i) \in Seq(Entries) /\ Len(Bucket(c, i)) \in Nat
         /\ c.m_width \in Nat \ {0} /\ c.m_lastPrio \in Nat /\ c.m_qSize \in Nat
<1>1. DOMAIN c.m_buckets = 0..n - 1
  BY DEF Calendars
<1>2. Cardinality(0..n - 1) = n
  BY FS_Interval
<1> QED
  BY <1>1, <1>2 DEF NBuckets, Bucket, Calendars

\* What is in a calendar is what is in its buckets.
LEMMA EventsAre ==
  ASSUME NEW n \in Nat \ {0}, NEW c \in Calendars(n)
  PROVE  /\ \A i \in 0..n - 1 : Listed(Bucket(c, i)) \subseteq Events(c)
         /\ \A e \in Events(c) : e \in Entries /\ \E i \in 0..n - 1 : e \in Listed(Bucket(c, i))
<1>1. DOMAIN c.m_buckets = 0..n - 1
  BY Shape
<1>2. \A i \in 0..n - 1 : /\ Bucket(c, i) \in Seq(Entries)
                          /\ Listed(Bucket(c, i)) = {Bucket(c, i)[j] : j \in DOMAIN Bucket(c, i)}
                          /\ Listed(Bucket(c, i)) \subseteq Entries
  <2> SUFFICES ASSUME NEW i \in 0..n - 1
               PROVE  /\ Bucket(c, i) \in Seq(Entries)
                      /\ Listed(Bucket(c, i)) = {Bucket(c, i)[j] : j \in DOMAIN Bucket(c, i)}
                      /\ Listed(Bucket(c, i)) \subseteq Entries
    OBVIOUS
  <2>1. Bucket(c, i) \in Seq(Entries)
    BY Shape
  <2> HIDE DEF Bucket
  <2>2. DOMAIN Bucket(c, i) = 1..Len(Bucket(c, i)) /\ \A j \in 1..Len(Bucket(c, i)) : Bucket(c, i)[j] \in Entries
    BY <2>1
  <2> QED
    BY <2>1, <2>2 DEF Listed
<1>3. Events(c) = UNION {Listed(Bucket(c, i)) : i \in 0..n - 1}
  BY <1>1, <1>2 DEF Events
<1> QED
  BY <1>2, <1>3

LEMMA HashIs ==
  ASSUME NEW n \in Nat \ {0}, NEW c \in Calendars(n), NEW t \in Nat
  PROVE  /\ Hash(c, t) \in 0..n - 1 /\ Hash(c, t) = (t \div c.m_width) % n
         /\ t \div c.m_width \in Nat
<1>1. t \div c.m_width \in Nat /\ NBuckets(c) = n
  BY Shape, DayIs
<1> QED
  BY <1>1 DEF Hash

\* One bucket is replaced.
Rebucketed(d, c, i, b) == d.m_buckets = [c.m_buckets EXCEPT ![i] = b] /\ d.m_width = c.m_width

LEMMA OneBucket ==
  ASSUME NEW n \in Nat \ {0}, NEW c \in Calendars(n), NEW d \in Calendars(n), NEW i \in 0..n - 1,
         NEW b, Rebucketed(d, c, i, b)
  PROVE  /\ Bucket(d, i) = b /\ \A j \in 0..n - 1 : j # i => Bucket(d, j) = Bucket(c, j)
         /\ \A t \in Nat : Hash(d, t) = Hash(c, t)
<1>1. DOMAIN c.m_buckets = 0..n - 1 /\ NBuckets(c) = n /\ NBuckets(d) = n
  BY Shape
<1> QED
  BY <1>1 DEF Rebucketed, Bucket, Hash

LEMMA Refiled ==
  ASSUME NEW n \in Nat \ {0}, NEW c, Filed(c, n), NEW d \in Calendars(n), NEW i \in 0..n - 1,
         NEW b, Sorted(b), \A e \in Listed(b) : Hash(c, e.ts) = i, Rebucketed(d, c, i, b)
  PROVE  Filed(d, n)
<1>1. /\ c \in Calendars(n)
      /\ \A j \in 0..n - 1 : Sorted(Bucket(c, j)) /\ \A e \in Listed(Bucket(c, j)) : Hash(c, e.ts) = j
  BY DEF Filed
<1>2. /\ Bucket(d, i) = b /\ \A j \in 0..n - 1 : j # i => Bucket(d, j) = Bucket(c, j)
      /\ \A t \in Nat : Hash(d, t) = Hash(c, t)
  BY <1>1, OneBucket
<1>3. ASSUME NEW j \in 0..n - 1
      PROVE  Sorted(Bucket(d, j)) /\ \A e \in Listed(Bucket(d, j)) : Hash(d, e.ts) = j
  <2>1. Sorted(Bucket(d, j)) /\ \A e \in Listed(Bucket(d, j)) : Hash(c, e.ts) = j
    BY <1>1, <1>2
  <2>2. \A e \in Listed(Bucket(d, j)) : e.ts \in Nat
    <3>1. \A e \in Listed(Bucket(d, j)) : e \in Entries
      BY <2>1 DEF Sorted, Listed
    <3> QED
      BY <3>1 DEF Entries
  <2> QED
    BY <1>2, <2>1, <2>2
<1> QED
  BY <1>3 DEF Filed

LEMMA EventAdded ==
  ASSUME NEW n \in Nat \ {0}, NEW c \in Calendars(n), NEW d \in Calendars(n), NEW i \in 0..n - 1,
         NEW b, Rebucketed(d, c, i, b), NEW ev, Listed(b) = Listed(Bucket(c, i)) \cup {ev}
  PROVE  Events(d) = Events(c) \cup {ev}
<1>1. Bucket(d, i) = b /\ \A j \in 0..n - 1 : j # i => Bucket(d, j) = Bucket(c, j)
  BY OneBucket
<1>2. \A j \in 0..n - 1 : /\ Listed(Bucket(d, j)) \subseteq Listed(Bucket(c, j)) \cup {ev}
                          /\ Listed(Bucket(c, j)) \subseteq Listed(Bucket(d, j))
  BY <1>1
<1>3. ev \in Listed(Bucket(d, i))
  BY <1>1
<1> HIDE DEF Bucket, Events, Listed
<1>4. ASSUME NEW e \in Events(d)
      PROVE  e \in Events(c) \cup {ev}
  <2>1. PICK j \in 0..n - 1 : e \in Listed(Bucket(d, j))
    BY EventsAre
  <2> QED
    BY <1>2, <2>1, EventsAre
<1>5. ASSUME NEW e \in Events(c)
      PROVE  e \in Events(d)
  <2>1. PICK j \in 0..n - 1 : e \in Listed(Bucket(c, j))
    BY EventsAre
  <2> QED
    BY <1>2, <2>1, EventsAre
<1>6. ev \in Events(d)
  BY <1>3, EventsAre
<1> QED
  BY <1>4, <1>5, <1>6

LEMMA EventTaken ==
  ASSUME NEW n \in Nat \ {0}, NEW c, Filed(c, n), NEW d \in Calendars(n), NEW i \in 0..n - 1,
         NEW b, Rebucketed(d, c, i, b), NEW ev, Hash(c, ev.ts) = i,
         Listed(b) = Listed(Bucket(c, i)) \ {ev}
  PROVE  Events(d) = Events(c) \ {ev}
<1>1. /\ c \in Calendars(n)
      /\ \A j \in 0..n - 1 : \A e \in Listed(Bucket(c, j)) : Hash(c, e.ts) = j
  BY DEF Filed
<1>2. Bucket(d, i) = b /\ \A j \in 0..n - 1 : j # i => Bucket(d, j) = Bucket(c, j)
  BY <1>1, OneBucket
<1>3. \A j \in 0..n - 1 : Listed(Bucket(d, j)) = Listed(Bucket(c, j)) \ {ev}
  <2> SUFFICES ASSUME NEW j \in 0..n - 1, j # i
               PROVE  Listed(Bucket(d, j)) = Listed(Bucket(c, j)) \ {ev}
    BY <1>2
  <2>1. ev \notin Listed(Bucket(c, j))
    BY <1>1
  <2> QED
    BY <1>2, <2>1
<1> HIDE DEF Bucket, Events, Listed
<1>4. ASSUME NEW e \in Events(d)
      PROVE  e \in Events(c) \ {ev}
  <2>1. PICK j \in 0..n - 1 : e \in Listed(Bucket(d, j))
    BY EventsAre
  <2> QED
    BY <1>1, <1>3, <2>1, EventsAre
<1>5. ASSUME NEW e \in Events(c) \ {ev}
      PROVE  e \in Events(d)
  <2>1. PICK j \in 0..n - 1 : e \in Listed(Bucket(c, j))
    BY <1>1, EventsAre
  <2> QED
    BY <1>3, <2>1, EventsAre
<1> QED
  BY <1>4, <1>5

-----------------------------------------------------------------------------
(* DoInsert                                                                 *)

\* Only the buckets differ.
SameSearch(d, c) ==
    /\ d.m_width = c.m_width /\ d.m_lastPrio = c.m_lastPrio /\ d.m_lastBucket = c.m_lastBucket
    /\ d.m_bucketTop = c.m_bucketTop /\ d.m_qSize = c.m_qSize

\* DoInsert puts the event at a place of the bucket of its day.
LEMMA InsertPlace ==
  ASSUME NEW n \in Nat \ {0}, NEW c \in Calendars(n), NEW ev \in Entries
  PROVE  \E at \in 1..Len(Bucket(c, Hash(c, ev.ts))) + 1 :
            LET list == Bucket(c, Hash(c, ev.ts))
            IN  /\ at <= Len(list) => Order(ev, list[at])
                /\ \A j \in 1..at - 1 : ~Order(ev, list[j])
                /\ DoInsert(c, ev) = [c EXCEPT !.m_buckets[Hash(c, ev.ts)] = Inserted(list, at, ev)]
<1> DEFINE list == Bucket(c, Hash(c, ev.ts))
           at == CHOOSE i \in 1..Len(list) + 1 :
                     /\ i <= Len(list) => Order(ev, list[i])
                     /\ \A j \in 1..i - 1 : ~Order(ev, list[j])
<1>1. ev.ts \in Nat
  BY DEF Entries
<1>2. Hash(c, ev.ts) \in 0..n - 1
  BY <1>1, HashIs
<1>3. list \in Seq(Entries)
  BY <1>2, Shape
<1>4. DoInsert(c, ev) = [c EXCEPT !.m_buckets[Hash(c, ev.ts)] = Inserted(list, at, ev)]
  BY DEF DoInsert, Inserted, SeqExt!InsertAt
<1> HIDE DEF list
<1>5. /\ at \in 1..Len(list) + 1
      /\ at <= Len(list) => Order(ev, list[at])
      /\ \A j \in 1..at - 1 : ~Order(ev, list[j])
  BY <1>3, PlaceFound
<1> HIDE DEF at
<1> QED
  BY <1>4, <1>5 DEF list

LEMMA InsertStays ==
  ASSUME NEW n \in Nat \ {0}, NEW c \in Calendars(n), NEW ev \in Entries
  PROVE  DoInsert(c, ev) \in Calendars(n) /\ SameSearch(DoInsert(c, ev), c)
<1> DEFINE i == Hash(c, ev.ts)
           list == Bucket(c, i)
<1>1. PICK at \in 1..Len(list) + 1 : DoInsert(c, ev) = [c EXCEPT !.m_buckets[i] = Inserted(list, at, ev)]
  BY InsertPlace
<1>2. ev.ts \in Nat
  BY DEF Entries
<1>3. i \in 0..n - 1 /\ list \in Seq(Entries)
  BY <1>2, HashIs, Shape
<1> HIDE DEF i, list
<1> DEFINE b == Inserted(list, at, ev)
<1>4. b \in Seq(Entries)
  BY <1>3, InsertingEntry
<1> HIDE DEF b
<1>5. DoInsert(c, ev) = [c EXCEPT !.m_buckets[i] = b]
  BY <1>1 DEF b
<1> QED
  BY <1>3, <1>4, <1>5, ZenonT(60) DEF Calendars, SameSearch

\* The event is in the calendar, which stays filed.
LEMMA InsertIs ==
  ASSUME NEW n \in Nat \ {0}, NEW c, Filed(c, n), NEW ev \in Entries,
         \A e \in Events(c) : e.uid # ev.uid
  PROVE  LET d == DoInsert(c, ev)
         IN  Filed(d, n) /\ Events(d) = Events(c) \cup {ev} /\ SameSearch(d, c)
<1> DEFINE i == Hash(c, ev.ts)
           list == Bucket(c, i)
           d == DoInsert(c, ev)
<1>1. c \in Calendars(n) /\ ev.ts \in Nat
  BY DEF Filed, Entries
<1>2. i \in 0..n - 1
  BY <1>1, HashIs
<1>3. PICK at \in 1..Len(list) + 1 :
         /\ at <= Len(list) => Order(ev, list[at])
         /\ \A j \in 1..at - 1 : ~Order(ev, list[j])
         /\ d = [c EXCEPT !.m_buckets[i] = Inserted(list, at, ev)]
  BY <1>1, InsertPlace
<1>4. d \in Calendars(n) /\ SameSearch(d, c)
  BY <1>1, InsertStays
<1>5. Sorted(list) /\ \A e \in Listed(list) : Hash(c, e.ts) = i
  BY <1>2 DEF Filed
<1>6. \A e \in Listed(list) : e.uid # ev.uid
  BY <1>1, <1>2, EventsAre
<1> DEFINE b == Inserted(list, at, ev)
<1>7. Rebucketed(d, c, i, b) /\ list = Bucket(c, i)
  BY <1>1, <1>3, <1>4 DEF Rebucketed, Calendars, SameSearch
<1> HIDE DEF d, list
<1>8. Sorted(b) /\ Listed(b) = Listed(list) \cup {ev}
  BY <1>3, <1>5, <1>6, InsertSorted
<1> HIDE DEF b
<1>9. \A e \in Listed(b) : Hash(c, e.ts) = i
  BY <1>5, <1>8 DEF i
<1> HIDE DEF i
<1>10. Filed(d, n)
  BY <1>2, <1>4, <1>7, <1>8, <1>9, Refiled
<1>11. Events(d) = Events(c) \cup {ev}
  <2>1. Listed(b) = Listed(Bucket(c, i)) \cup {ev}
    BY <1>7, <1>8
  <2>2. c \in Calendars(n) /\ d \in Calendars(n) /\ Rebucketed(d, c, i, b)
    BY <1>1, <1>4, <1>7
  <2> QED
    BY <1>2, <2>1, <2>2, EventAdded, SMTT(30)
<1> QED
  BY <1>4, <1>10, <1>11 DEF d

-----------------------------------------------------------------------------
(* The insertion of a list of events                                        *)

LEMMA InsertAllUnfolds ==
  ASSUME NEW n \in Nat \ {0}, NEW c \in Calendars(n), NEW list \in Seq(Entries)
  PROVE  \E f : /\ f[0] = c /\ InsertAll(c, list) = f[Len(list)]
                /\ \A k \in 1..Len(list) : f[k] = DoInsert(f[k - 1], list[k])
                /\ \A k \in 0..Len(list) : f[k] \in Calendars(n)
<1> DEFINE len == Len(list)
           S == Calendars(n)
           values(f) == [k \in 0..len |-> IF k = 0 THEN c ELSE DoInsert(f[k - 1], list[k])]
           inserted == CHOOSE f : f = values(f)
           g == [k \in 1..len |-> [v \in S |-> DoInsert(v, list[k])]]
<1>1. len \in Nat /\ \A k \in 1..len : list[k] \in Entries
  OBVIOUS
<1>2. \A k \in 1..len : \A v \in S : DoInsert(v, list[k]) \in S
  BY <1>1, InsertStays
<1>3. StaysIn(g, len, S)
  BY <1>2 DEF StaysIn
<1>4. PICK f : IsFold(f, g, len, S, c)
  <2> HIDE DEF g, len, S, inserted
  <2> QED
    BY <1>1, <1>3, Folding, Zenon DEF S
<1> HIDE DEF S
<1>5. \A k \in 1..len : f[k - 1] \in S /\ f[k] = DoInsert(f[k - 1], list[k])
  <2>1. \A k \in 1..len : f[k - 1] \in S
    BY <1>1, <1>4 DEF IsFold
  <2> QED
    BY <1>4, <2>1 DEF IsFold
<1>6. f = values(f)
  BY <1>1, <1>4, <1>5 DEF IsFold
<1>7. inserted = values(inserted)
  BY <1>6
<1>8. InsertAll(c, list) = inserted[len]
  BY DEF InsertAll
<1> HIDE DEF inserted, g
<1>9. inserted[0] = c /\ \A k \in 1..len : inserted[k] = DoInsert(inserted[k - 1], list[k])
  <2> DEFINE v == values(inserted)
  <2>1. inserted = v /\ v[0] = c /\ \A k \in 1..len : v[k] = DoInsert(inserted[k - 1], list[k])
    BY <1>1, <1>7, SMTT(30)
  <2> HIDE DEF v
  <2> QED
    BY <2>1
<1>10. \A k \in 0..len : inserted[k] \in S
  <2> DEFINE T == {k \in 0..len : inserted[k] \in S}
  <2>1. 0 \in T
    BY <1>1, <1>9 DEF S
  <2>2. \A k \in 1..len : k - 1 \in T => k \in T
    BY <1>2, <1>9
  <2> HIDE DEF T
  <2>3. \A k \in 0..len : k \in T
    BY <1>1, <2>1, <2>2, UpTo
  <2> QED
    BY <2>3 DEF T
<1> QED
  BY <1>8, <1>9, <1>10 DEF S

LEMMA InsertAllStays ==
  ASSUME NEW n \in Nat \ {0}, NEW c \in Calendars(n), NEW list \in Seq(Entries)
  PROVE  InsertAll(c, list) \in Calendars(n) /\ SameSearch(InsertAll(c, list), c)
<1> DEFINE len == Len(list)
<1>1. PICK f : /\ f[0] = c /\ InsertAll(c, list) = f[len]
               /\ \A k \in 1..len : f[k] = DoInsert(f[k - 1], list[k])
               /\ \A k \in 0..len : f[k] \in Calendars(n)
  BY InsertAllUnfolds
<1>2. len \in Nat /\ \A k \in 1..len : list[k] \in Entries
  OBVIOUS
<1> HIDE DEF len
<1> DEFINE T == {k \in 0..len : SameSearch(f[k], c)}
<1>3. 0 \in T
  BY <1>1, <1>2 DEF SameSearch
<1>4. ASSUME NEW k \in 1..len, k - 1 \in T
      PROVE  k \in T
  <2>1. SameSearch(f[k - 1], c) /\ f[k - 1] \in Calendars(n)
    BY <1>1, <1>4
  <2>2. SameSearch(f[k], f[k - 1])
    BY <1>1, <1>2, <2>1, InsertStays
  <2> QED
    BY <2>1, <2>2 DEF SameSearch
<1> HIDE DEF T
<1>5. \A k \in 0..len : k \in T
  BY <1>2, <1>3, <1>4, UpTo
<1> QED
  BY <1>1, <1>2, <1>5 DEF T

\* No two events of a list have the same uid.
OwnUids(list) == \A i, j \in 1..Len(list) : i < j => list[i].uid # list[j].uid

\* The events of the list are in the calendar, which stays filed.
LEMMA InsertAllIs ==
  ASSUME NEW n \in Nat \ {0}, NEW c, Filed(c, n), NEW list \in Seq(Entries), OwnUids(list),
         \A e \in Events(c) : \A i \in 1..Len(list) : e.uid # list[i].uid
  PROVE  LET d == InsertAll(c, list)
         IN  Filed(d, n) /\ Events(d) = Events(c) \cup Listed(list)
<1> DEFINE len == Len(list)
<1>0. c \in Calendars(n)
  BY DEF Filed
<1>1. PICK f : /\ f[0] = c /\ InsertAll(c, list) = f[len]
               /\ \A k \in 1..len : f[k] = DoInsert(f[k - 1], list[k])
               /\ \A k \in 0..len : f[k] \in Calendars(n)
  BY <1>0, InsertAllUnfolds
<1>2. len \in Nat /\ \A k \in 1..len : list[k] \in Entries
  OBVIOUS
<1> DEFINE first(k) == {list[i] : i \in 1..k}
           T == {k \in 0..len : Filed(f[k], n) /\ Events(f[k]) = Events(c) \cup first(k)}
<1>3. 0 \in T
  <2>1. first(0) = {}
    OBVIOUS
  <2> QED
    BY <1>1, <1>2, <2>1
<1>4. ASSUME NEW k \in 1..len, k - 1 \in T
      PROVE  k \in T
  <2>1. Filed(f[k - 1], n) /\ Events(f[k - 1]) = Events(c) \cup first(k - 1)
    BY <1>4
  <2>2. \A i \in 1..k - 1 : list[i].uid # list[k].uid
    BY <1>2 DEF OwnUids
  <2>3. \A e \in Events(f[k - 1]) : e.uid # list[k].uid
    BY <2>1, <2>2
  <2>4. Filed(f[k], n) /\ Events(f[k]) = Events(f[k - 1]) \cup {list[k]}
    <3> HIDE DEF T, first
    <3> QED
      BY <1>1, <1>2, <2>1, <2>3, InsertIs
  <2>5. first(k) = first(k - 1) \cup {list[k]}
    <3>1. \A i \in 1..k : i \in 1..k - 1 \/ i = k
      OBVIOUS
    <3>2. \A i \in 1..k - 1 : i \in 1..k
      OBVIOUS
    <3> QED
      BY <3>1, <3>2
  <2> QED
    BY <2>1, <2>4, <2>5
<1> HIDE DEF T, first
<1>5. \A k \in 0..len : k \in T
  <2> HIDE DEF len
  <2> QED
    BY <1>2, <1>3, <1>4, UpTo
<1>6. len \in T
  BY <1>2, <1>5
<1> QED
  BY <1>1, <1>6 DEF T, first, Listed

-----------------------------------------------------------------------------
(* The search for the next event                                            *)

\* The search is at the day of the event taken out last, before which there is none.
Placed(c) ==
    /\ c.m_lastBucket = Hash(c, c.m_lastPrio)
    /\ c.m_bucketTop = (c.m_lastPrio \div c.m_width + 1) * c.m_width
    /\ \A e \in Events(c) : e.ts >= c.m_lastPrio

Distinct(E) == \A a, b \in E : a.uid = b.uid => a = b

\* A calendar in which the search finds the events in their order.
Kept(c, n) == Filed(c, n) /\ Placed(c) /\ Distinct(Events(c)) /\ IsFiniteSet(Events(c))

\* The day of the event taken out last.
Today(c) == c.m_lastPrio \div c.m_width

\* The bucket scanned after k others is that of the day k days later.
LEMMA ScanIs ==
  ASSUME NEW n \in Nat \ {0}, NEW c \in Calendars(n), Placed(c), NEW k \in 0..n - 1
  PROVE  /\ Today(c) \in Nat
         /\ ScanBucket(c, k) \in 0..n - 1 /\ ScanBucket(c, k) = (Today(c) + k) % n
         /\ ScanTop(c, k) = (Today(c) + k + 1) * c.m_width
<1> DEFINE D == Today(c)
           w == c.m_width
<1>1. w \in Nat \ {0} /\ NBuckets(c) = n /\ c.m_lastPrio \in Nat
  BY Shape
<1>2. D \in Nat /\ c.m_lastBucket = D % n
  BY <1>1, HashIs DEF Placed, Today
<1>3. c.m_bucketTop = (D + 1) * w
  BY DEF Placed, Today
<1> HIDE DEF D
<1>4. ScanBucket(c, k) = (D + k) % n
  <2>1. ScanBucket(c, k) = ((D % n) + k) % n
    BY <1>1, <1>2 DEF ScanBucket
  <2>2. (k + D) % n = (k + (D % n)) % n
    BY <1>2, ModTwice
  <2>3. D % n \in Int /\ k \in Int
    BY <1>2
  <2>4. k + D = D + k /\ k + (D % n) = (D % n) + k
    BY <1>2, <2>3
  <2> QED
    BY <2>1, <2>2, <2>4
<1>5. ScanTop(c, k) = (D + k + 1) * w
  <2>1. ((D + 1) + k) * w = (D + 1) * w + k * w
    <3>1. D + 1 \in Int /\ k \in Int
      BY <1>2
    <3> QED
      BY <1>1, <3>1, TimesWidth
  <2>2. (D + 1) + k = D + k + 1
    BY <1>2
  <2> QED
    BY <1>3, <2>1, <2>2 DEF ScanTop
<1>6. (D + k) % n \in 0..n - 1
  BY <1>2
<1> QED
  BY <1>2, <1>4, <1>5, <1>6 DEF D

\* An event that the scan finds before the end of the day is of that day, of this year.
LEMMA FoundIsToday ==
  ASSUME NEW n \in Nat \ {0}, NEW c, Kept(c, n), NEW k \in 0..n - 1,
         NEW e \in Listed(Bucket(c, ScanBucket(c, k)))
  PROVE  e.ts < ScanTop(c, k) <=> e.ts \div c.m_width = Today(c) + k
<1> DEFINE D == Today(c)
           w == c.m_width
           day == e.ts \div w
<1>1. c \in Calendars(n) /\ Placed(c) /\ Filed(c, n)
  BY DEF Kept, Filed
<1>2. /\ D \in Nat /\ ScanBucket(c, k) \in 0..n - 1 /\ ScanBucket(c, k) = (D + k) % n
      /\ ScanTop(c, k) = (D + k + 1) * w
  BY <1>1, ScanIs
<1>3. e \in Events(c) /\ e.ts \in Nat /\ e.ts >= c.m_lastPrio /\ w \in Nat \ {0} /\ c.m_lastPrio \in Nat
  <2>1. e \in Events(c)
    BY <1>1, <1>2, EventsAre
  <2>2. e \in Entries
    BY <1>1, <2>1, EventsAre
  <2> QED
    BY <1>1, <2>1, <2>2, Shape DEF Placed, Entries
<1>4. day \in Nat /\ day % n = (D + k) % n
  <2>1. Hash(c, e.ts) = ScanBucket(c, k)
    BY <1>1, <1>2 DEF Filed
  <2>2. Hash(c, e.ts) = day % n /\ day \in Nat
    BY <1>1, <1>3, HashIs
  <2> QED
    BY <1>2, <2>1, <2>2
<1>5. D <= day
  BY <1>3, DaysInOrder DEF Today
<1> HIDE DEF D
<1>6. e.ts < ScanTop(c, k) <=> day <= D + k
  <2>1. D + k \in Nat
    BY <1>2
  <2>2. e.ts < ((D + k) + 1) * w <=> day <= D + k
    BY <1>3, <2>1, BeforeEnd
  <2> QED
    BY <1>2, <2>2
<1> HIDE DEF day
<1>7. ASSUME day <= D + k
      PROVE  day = D + k
  <2>1. D + k \in Nat /\ D + k < day + n
    BY <1>2, <1>4, <1>5
  <2> QED
    BY <1>4, <1>7, <2>1, SameDay
<1>8. day <= D + k <=> day = D + k
  BY <1>2, <1>4, <1>7
<1> QED
  BY <1>6, <1>8 DEF day, D

\* Events have an earliest one.
LEMMA EarliestExists ==
  ASSUME NEW E \in SUBSET Entries, E # {}, Distinct(E)
  PROVE  \E e \in E : \A x \in E \ {e} : Sched!Before(e, x)
<1> DEFINE T == {e.ts : e \in E}
<1>1. T \in SUBSET Nat /\ T # {}
  BY DEF Entries
<1>2. PICK t \in T : \A x \in T : t <= x
  <2> HIDE DEF T
  <2> QED
    BY <1>1, Least
<1> DEFINE U == {e.uid : e \in {x \in E : x.ts = t}}
<1>3. U \in SUBSET Nat /\ U # {}
  BY DEF Entries
<1>4. PICK u \in U : \A x \in U : u <= x
  <2> HIDE DEF U
  <2> QED
    BY <1>3, Least
<1>5. PICK e \in E : e.ts = t /\ e.uid = u
  BY <1>4
<1>6. ASSUME NEW x \in E \ {e}
      PROVE  Sched!Before(e, x)
  <2>1. x.ts \in Nat /\ e.ts \in Nat /\ x.uid \in Nat /\ e.uid \in Nat /\ x.uid # e.uid
    BY <1>5, <1>6 DEF Entries, Distinct
  <2>2. t <= x.ts
    BY <1>2
  <2>3. x.ts = t => u <= x.uid
    BY <1>4
  <2> QED
    BY <1>5, <2>1, <2>2, <2>3 DEF Sched!Before
<1> QED
  BY <1>6

\* An event is in the bucket of its day, and not before the next one of the bucket.
LEMMA BucketOf ==
  ASSUME NEW n \in Nat \ {0}, NEW c, Filed(c, n), NEW e \in Events(c)
  PROVE  LET b == Bucket(c, Hash(c, e.ts))
         IN  /\ e \in Entries /\ Hash(c, e.ts) \in 0..n - 1 /\ Hash(c, e.ts) \in NonEmpty(c)
             /\ e \in Listed(b) /\ (e = NextEvent(b) \/ Sched!Before(NextEvent(b), e))
<1>1. c \in Calendars(n)
  BY DEF Filed
<1>2. PICK i \in 0..n - 1 : e \in Listed(Bucket(c, i))
  BY <1>1, EventsAre
<1>3. Hash(c, e.ts) = i /\ Sorted(Bucket(c, i)) /\ e \in Entries
  BY <1>1, <1>2, EventsAre DEF Filed
<1>4. Bucket(c, i) # <<>>
  BY <1>2 DEF Listed
<1>5. i \in NonEmpty(c)
  BY <1>1, <1>4, Shape DEF NonEmpty
<1>6. e = NextEvent(Bucket(c, i)) \/ Sched!Before(NextEvent(Bucket(c, i)), e)
  BY <1>2, <1>3, <1>4, NextPopped
<1> QED
  BY <1>2, <1>3, <1>5, <1>6

\* The next event of a bucket that is not empty.
LEMMA NextOf ==
  ASSUME NEW n \in Nat \ {0}, NEW c, Filed(c, n), NEW i \in NonEmpty(c)
  PROVE  LET e == NextEvent(Bucket(c, i))
         IN  /\ i \in 0..n - 1 /\ e \in Listed(Bucket(c, i)) /\ e \in Events(c) /\ e \in Entries
             /\ Hash(c, e.ts) = i
<1>1. c \in Calendars(n)
  BY DEF Filed
<1>2. i \in 0..n - 1 /\ Bucket(c, i) # <<>>
  BY <1>1, Shape DEF NonEmpty
<1>3. Sorted(Bucket(c, i)) /\ \A e \in Listed(Bucket(c, i)) : Hash(c, e.ts) = i
  BY <1>2 DEF Filed
<1>4. NextEvent(Bucket(c, i)) \in Listed(Bucket(c, i)) /\ NextEvent(Bucket(c, i)) \in Entries
  BY <1>2, <1>3, NextPopped
<1> QED
  BY <1>1, <1>2, <1>3, <1>4, EventsAre

\* Where the scan stops.
LEMMA FirstStop ==
  ASSUME NEW c, NBuckets(c) \in Nat, ThisYear(c) # {},
         NEW k, k = CHOOSE i \in ThisYear(c) : \A l \in ThisYear(c) : i <= l
  PROVE  k \in ThisYear(c) /\ \A l \in ThisYear(c) : k <= l
<1>1. ThisYear(c) \in SUBSET Nat
  BY DEF ThisYear
<1>2. \E i \in ThisYear(c) : \A l \in ThisYear(c) : i <= l
  BY <1>1, Least
<1> QED
  BY <1>2

\* The event at which the scan stops is the earliest, and of the day it came to.
LEMMA ScanFindsEarliest ==
  ASSUME NEW n \in Nat \ {0}, NEW c, Kept(c, n), NEW k \in ThisYear(c), \A l \in ThisYear(c) : k <= l
  PROVE  LET ev == NextEvent(Bucket(c, ScanBucket(c, k)))
         IN  /\ ev \in Events(c) /\ \A e \in Events(c) \ {ev} : Sched!Before(ev, e)
             /\ k \in 0..n - 1 /\ ev.ts \div c.m_width = Today(c) + k
<1> DEFINE D == Today(c)
           w == c.m_width
           ev == NextEvent(Bucket(c, ScanBucket(c, k)))
<1>1. c \in Calendars(n) /\ Placed(c) /\ Filed(c, n) /\ NBuckets(c) = n
  BY Shape DEF Kept, Filed
<1>2. k \in 0..n - 1 /\ ScanBucket(c, k) \in NonEmpty(c) /\ ev.ts < ScanTop(c, k)
  BY <1>1 DEF ThisYear
<1>3. ev \in Listed(Bucket(c, ScanBucket(c, k))) /\ ev \in Events(c) /\ ev \in Entries
  BY <1>1, <1>2, NextOf
<1>4. ev.ts \div w = D + k
  BY <1>2, <1>3, FoundIsToday
<1>5. D \in Nat /\ w \in Nat \ {0} /\ ScanBucket(c, k) = (D + k) % n
  BY <1>1, <1>2, ScanIs, Shape
<1> SUFFICES ASSUME NEW e \in Events(c) \ {ev}
             PROVE  Sched!Before(ev, e)
  BY <1>2, <1>3, <1>4
<1> DEFINE day == e.ts \div w
           x == NextEvent(Bucket(c, Hash(c, e.ts)))
<1>6. /\ e \in Entries /\ Hash(c, e.ts) \in 0..n - 1 /\ Hash(c, e.ts) \in NonEmpty(c)
      /\ e \in Listed(Bucket(c, Hash(c, e.ts))) /\ (e = x \/ Sched!Before(x, e))
  BY <1>1, BucketOf
<1>7. e.ts \in Nat /\ ev.ts \in Nat /\ e.ts >= c.m_lastPrio /\ c.m_lastPrio \in Nat
  BY <1>1, <1>3, <1>6, Shape DEF Entries, Placed
<1>8. day \in Nat /\ D <= day /\ Hash(c, e.ts) = day % n
  BY <1>1, <1>5, <1>7, DaysInOrder, HashIs DEF Today
<1>9. x.ts \in Nat /\ x.ts <= e.ts
  <2>1. x \in Entries
    BY <1>1, <1>6, NextOf
  <2> HIDE DEF x
  <2> QED
    BY <1>6, <1>7, <2>1 DEF Entries, Sched!Before
<1>10. CASE day < D + k
  <2> DEFINE j == day - D
  <2>1. j \in 0..n - 1 /\ j < k /\ D + j = day
    BY <1>2, <1>5, <1>8, <1>10
  <2> HIDE DEF j, D, day
  <2>2. ScanBucket(c, j) = Hash(c, e.ts)
    BY <1>1, <1>8, <2>1, ScanIs DEF D
  <2>3. e.ts < ScanTop(c, j)
    BY <1>6, <2>1, <2>2, FoundIsToday DEF D, day
  <2>4. ScanTop(c, j) \in Int
    <3>1. ScanTop(c, j) = (D + j + 1) * w
      BY <1>1, <2>1, ScanIs DEF D
    <3>2. D + j + 1 \in Int
      BY <1>5, <2>1
    <3> QED
      BY <1>5, <3>1, <3>2, TimesWidth
  <2>5. x.ts < ScanTop(c, j)
    BY <1>7, <1>9, <2>3, <2>4
  <2>6. j \in ThisYear(c)
    BY <1>1, <1>6, <2>1, <2>2, <2>5 DEF ThisYear, x
  <2> QED
    BY <1>2, <2>1, <2>6
<1>11. CASE day = D + k
  <2>1. x = ev
    BY <1>5, <1>8, <1>11
  <2> QED
    BY <1>6, <2>1
<1>12. CASE day > D + k
  <2>1. ev.ts < e.ts
    BY <1>4, <1>5, <1>7, <1>12, DaysInOrder
  <2> QED
    BY <2>1 DEF Sched!Before
<1> QED
  BY <1>2, <1>5, <1>8, <1>10, <1>11, <1>12

\* Of the next events of all buckets one is the earliest of all.
LEMMA MinBucketIs ==
  ASSUME NEW n \in Nat \ {0}, NEW c, Kept(c, n), Events(c) # {}
  PROVE  LET ev == NextEvent(Bucket(c, MinBucket(c)))
         IN  ev \in Events(c) /\ \A e \in Events(c) \ {ev} : Sched!Before(ev, e)
<1>1. c \in Calendars(n) /\ Filed(c, n) /\ Distinct(Events(c))
  BY DEF Kept, Filed
<1>2. Events(c) \in SUBSET Entries
  BY <1>1, EventsAre
<1>3. PICK m \in Events(c) : \A e \in Events(c) \ {m} : Sched!Before(m, e)
  BY <1>1, <1>2, EarliestExists
<1> DEFINE NextIn(i) == NextEvent(Bucket(c, i))
           i0 == Hash(c, m.ts)
<1>4. i0 \in NonEmpty(c) /\ m \in Entries /\ (m = NextIn(i0) \/ Sched!Before(NextIn(i0), m))
  BY <1>1, BucketOf
<1>5. \A i \in NonEmpty(c) : NextIn(i) \in Events(c) /\ NextIn(i) \in Entries /\ Hash(c, NextIn(i).ts) = i
  BY <1>1, NextOf
<1> HIDE DEF NextIn
<1>6. m = NextIn(i0)
  <2>1. NextIn(i0) # m => Sched!Before(m, NextIn(i0))
    BY <1>3, <1>4, <1>5
  <2> QED
    BY <1>4, <1>5, <2>1, KeyOrder
<1>7. \A j \in NonEmpty(c) \ {i0} : Sched!Before(NextIn(i0), NextIn(j))
  <2> SUFFICES ASSUME NEW j \in NonEmpty(c) \ {i0}
               PROVE  Sched!Before(m, NextIn(j))
    BY <1>6
  <2>1. NextIn(j) # m
    BY <1>5
  <2> QED
    BY <1>3, <1>5, <2>1
<1> DEFINE p == MinBucket(c)
<1>8. p \in NonEmpty(c) /\ \A j \in NonEmpty(c) \ {p} : Sched!Before(NextIn(p), NextIn(j))
  BY <1>4, <1>7 DEF MinBucket, NextIn
<1> HIDE DEF p, i0
<1>9. ASSUME NEW e \in Events(c) \ {NextIn(p)}
      PROVE  Sched!Before(NextIn(p), e)
  <2> DEFINE j == Hash(c, e.ts)
  <2>1. j \in NonEmpty(c) /\ e \in Entries /\ (e = NextIn(j) \/ Sched!Before(NextIn(j), e))
    BY <1>1, BucketOf DEF NextIn
  <2> HIDE DEF j
  <2>2. CASE j = p
    BY <1>9, <2>1, <2>2
  <2>3. CASE j # p
    <3>1. Sched!Before(NextIn(p), NextIn(j)) /\ NextIn(p) \in Entries /\ NextIn(j) \in Entries
      BY <1>5, <1>8, <2>1, <2>3
    <3> QED
      BY <2>1, <3>1, KeyOrder
  <2> QED
    BY <2>2, <2>3
<1> QED
  BY <1>5, <1>8, <1>9 DEF NextIn, p

\* PeekNext finds the earliest event, wherever it is.
LEMMA PeekIs ==
  ASSUME NEW n \in Nat \ {0}, NEW c, Kept(c, n), Events(c) # {}
  PROVE  /\ PeekNext(c) \in Events(c) /\ PeekNext(c) \in Entries
         /\ \A e \in Events(c) \ {PeekNext(c)} : Sched!Before(PeekNext(c), e)
<1>1. c \in Calendars(n) /\ NBuckets(c) \in Nat
  BY Shape DEF Kept, Filed
<1>2. PeekNext(c) \in Events(c) /\ \A e \in Events(c) \ {PeekNext(c)} : Sched!Before(PeekNext(c), e)
  <2>1. CASE ThisYear(c) # {}
    <3> DEFINE k == CHOOSE k \in ThisYear(c) : \A l \in ThisYear(c) : k <= l
    <3>1. k \in ThisYear(c) /\ \A l \in ThisYear(c) : k <= l
      BY <1>1, <2>1, FirstStop
    <3>2. PeekNext(c) = NextEvent(Bucket(c, ScanBucket(c, k)))
      BY <2>1 DEF PeekNext
    <3> HIDE DEF k
    <3> QED
      BY <3>1, <3>2, ScanFindsEarliest
  <2>2. CASE ThisYear(c) = {}
    <3>1. PeekNext(c) = NextEvent(Bucket(c, MinBucket(c)))
      BY <2>2 DEF PeekNext
    <3> QED
      BY <3>1, MinBucketIs
  <2> QED
    BY <2>1, <2>2
<1> QED
  BY <1>1, <1>2, EventsAre

-----------------------------------------------------------------------------
(* DoRemoveNext                                                             *)

\* With the same buckets and the same width a calendar is the same list.
LEMMA SameFiling ==
  ASSUME NEW n \in Nat \ {0}, NEW c, Filed(c, n), NEW d \in Calendars(n),
         d.m_buckets = c.m_buckets, d.m_width = c.m_width
  PROVE  /\ Filed(d, n) /\ Events(d) = Events(c) /\ \A t \in Nat : Hash(d, t) = Hash(c, t)
         /\ \A i \in 0..n - 1 : Bucket(d, i) = Bucket(c, i)
<1>1. c \in Calendars(n) /\ DOMAIN c.m_buckets = 0..n - 1
  BY Shape DEF Filed
<1>2. (\A i \in 0..n - 1 : Bucket(d, i) = Bucket(c, i)) /\ NBuckets(d) = NBuckets(c)
  BY DEF Bucket, NBuckets
<1>3. \A t : Hash(d, t) = Hash(c, t)
  BY <1>2 DEF Hash
<1>4. Events(d) = Events(c)
  BY DEF Events, Bucket
<1>5. Filed(d, n)
  BY <1>2, <1>3 DEF Filed
<1> QED
  BY <1>2, <1>3, <1>4, <1>5

\* What is left of events that have their own uids has its own uids.
LEMMA SomeLeft ==
  ASSUME NEW E, Distinct(E), IsFiniteSet(E), NEW F \in SUBSET E
  PROVE  Distinct(F) /\ IsFiniteSet(F)
  BY FS_Subset DEF Distinct

\* The earliest event is the next one of its bucket.
LEMMA PeekInBucket ==
  ASSUME NEW n \in Nat \ {0}, NEW c, Kept(c, n), Events(c) # {}
  PROVE  LET ev == PeekNext(c)
             b == Bucket(c, Hash(c, ev.ts))
         IN  ev = NextEvent(b) /\ Sorted(b) /\ b # <<>>
<1> DEFINE ev == PeekNext(c)
           i == Hash(c, ev.ts)
           x == NextEvent(Bucket(c, i))
<1>1. Filed(c, n)
  BY DEF Kept
<1>2. ev \in Events(c) /\ ev \in Entries /\ \A e \in Events(c) \ {ev} : Sched!Before(ev, e)
  BY PeekIs
<1> HIDE DEF ev
<1>3. /\ i \in 0..n - 1 /\ i \in NonEmpty(c) /\ ev \in Listed(Bucket(c, i))
      /\ ev = x \/ Sched!Before(x, ev)
  BY <1>1, <1>2, BucketOf
<1>4. Sorted(Bucket(c, i)) /\ Bucket(c, i) # <<>>
  BY <1>1, <1>3 DEF Filed, NonEmpty
<1>5. x \in Events(c) /\ x \in Entries
  BY <1>1, <1>3, NextOf
<1> HIDE DEF x, i
<1>6. ev = x
  BY <1>2, <1>3, <1>5, KeyOrder
<1> QED
  BY <1>4, <1>6 DEF x, i, ev

\* DoRemoveNext takes out the event that PeekNext finds and goes to its day.
LEMMA RemoveNextIs ==
  ASSUME NEW n \in Nat \ {0}, NEW c, Kept(c, n), Events(c) # {}
  PROVE  LET d == DoRemoveNext(c)
         IN  /\ Kept(d, n) /\ Events(d) = Events(c) \ {PeekNext(c)}
             /\ d.m_width = c.m_width /\ d.m_lastPrio = PeekNext(c).ts /\ d.m_qSize = c.m_qSize
<1> DEFINE ev == PeekNext(c)
           d == DoRemoveNext(c)
           i == Hash(c, ev.ts)
           b == Bucket(c, i)
           w == c.m_width
<1>1. c \in Calendars(n) /\ Placed(c) /\ Filed(c, n) /\ Distinct(Events(c)) /\ IsFiniteSet(Events(c))
  BY DEF Kept, Filed
<1>2. w \in Nat \ {0} /\ NBuckets(c) = n /\ DOMAIN c.m_buckets = 0..n - 1
  BY <1>1, Shape
<1>3. ev \in Events(c) /\ ev \in Entries /\ \A e \in Events(c) \ {ev} : Sched!Before(ev, e)
  BY PeekIs
<1>4. ev.ts \in Nat
  BY <1>3 DEF Entries
<1>5. ev = NextEvent(b) /\ Sorted(b) /\ b # <<>>
  BY PeekInBucket
<1>6. i \in 0..n - 1 /\ i = (ev.ts \div w) % n /\ ev.ts \div w \in Nat
  BY <1>1, <1>4, HashIs
<1>7. Sorted(Pop(b)) /\ Listed(Pop(b)) = Listed(b) \ {ev}
  BY <1>5, NextPopped
<1> DEFINE top == (ev.ts \div w + 1) * w
<1>8. d = [c EXCEPT !.m_buckets = [@ EXCEPT ![i] = Pop(b)], !.m_lastPrio = ev.ts,
                    !.m_lastBucket = i, !.m_bucketTop = top]
  <2>2. CASE ThisYear(c) # {}
    <3> DEFINE k == CHOOSE k \in ThisYear(c) : \A l \in ThisYear(c) : k <= l
    <3>1. k \in ThisYear(c) /\ \A l \in ThisYear(c) : k <= l
      BY <1>2, <2>2, FirstStop
    <3>2. ev = NextEvent(Bucket(c, ScanBucket(c, k)))
      BY <2>2 DEF PeekNext
    <3>3. d = [c EXCEPT !.m_buckets = [@ EXCEPT ![i] = Pop(b)], !.m_lastPrio = ev.ts,
                        !.m_lastBucket = ScanBucket(c, k), !.m_bucketTop = ScanTop(c, k)]
      BY <1>1, <1>2, <1>6, <2>2 DEF DoRemoveNext, Calendars, Bucket
    <3> HIDE DEF k, d, i, b
    <3>4. k \in 0..n - 1 /\ ev.ts \div w = Today(c) + k
      BY <3>1, <3>2, ScanFindsEarliest
    <3>5. /\ Today(c) \in Nat /\ ScanBucket(c, k) \in 0..n - 1 /\ ScanBucket(c, k) = (Today(c) + k) % n
          /\ ScanTop(c, k) = (Today(c) + k + 1) * w
      BY <1>1, <3>4, ScanIs
    <3>6. ScanBucket(c, k) = i /\ ScanTop(c, k) = top
      BY <1>6, <3>4, <3>5
    <3> QED
      BY <3>3, <3>6
  <2>3. CASE ThisYear(c) = {}
    BY <1>1, <1>2, <1>6, <2>3 DEF DoRemoveNext, Calendars, Bucket
  <2> QED
    BY <2>2, <2>3
<1>9. Pop(b) \in Seq(Entries) /\ top \in Nat
  BY <1>2, <1>6, <1>7 DEF Sorted
<1> HIDE DEF d, ev, b, i, top
<1>10. d \in Calendars(n) /\ Rebucketed(d, c, i, Pop(b))
  BY <1>1, <1>4, <1>8, <1>9, SMTT(30) DEF Calendars, Rebucketed
<1>11. \A e \in Listed(Pop(b)) : Hash(c, e.ts) = i
  BY <1>1, <1>6, <1>7 DEF Filed, b
<1>12. Filed(d, n)
  BY <1>1, <1>6, <1>7, <1>10, <1>11, Refiled
<1>13. Events(d) = Events(c) \ {ev}
  <2>1. Listed(Pop(b)) = Listed(Bucket(c, i)) \ {ev} /\ Hash(c, ev.ts) = i
    BY <1>7 DEF b, i
  <2> QED
    BY <1>1, <1>6, <1>10, <2>1, EventTaken
<1>14. Placed(d)
  <2>1. d.m_lastPrio = ev.ts /\ d.m_width = w /\ d.m_lastBucket = i /\ d.m_bucketTop = (ev.ts \div w + 1) * w
    BY <1>1, <1>8 DEF Calendars, top
  <2>2. Hash(d, ev.ts) = i
    <3>1. Hash(d, ev.ts) = Hash(c, ev.ts)
      BY <1>1, <1>4, <1>6, <1>10, OneBucket
    <3> QED
      BY <3>1 DEF i
  <2>3. \A e \in Events(d) : e.ts >= ev.ts
    <3> SUFFICES ASSUME NEW e \in Events(d)
                 PROVE  e.ts >= ev.ts
      OBVIOUS
    <3>1. Sched!Before(ev, e) /\ e \in Entries
      BY <1>1, <1>3, <1>13, EventsAre
    <3> QED
      BY <1>4, <3>1 DEF Sched!Before, Entries
  <2> QED
    BY <2>1, <2>2, <2>3 DEF Placed
<1>15. Distinct(Events(d)) /\ IsFiniteSet(Events(d))
  BY <1>1, <1>13, SomeLeft
<1>16. d.m_width = c.m_width /\ d.m_lastPrio = ev.ts /\ d.m_qSize = c.m_qSize
  BY <1>1, <1>8 DEF Calendars
<1> QED
  BY <1>12, <1>13, <1>14, <1>15, <1>16 DEF Kept, d, ev

-----------------------------------------------------------------------------
(* Samples taken out and put back                                           *)

\* The removals, one after the other.
LEMMA DrainedUnfolds ==
  ASSUME NEW n \in Nat \ {0}, NEW c, Kept(c, n), NEW m \in 0..Cardinality(Events(c))
  PROVE  \E f : /\ f[0] = c /\ Drained(c, m) = f[m]
                /\ \A k \in 1..m : f[k] = DoRemoveNext(f[k - 1])
                /\ \A k \in 0..m : /\ Kept(f[k], n)
                                   /\ Cardinality(Events(f[k])) = Cardinality(Events(c)) - k
<1> DEFINE N == Cardinality(Events(c))
           S == {v \in Calendars(n) : Kept(v, n)}
           Taken(v) == IF Events(v) = {} THEN v ELSE DoRemoveNext(v)
           values(f) == [k \in 0..m |-> IF k = 0 THEN c ELSE DoRemoveNext(f[k - 1])]
           drained == CHOOSE f : f = values(f)
           g == [k \in 1..m |-> [v \in S |-> Taken(v)]]
<1>1. N \in Nat /\ m \in Nat /\ m <= N
  BY FS_CardinalityType DEF Kept
<1> HIDE DEF N
<1>2. \A v \in S : Taken(v) \in S
  <2> SUFFICES ASSUME NEW v \in S, Events(v) # {}
               PROVE  DoRemoveNext(v) \in S
    OBVIOUS
  <2>1. Kept(DoRemoveNext(v), n)
    BY RemoveNextIs
  <2> QED
    BY <2>1 DEF Kept, Filed
<1>3. c \in S
  BY DEF Kept, Filed
<1>4. StaysIn(g, m, S)
  BY <1>2 DEF StaysIn
<1>5. PICK f : IsFold(f, g, m, S, c)
  <2> HIDE DEF g, S, drained
  <2> QED
    BY <1>1, <1>3, <1>4, Folding, Zenon
<1>6. \A v \in S : Kept(v, n)
  OBVIOUS
<1> HIDE DEF S, Taken
<1>7. f[0] = c /\ \A k \in 0..m : f[k] \in S
  BY <1>5 DEF IsFold
<1>8. \A k \in 1..m : f[k] = Taken(f[k - 1])
  <2>1. \A k \in 1..m : f[k - 1] \in S
    BY <1>1, <1>7
  <2> QED
    BY <1>5, <2>1 DEF IsFold
<1> DEFINE T == {k \in 0..m : Cardinality(Events(f[k])) = N - k
                              /\ (k # 0 => f[k] = DoRemoveNext(f[k - 1]))}
<1>9. 0 \in T
  BY <1>1, <1>7 DEF N
<1>10. ASSUME NEW k \in 1..m, k - 1 \in T
       PROVE  k \in T
  <2> DEFINE v == f[k - 1]
  <2>1. Kept(v, n) /\ Cardinality(Events(v)) = N - (k - 1)
    BY <1>1, <1>6, <1>7, <1>10
  <2> HIDE DEF v
  <2>2. Cardinality(Events(v)) > 0 /\ IsFiniteSet(Events(v))
    BY <1>1, <2>1 DEF Kept
  <2>3. Events(v) # {}
    BY <2>2, FS_EmptySet
  <2>4. f[k] = DoRemoveNext(v)
    BY <1>8, <2>3 DEF Taken, v
  <2>5. Events(f[k]) = Events(v) \ {PeekNext(v)} /\ PeekNext(v) \in Events(v)
    BY <2>1, <2>3, <2>4, RemoveNextIs, PeekIs
  <2>6. Cardinality(Events(f[k])) = Cardinality(Events(v)) - 1
    BY <2>2, <2>5, FS_RemoveElement
  <2>7. Cardinality(Events(f[k])) = N - k
    BY <1>1, <2>1, <2>6
  <2> QED
    BY <2>4, <2>7 DEF v
<1> HIDE DEF T
<1>11. \A k \in 0..m : k \in T
  BY <1>1, <1>9, <1>10, UpTo
<1>12. \A k \in 1..m : f[k] = DoRemoveNext(f[k - 1])
  BY <1>11 DEF T
<1>13. f = values(f)
  BY <1>1, <1>5, <1>7, <1>12 DEF IsFold
<1>14. drained = values(drained)
  BY <1>13
<1>15. Drained(c, m) = drained[m]
  BY DEF Drained
<1> HIDE DEF drained, g
<1>16. drained[0] = c /\ \A k \in 1..m : drained[k] = DoRemoveNext(drained[k - 1])
  <2> DEFINE v == values(drained)
  <2>1. drained = v /\ v[0] = c /\ \A k \in 1..m : v[k] = DoRemoveNext(drained[k - 1])
    BY <1>1, <1>14
  <2> HIDE DEF v
  <2> QED
    BY <2>1
<1> DEFINE U == {k \in 0..m : drained[k] = f[k]}
<1>17. 0 \in U
  BY <1>1, <1>7, <1>16
<1>18. \A k \in 1..m : k - 1 \in U => k \in U
  BY <1>12, <1>16
<1> HIDE DEF U
<1>19. \A k \in 0..m : k \in U
  BY <1>1, <1>17, <1>18, UpTo
<1>20. \A k \in 0..m : Kept(drained[k], n) /\ Cardinality(Events(drained[k])) = N - k
  <2> SUFFICES ASSUME NEW k \in 0..m
               PROVE  Kept(f[k], n) /\ Cardinality(Events(f[k])) = N - k
    BY <1>19 DEF U
  <2> QED
    BY <1>6, <1>7, <1>11 DEF T
<1> QED
  BY <1>15, <1>16, <1>20 DEF N

\* Drained takes out one event more for every number of events.
LEMMA DrainedOneMore ==
  ASSUME NEW n \in Nat \ {0}, NEW c, Kept(c, n)
  PROVE  /\ Drained(c, 0) = c
         /\ \A m \in 1..Cardinality(Events(c)) : Drained(c, m) = DoRemoveNext(Drained(c, m - 1))
         /\ \A m \in 0..Cardinality(Events(c)) :
               /\ Kept(Drained(c, m), n)
               /\ Cardinality(Events(Drained(c, m))) = Cardinality(Events(c)) - m
<1> DEFINE N == Cardinality(Events(c))
<1>1. N \in Nat
  BY FS_CardinalityType DEF Kept
<1>2. Drained(c, 0) = c
  <2>1. 0 \in 0..N
    BY <1>1
  <2> QED
    BY <2>1, DrainedUnfolds
<1>3. ASSUME NEW m \in 1..N
      PROVE  Drained(c, m) = DoRemoveNext(Drained(c, m - 1))
  <2>1. m \in 0..N /\ m - 1 \in 0..N /\ m \in Nat /\ m - 1 \in Nat
    BY <1>1
  <2>2. PICK f : /\ f[0] = c /\ Drained(c, m) = f[m]
                 /\ \A k \in 1..m : f[k] = DoRemoveNext(f[k - 1])
                 /\ \A k \in 0..m : /\ Kept(f[k], n)
                                    /\ Cardinality(Events(f[k])) = Cardinality(Events(c)) - k
    BY <2>1, DrainedUnfolds, Zenon
  <2>3. PICK h : /\ h[0] = c /\ Drained(c, m - 1) = h[m - 1]
                 /\ \A k \in 1..m - 1 : h[k] = DoRemoveNext(h[k - 1])
                 /\ \A k \in 0..m - 1 : /\ Kept(h[k], n)
                                        /\ Cardinality(Events(h[k])) = Cardinality(Events(c)) - k
    BY <2>1, DrainedUnfolds, Zenon
  <2> DEFINE p == m - 1
             T == {k \in 0..p : f[k] = h[k]}
  <2>4. p \in Nat /\ \A k \in 1..p : k \in 1..m
    BY <2>1
  <2> HIDE DEF p
  <2>5. 0 \in T
    BY <2>2, <2>3, <2>4
  <2>6. \A k \in 1..p : k - 1 \in T => k \in T
    BY <2>2, <2>3, <2>4 DEF p
  <2> HIDE DEF T
  <2>7. \A k \in 0..p : k \in T
    BY <2>4, <2>5, <2>6, UpTo
  <2>8. f[p] = h[p]
    BY <2>4, <2>7 DEF T
  <2>9. f[m] = DoRemoveNext(f[m - 1])
    BY <2>1, <2>2
  <2> QED
    BY <2>2, <2>3, <2>8, <2>9 DEF p
<1>4. ASSUME NEW m \in 0..N
      PROVE  Kept(Drained(c, m), n) /\ Cardinality(Events(Drained(c, m))) = N - m
  <2>1. PICK f : /\ f[0] = c /\ Drained(c, m) = f[m]
                 /\ \A k \in 1..m : f[k] = DoRemoveNext(f[k - 1])
                 /\ \A k \in 0..m : /\ Kept(f[k], n)
                                    /\ Cardinality(Events(f[k])) = Cardinality(Events(c)) - k
    BY DrainedUnfolds, Zenon
  <2>2. m \in 0..m
    BY <1>1
  <2> QED
    BY <2>1, <2>2
<1> QED
  BY <1>2, <1>3, <1>4

\* The first m events, in the order in which they are taken out.
Drawn(c, m) == {PeekNext(Drained(c, k - 1)) : k \in 1..m}

LEMMA DrainedIs ==
  ASSUME NEW n \in Nat \ {0}, NEW c, Kept(c, n), NEW m \in 0..Cardinality(Events(c))
  PROVE  /\ Kept(Drained(c, m), n) /\ Drawn(c, m) \subseteq Events(c)
         /\ Events(Drained(c, m)) = Events(c) \ Drawn(c, m)
         /\ Drained(c, m).m_width = c.m_width /\ Drained(c, m).m_qSize = c.m_qSize
<1> DEFINE N == Cardinality(Events(c))
           d(k) == Drained(c, k)
           T == {k \in 0..N : /\ Drawn(c, k) \subseteq Events(c)
                              /\ Events(d(k)) = Events(c) \ Drawn(c, k)
                              /\ d(k).m_width = c.m_width /\ d(k).m_qSize = c.m_qSize}
<1>1. N \in Nat
  BY FS_CardinalityType DEF Kept
<1>2. /\ d(0) = c /\ \A k \in 1..N : d(k) = DoRemoveNext(d(k - 1))
      /\ \A k \in 0..N : Kept(d(k), n) /\ Cardinality(Events(d(k))) = N - k
  BY DrainedOneMore
<1> HIDE DEF N, d
<1>3. 0 \in T
  <2>1. Drawn(c, 0) = {}
    BY DEF Drawn
  <2> QED
    BY <1>1, <1>2, <2>1
<1>4. ASSUME NEW k \in 1..N, k - 1 \in T
      PROVE  k \in T
  <2> DEFINE j == k - 1
             v == d(j)
  <2>1. j \in 0..N /\ Kept(v, n) /\ Cardinality(Events(v)) = N - j /\ N - j > 0
    BY <1>1, <1>2
  <2>2. Events(v) # {}
    BY <2>1, FS_EmptySet
  <2>3. d(k) = DoRemoveNext(v)
    BY <1>2
  <2>4. /\ Drawn(c, j) \subseteq Events(c) /\ Events(v) = Events(c) \ Drawn(c, j)
        /\ v.m_width = c.m_width /\ v.m_qSize = c.m_qSize
    BY <1>4
  <2>5. Drawn(c, k) = Drawn(c, j) \cup {PeekNext(v)}
    <3>1. \A i \in 1..k : i \in 1..j \/ i = k
      BY <1>1
    <3>2. \A i \in 1..j : i \in 1..k
      BY <1>1
    <3> QED
      BY <1>1, <3>1, <3>2 DEF Drawn, d
  <2> HIDE DEF v, j
  <2>6. /\ Events(d(k)) = Events(v) \ {PeekNext(v)} /\ PeekNext(v) \in Events(v)
        /\ d(k).m_width = v.m_width /\ d(k).m_qSize = v.m_qSize
    BY <2>1, <2>2, <2>3, RemoveNextIs, PeekIs
  <2> QED
    BY <1>1, <2>4, <2>5, <2>6
<1> HIDE DEF T
<1>5. \A k \in 0..N : k \in T
  BY <1>1, <1>3, <1>4, UpTo
<1>6. m \in T /\ m \in 0..N
  BY <1>5 DEF N
<1> QED
  BY <1>2, <1>6 DEF T, d

LEMMA NSamplesIs ==
  ASSUME NEW c, c.m_qSize \in Nat
  PROVE  /\ NSamples(c) \in 0..c.m_qSize
         /\ c.m_qSize >= 2 => NSamples(c) >= 2
  BY DEF NSamples

\* The samples are events of the calendar, each another one.
LEMMA SamplesAre ==
  ASSUME NEW n \in Nat \ {0}, NEW c, Kept(c, n), c.m_qSize = Cardinality(Events(c))
  PROVE  LET m == NSamples(c)
         IN  /\ m \in 0..Cardinality(Events(c)) /\ Samples(c) \in Seq(Entries) /\ Len(Samples(c)) = m
             /\ OwnUids(Samples(c)) /\ Listed(Samples(c)) = Drawn(c, m)
<1> DEFINE N == Cardinality(Events(c))
           m == NSamples(c)
           s == Samples(c)
           ev(i) == PeekNext(Drained(c, i - 1))
<1>1. N \in Nat
  BY FS_CardinalityType DEF Kept
<1>2. m \in 0..N
  BY <1>1, NSamplesIs
<1>3. \A k \in 1..N : /\ k - 1 \in 0..N /\ Kept(Drained(c, k - 1), n)
                      /\ Cardinality(Events(Drained(c, k - 1))) = N - (k - 1)
  BY <1>1, DrainedOneMore
<1>4. \A k \in 1..N : Events(Drained(c, k - 1)) # {}
  <2> SUFFICES ASSUME NEW k \in 1..N, Events(Drained(c, k - 1)) = {}
               PROVE  FALSE
    OBVIOUS
  <2>1. Cardinality(Events(Drained(c, k - 1))) = 0
    BY FS_EmptySet
  <2> QED
    BY <1>1, <1>3, <2>1
<1>5. \A k \in 1..N : ev(k) \in Entries /\ ev(k) \in Events(c) \ Drawn(c, k - 1)
  <2> SUFFICES ASSUME NEW k \in 1..N
               PROVE  ev(k) \in Entries /\ ev(k) \in Events(c) \ Drawn(c, k - 1)
    OBVIOUS
  <2>1. ev(k) \in Events(Drained(c, k - 1)) /\ ev(k) \in Entries
    BY <1>3, <1>4, PeekIs
  <2>2. Events(Drained(c, k - 1)) = Events(c) \ Drawn(c, k - 1)
    BY <1>3, DrainedIs
  <2> QED
    BY <2>1, <2>2
<1> HIDE DEF N, m
<1>6. s = [i \in 1..m |-> ev(i)] /\ \A i \in 1..m : i \in 1..N
  BY <1>1, <1>2 DEF Samples, m
<1> HIDE DEF s
<1>7. \A i \in 1..m : s[i] = ev(i) /\ s[i] \in Entries
  BY <1>5, <1>6
<1>8. s \in Seq(Entries) /\ Len(s) = m
  <2>1. s \in [1..m -> Entries] /\ m \in Nat
    BY <1>1, <1>2, <1>5, <1>6
  <2> QED
    BY <2>1
<1>9. OwnUids(s)
  <2> SUFFICES ASSUME NEW i \in 1..m, NEW j \in 1..m, i < j, s[i].uid = s[j].uid
               PROVE  FALSE
    BY <1>8 DEF OwnUids
  <2>1. s[i] = ev(i) /\ s[j] = ev(j) /\ i \in 1..j - 1
    BY <1>1, <1>2, <1>7
  <2>2. s[i] \in Drawn(c, j - 1)
    BY <2>1 DEF Drawn
  <2>3. s[i] \in Events(c) /\ s[j] \in Events(c) \ Drawn(c, j - 1)
    BY <1>5, <1>6, <2>1
  <2>4. Distinct(Events(c))
    BY DEF Kept
  <2> QED
    BY <2>2, <2>3, <2>4 DEF Distinct
<1>10. Listed(s) = Drawn(c, m)
  BY <1>7, <1>8 DEF Listed, Drawn
<1> QED
  BY <1>2, <1>8, <1>9, <1>10 DEF N, m, s

\* CalculateNewWidth leaves the calendar as it was.
LEMMA SampledIs ==
  ASSUME NEW n \in Nat \ {0}, NEW c, Kept(c, n), c.m_qSize = Cardinality(Events(c))
  PROVE  LET d == Sampled(c)
         IN  /\ Kept(d, n) /\ Events(d) = Events(c)
             /\ d.m_lastPrio = c.m_lastPrio /\ d.m_qSize = c.m_qSize
<1> DEFINE m == NSamples(c)
           s == Samples(c)
           v == Drained(c, m)
           u == InsertAll(v, s)
           d == Sampled(c)
<1>1. c \in Calendars(n) /\ Placed(c) /\ Distinct(Events(c)) /\ IsFiniteSet(Events(c))
  BY DEF Kept, Filed
<1>2. /\ m \in 0..Cardinality(Events(c)) /\ s \in Seq(Entries) /\ Len(s) = m
      /\ OwnUids(s) /\ Listed(s) = Drawn(c, m)
  BY SamplesAre
<1> HIDE DEF m, s
<1>3. /\ Kept(v, n) /\ Drawn(c, m) \subseteq Events(c) /\ Events(v) = Events(c) \ Drawn(c, m)
      /\ v.m_width = c.m_width /\ v.m_qSize = c.m_qSize
  BY <1>2, DrainedIs
<1> HIDE DEF v
<1>4. v \in Calendars(n) /\ Filed(v, n)
  BY <1>3 DEF Kept, Filed
<1>5. \A e \in Events(v) : \A i \in 1..Len(s) : e.uid # s[i].uid
  <2> SUFFICES ASSUME NEW e \in Events(v), NEW i \in 1..Len(s), e.uid = s[i].uid
               PROVE  FALSE
    OBVIOUS
  <2>1. s[i] \in Drawn(c, m)
    BY <1>2 DEF Listed
  <2>2. e \in Events(c) /\ s[i] \in Events(c) /\ e # s[i]
    BY <1>3, <2>1
  <2> QED
    BY <1>1, <2>2 DEF Distinct
<1>6. Filed(u, n) /\ Events(u) = Events(v) \cup Listed(s)
  BY <1>2, <1>4, <1>5, InsertAllIs
<1>7. Events(u) = Events(c)
  BY <1>2, <1>3, <1>6
<1>8. u \in Calendars(n) /\ SameSearch(u, v)
  BY <1>2, <1>4, InsertAllStays
<1>9. d = [u EXCEPT !.m_lastBucket = c.m_lastBucket, !.m_bucketTop = c.m_bucketTop,
                    !.m_lastPrio = c.m_lastPrio]
  BY DEF Sampled, u, v, s, m
<1> HIDE DEF u, d
<1>10. /\ d \in Calendars(n) /\ d.m_buckets = u.m_buckets /\ d.m_width = c.m_width
       /\ d.m_lastPrio = c.m_lastPrio /\ d.m_qSize = c.m_qSize
       /\ d.m_lastBucket = c.m_lastBucket /\ d.m_bucketTop = c.m_bucketTop
       /\ d.m_width = u.m_width
  BY <1>1, <1>3, <1>8, <1>9 DEF Calendars, SameSearch
<1>11. Filed(d, n) /\ Events(d) = Events(c)
  BY <1>6, <1>7, <1>10, SameFiling
<1>12. Hash(d, c.m_lastPrio) = Hash(c, c.m_lastPrio)
  <2>1. NBuckets(d) = NBuckets(c)
    BY <1>1, <1>10, Shape
  <2> QED
    BY <1>10, <2>1 DEF Hash
<1>13. Placed(d)
  BY <1>1, <1>10, <1>11, <1>12 DEF Placed
<1> QED
  BY <1>1, <1>10, <1>11, <1>13 DEF Kept, d

-----------------------------------------------------------------------------
(* Resize                                                                   *)

LEMMA GapsAre ==
  ASSUME NEW s \in Seq(Entries), Len(s) >= 1, NEW max
  PROVE  GapsUpTo(s, max) \in Int
<1> DEFINE len == Len(s) - 1
           Gap(i) == s[i + 1].ts - s[i].ts
           Added(i) == IF Gap(i) <= max THEN Gap(i) ELSE 0
           values(f) == [i \in 0..len |-> IF i = 0 THEN 0 ELSE f[i - 1] + Added(i)]
           total == CHOOSE f : f = values(f)
           g == [i \in 1..len |-> [v \in Int |-> v + Added(i)]]
<1>1. len \in Nat
  OBVIOUS
<1>2. \A i \in 1..len : Added(i) \in Int
  <2> SUFFICES ASSUME NEW i \in 1..len
               PROVE  Gap(i) \in Int
    OBVIOUS
  <2>1. s[i] \in Entries /\ s[i + 1] \in Entries
    OBVIOUS
  <2>2. s[i].ts \in Int /\ s[i + 1].ts \in Int
    BY <2>1 DEF Entries
  <2> QED
    BY <2>2
<1>3. GapsUpTo(s, max) = total[len]
  BY DEF GapsUpTo
<1> HIDE DEF Added, len
<1>4. StaysIn(g, len, Int)
  BY <1>2 DEF StaysIn
<1>5. PICK f : IsFold(f, g, len, Int, 0)
  <2> HIDE DEF g, total
  <2>1. 0 \in Int
    OBVIOUS
  <2> QED
    BY <1>1, <1>4, <2>1, Folding, Zenon
<1>6. \A i \in 1..len : f[i] = f[i - 1] + Added(i)
  <2>1. \A i \in 1..len : f[i - 1] \in Int
    BY <1>1, <1>5 DEF IsFold
  <2> QED
    BY <1>5, <2>1 DEF IsFold
<1>7. f = values(f)
  BY <1>1, <1>5, <1>6 DEF IsFold
<1>8. total = values(total)
  BY <1>7
<1> HIDE DEF total, g
<1>9. total[0] = 0 /\ \A i \in 1..len : total[i] = total[i - 1] + Added(i)
  <2> DEFINE v == values(total)
  <2>1. total = v /\ v[0] = 0 /\ \A i \in 1..len : v[i] = total[i - 1] + Added(i)
    BY <1>1, <1>8
  <2> HIDE DEF v
  <2> QED
    BY <2>1
<1> DEFINE T == {i \in 0..len : total[i] \in Int}
<1>10. 0 \in T
  BY <1>1, <1>9
<1>11. \A i \in 1..len : i - 1 \in T => i \in T
  BY <1>2, <1>9
<1> HIDE DEF T
<1>12. \A i \in 0..len : i \in T
  BY <1>1, <1>10, <1>11, UpTo
<1>13. total[len] \in Int
  BY <1>1, <1>12 DEF T
<1> QED
  BY <1>3, <1>13

\* CalculateNewWidth gives a day at least one tick.
LEMMA NewWidthIs ==
  ASSUME NEW n \in Nat \ {0}, NEW c, Kept(c, n), c.m_qSize = Cardinality(Events(c)), c.m_qSize >= 2
  PROVE  NewWidth(c) \in Nat \ {0}
<1> DEFINE s == Samples(c)
           totalSeparation == s[Len(s)].ts - s[1].ts
           sum == GapsUpTo(s, (totalSeparation \div (Len(s) - 1)) * 2)
<1>1. c.m_qSize \in Nat
  BY FS_CardinalityType DEF Kept
<1>2. s \in Seq(Entries) /\ Len(s) >= 2
  BY <1>1, SamplesAre, NSamplesIs
<1>3. sum \in Int
  <2> HIDE DEF s
  <2> QED
    BY <1>2, GapsAre
<1>4. NewWidth(c) = IF 3 * sum > 1 THEN 3 * sum ELSE 1
  BY DEF NewWidth
<1> HIDE DEF sum
<1> QED
  BY <1>3, <1>4

\* An empty calendar.
LEMMA InitCalIs ==
  ASSUME NEW n \in Nat \ {0}, NEW w \in Nat \ {0}, NEW prio \in Nat, NEW q \in Nat
  PROVE  LET c == InitCal(n, w, prio, q)
         IN  /\ Kept(c, n) /\ Events(c) = {}
             /\ c.m_width = w /\ c.m_lastPrio = prio /\ c.m_qSize = q
<1> DEFINE c == InitCal(n, w, prio, q)
<1>1. prio \div w \in Nat /\ (prio \div w) % n \in Nat
  BY DayIs
<1>2. (prio \div w + 1) * w \in Nat
  BY <1>1
<1>3. /\ c.m_buckets = [i \in 0..n - 1 |-> <<>>] /\ c.m_width = w /\ c.m_lastPrio = prio /\ c.m_qSize = q
      /\ c.m_lastBucket = (prio \div w) % n /\ c.m_bucketTop = (prio \div w + 1) * w
  BY DEF InitCal
<1>4. c \in Calendars(n)
  BY <1>1, <1>2 DEF InitCal, Calendars
<1> HIDE DEF c
<1>5. \A i \in 0..n - 1 : Bucket(c, i) = <<>> /\ Sorted(Bucket(c, i)) /\ Listed(Bucket(c, i)) = {}
  BY <1>3 DEF Bucket, Sorted, Listed
<1>6. Filed(c, n)
  BY <1>4, <1>5 DEF Filed
<1>7. Events(c) = {}
  <2> HIDE DEF Events
  <2> QED
    BY <1>4, <1>5, EventsAre
<1>8. Hash(c, prio) = (prio \div w) % n
  BY <1>3, <1>4, HashIs
<1>9. Placed(c)
  BY <1>3, <1>7, <1>8 DEF Placed
<1>10. Distinct(Events(c)) /\ IsFiniteSet(Events(c))
  BY <1>7, FS_EmptySet DEF Distinct
<1> QED
  BY <1>3, <1>6, <1>7, <1>9, <1>10 DEF Kept, c

\* The buckets emptied into the new calendar, one after the other.
Filling(f, c, n, p, w) ==
    /\ f[0] = InitCal(p, w, c.m_lastPrio, c.m_qSize) /\ DoResize(c, p, w) = f[n]
    /\ \A k \in 1..n : f[k] = InsertAll(f[k - 1], Bucket(c, k - 1))
    /\ \A k \in 0..n : f[k] \in Calendars(p)

LEMMA DoResizeUnfolds ==
  ASSUME NEW n \in Nat \ {0}, NEW c \in Calendars(n), NEW p \in Nat \ {0}, NEW w \in Nat \ {0}
  PROVE  \E f : Filling(f, c, n, p, w)
<1> DEFINE a == InitCal(p, w, c.m_lastPrio, c.m_qSize)
           S == Calendars(p)
           values(f) == [k \in 0..n |-> IF k = 0 THEN a ELSE InsertAll(f[k - 1], Bucket(c, k - 1))]
           filled == CHOOSE f : f = values(f)
           g == [k \in 1..n |-> [v \in S |-> InsertAll(v, Bucket(c, k - 1))]]
<1>1. NBuckets(c) = n /\ c.m_lastPrio \in Nat /\ c.m_qSize \in Nat
  BY Shape
<1>2. \A k \in 1..n : Bucket(c, k - 1) \in Seq(Entries)
  <2>1. \A k \in 1..n : k - 1 \in 0..n - 1
    OBVIOUS
  <2> QED
    BY <2>1, Shape
<1>3. \A k \in 1..n : \A v \in S : InsertAll(v, Bucket(c, k - 1)) \in S
  BY <1>2, InsertAllStays
<1>4. a \in S
  BY <1>1, InitCalIs DEF Kept, Filed
<1>5. StaysIn(g, n, S)
  BY <1>3 DEF StaysIn
<1>6. DoResize(c, p, w) = filled[n]
  BY <1>1 DEF DoResize
<1> HIDE DEF a
<1>7. PICK f : IsFold(f, g, n, S, a)
  <2> HIDE DEF g, S, filled
  <2>1. n \in Nat
    OBVIOUS
  <2> QED
    BY <1>4, <1>5, <2>1, Folding, Zenon
<1> HIDE DEF S
<1>8. \A k \in 1..n : f[k - 1] \in S /\ f[k] = InsertAll(f[k - 1], Bucket(c, k - 1))
  <2>1. \A k \in 1..n : f[k - 1] \in S
    BY <1>7 DEF IsFold
  <2> QED
    BY <1>7, <2>1 DEF IsFold
<1>9. f = values(f)
  BY <1>7, <1>8 DEF IsFold
<1>10. filled = values(filled)
  BY <1>9
<1> HIDE DEF filled, g
<1>11. filled[0] = a /\ \A k \in 1..n : filled[k] = InsertAll(filled[k - 1], Bucket(c, k - 1))
  <2> DEFINE v == values(filled)
  <2>1. filled = v /\ v[0] = a /\ \A k \in 1..n : v[k] = InsertAll(filled[k - 1], Bucket(c, k - 1))
    BY <1>10
  <2> HIDE DEF v
  <2> QED
    BY <2>1
<1> DEFINE T == {k \in 0..n : filled[k] \in S}
<1>12. 0 \in T
  BY <1>4, <1>11
<1>13. \A k \in 1..n : k - 1 \in T => k \in T
  BY <1>3, <1>11
<1> HIDE DEF T
<1>14. \A k \in 0..n : k \in T
  <2>1. n \in Nat
    OBVIOUS
  <2> QED
    BY <1>12, <1>13, <2>1, UpTo
<1> QED
  <2>1. Filling(filled, c, n, p, w)
    BY <1>6, <1>11, <1>14 DEF T, S, a, Filling
  <2> QED
    BY <2>1

\* DoResize moves every event to the bucket of its day.
LEMMA DoResizeIs ==
  ASSUME NEW n \in Nat \ {0}, NEW c, Kept(c, n), NEW p \in Nat \ {0}, NEW w \in Nat \ {0}
  PROVE  LET d == DoResize(c, p, w)
         IN  /\ Kept(d, p) /\ Events(d) = Events(c)
             /\ d.m_lastPrio = c.m_lastPrio /\ d.m_qSize = c.m_qSize
<1>1. /\ c \in Calendars(n) /\ Filed(c, n) /\ Distinct(Events(c)) /\ IsFiniteSet(Events(c))
      /\ \A e \in Events(c) : e.ts >= c.m_lastPrio
  BY DEF Kept, Filed, Placed
<1> DEFINE prio == c.m_lastPrio
           q == c.m_qSize
           a == InitCal(p, w, prio, q)
<1>2. prio \in Nat /\ q \in Nat
  BY <1>1, Shape
<1>3. PICK f : /\ f[0] = a /\ DoResize(c, p, w) = f[n]
               /\ \A k \in 1..n : f[k] = InsertAll(f[k - 1], Bucket(c, k - 1))
               /\ \A k \in 0..n : f[k] \in Calendars(p)
  <2>1. c \in Calendars(n)
    BY <1>1
  <2>2. PICK f : Filling(f, c, n, p, w)
    BY <2>1, DoResizeUnfolds
  <2> QED
    BY <2>2 DEF Filling
<1>4. /\ Kept(a, p) /\ Events(a) = {}
      /\ a.m_width = w /\ a.m_lastPrio = c.m_lastPrio /\ a.m_qSize = c.m_qSize
  <2> HIDE DEF prio, q
  <2>1. Kept(a, p) /\ Events(a) = {} /\ a.m_width = w /\ a.m_lastPrio = prio /\ a.m_qSize = q
    BY <1>2, InitCalIs
  <2> QED
    BY <2>1 DEF prio, q
<1> HIDE DEF a
<1>5. ASSUME NEW i \in 0..n - 1
      PROVE  /\ Bucket(c, i) \in Seq(Entries) /\ OwnUids(Bucket(c, i))
             /\ Listed(Bucket(c, i)) \subseteq Events(c)
             /\ \A e \in Listed(Bucket(c, i)) : Hash(c, e.ts) = i
  <2> DEFINE b == Bucket(c, i)
  <2>1. Sorted(b) /\ (\A e \in Listed(b) : Hash(c, e.ts) = i) /\ Listed(b) \subseteq Events(c)
    BY <1>1, EventsAre DEF Filed
  <2> HIDE DEF b
  <2>2. OwnUids(b)
    <3> SUFFICES ASSUME NEW j \in 1..Len(b), NEW k \in 1..Len(b), j < k, b[j].uid = b[k].uid
                 PROVE  FALSE
      BY DEF OwnUids
    <3>1. b[j] \in Events(c) /\ b[k] \in Events(c) /\ b[j] \in Entries /\ b[k] \in Entries
      BY <2>1 DEF Listed, Sorted
    <3>2. b[j] = b[k] /\ Order(b[j], b[k])
      BY <1>1, <2>1, <3>1 DEF Distinct, Sorted
    <3> QED
      BY <3>1, <3>2, BucketOrder
  <2> QED
    BY <2>1, <2>2 DEF b, Sorted
<1> DEFINE first(k) == UNION {Listed(Bucket(c, i)) : i \in 0..k - 1}
           T == {k \in 0..n : Filed(f[k], p) /\ Events(f[k]) = first(k) /\ SameSearch(f[k], a)}
<1>6. 0 \in T
  <2>1. first(0) = {}
    OBVIOUS
  <2>2. SameSearch(a, a) /\ 0 \in 0..n
    BY DEF SameSearch
  <2> QED
    BY <1>3, <1>4, <2>1, <2>2 DEF Kept
<1>7. ASSUME NEW k \in 1..n, k - 1 \in T
      PROVE  k \in T
  <2> DEFINE j == k - 1
             b == Bucket(c, j)
             v == f[j]
  <2>1. j \in 0..n - 1 /\ j \in 0..n /\ k \in 0..n
    OBVIOUS
  <2>2. Filed(v, p) /\ Events(v) = first(j) /\ SameSearch(v, a) /\ v \in Calendars(p)
    BY <1>3, <1>7
  <2>3. b \in Seq(Entries) /\ OwnUids(b) /\ Listed(b) \subseteq Events(c)
        /\ \A e \in Listed(b) : Hash(c, e.ts) = j
    BY <1>5, <2>1
  <2>4. \A e \in Events(v) : e \in Events(c) /\ e \notin Listed(b)
    <3> SUFFICES ASSUME NEW e \in Events(v)
                 PROVE  e \in Events(c) /\ e \notin Listed(b)
      OBVIOUS
    <3>1. PICK i \in 0..j - 1 : e \in Listed(Bucket(c, i))
      BY <2>2
    <3>2. i \in 0..n - 1 /\ i # j
      BY <2>1
    <3>3. Hash(c, e.ts) = i /\ e \in Events(c)
      BY <1>5, <3>1, <3>2
    <3> QED
      BY <2>3, <3>2, <3>3
  <2>5. f[k] = InsertAll(v, b)
    BY <1>3
  <2>6. first(k) = first(j) \cup Listed(b)
    <3>1. \A i \in 0..k - 1 : i \in 0..j - 1 \/ i = j
      BY <2>1
    <3>2. (\A i \in 0..j - 1 : i \in 0..k - 1) /\ j \in 0..k - 1
      BY <2>1
    <3> QED
      BY <3>1, <3>2
  <2> HIDE DEF v, b, j, first
  <2>7. \A e \in Events(v) : \A i \in 1..Len(b) : e.uid # b[i].uid
    <3> SUFFICES ASSUME NEW e \in Events(v), NEW i \in 1..Len(b), e.uid = b[i].uid
                 PROVE  FALSE
      OBVIOUS
    <3>1. b[i] \in Listed(b)
      BY DEF Listed
    <3> QED
      BY <1>1, <2>3, <2>4, <3>1 DEF Distinct
  <2>8. Filed(f[k], p) /\ Events(f[k]) = Events(v) \cup Listed(b)
    BY <2>2, <2>3, <2>5, <2>7, InsertAllIs
  <2>9. SameSearch(f[k], v)
    BY <2>2, <2>3, <2>5, InsertAllStays
  <2>10. SameSearch(f[k], a)
    BY <2>2, <2>9 DEF SameSearch
  <2> QED
    BY <2>1, <2>2, <2>6, <2>8, <2>10
<1> HIDE DEF T, first
<1>8. n \in T
  <2>1. \A k \in 0..n : k \in T
    <3>1. n \in Nat
      OBVIOUS
    <3> QED
      BY <1>6, <1>7, <3>1, UpTo
  <2> QED
    BY <2>1
<1> DEFINE d == f[n]
<1>9. Filed(d, p) /\ Events(d) = first(n) /\ SameSearch(d, a) /\ d \in Calendars(p)
  BY <1>3, <1>8 DEF T
<1> HIDE DEF d
<1>10. Events(d) = Events(c)
  <2>1. \A e : e \in first(n) <=> \E i \in 0..n - 1 : e \in Listed(Bucket(c, i))
    BY DEF first
  <2> HIDE DEF Events, Listed, Bucket
  <2>2. \A e : e \in Events(c) <=> \E i \in 0..n - 1 : e \in Listed(Bucket(c, i))
    BY <1>1, EventsAre
  <2> QED
    BY <1>9, <2>1, <2>2
<1>11. Placed(d)
  <2>1. /\ d.m_width = a.m_width /\ d.m_lastPrio = a.m_lastPrio
        /\ d.m_lastBucket = a.m_lastBucket /\ d.m_bucketTop = a.m_bucketTop
    BY <1>9 DEF SameSearch
  <2>2. NBuckets(d) = NBuckets(a)
    BY <1>4, <1>9, Shape DEF Kept, Filed
  <2>3. Hash(d, d.m_lastPrio) = Hash(a, a.m_lastPrio)
    BY <2>1, <2>2 DEF Hash
  <2>4. a.m_lastBucket = Hash(a, a.m_lastPrio) /\ a.m_bucketTop = (a.m_lastPrio \div a.m_width + 1) * a.m_width
    BY <1>4 DEF Kept, Placed
  <2> QED
    BY <1>1, <1>4, <1>10, <2>1, <2>3, <2>4 DEF Placed
<1>12. d.m_lastPrio = c.m_lastPrio /\ d.m_qSize = c.m_qSize
  BY <1>4, <1>9 DEF SameSearch
<1> QED
  BY <1>1, <1>3, <1>9, <1>10, <1>11, <1>12 DEF Kept, d

\* A calendar that knows how many events it has.
Counted(c) == \E n \in Nat \ {0} : Kept(c, n) /\ c.m_qSize = Cardinality(Events(c))

\* The same events, and the same one taken out last.
SameEvents(d, c) == Events(d) = Events(c) /\ d.m_lastPrio = c.m_lastPrio

LEMMA ResizeIs ==
  ASSUME NEW c, Counted(c), NEW p \in Nat \ {0}
  PROVE  Counted(Resize(c, p)) /\ SameEvents(Resize(c, p), c)
<1>1. PICK n \in Nat \ {0} : Kept(c, n) /\ c.m_qSize = Cardinality(Events(c))
  BY DEF Counted
<1>2. c.m_qSize \in Nat
  BY <1>1, Shape DEF Kept, Filed
<1>3. CASE c.m_qSize < 2
  <2> DEFINE d == DoResize(c, p, 1)
  <2>1. Resize(c, p) = d
    BY <1>3 DEF Resize
  <2>2. Kept(d, p) /\ Events(d) = Events(c) /\ d.m_lastPrio = c.m_lastPrio /\ d.m_qSize = c.m_qSize
    BY <1>1, DoResizeIs, SMTT(30)
  <2> HIDE DEF d
  <2> QED
    BY <1>1, <2>1, <2>2 DEF Counted, SameEvents
<1>4. CASE c.m_qSize >= 2
  <2> DEFINE s == Sampled(c)
             w == NewWidth(c)
             d == DoResize(s, p, w)
  <2>1. Resize(c, p) = d
    BY <1>2, <1>4 DEF Resize
  <2>2. Kept(s, n) /\ Events(s) = Events(c) /\ s.m_lastPrio = c.m_lastPrio /\ s.m_qSize = c.m_qSize
    BY <1>1, SampledIs
  <2>3. w \in Nat \ {0}
    BY <1>1, <1>4, NewWidthIs
  <2> HIDE DEF s, w
  <2>4. Kept(d, p) /\ Events(d) = Events(s) /\ d.m_lastPrio = s.m_lastPrio /\ d.m_qSize = s.m_qSize
    BY <2>2, <2>3, DoResizeIs
  <2> HIDE DEF d
  <2> QED
    BY <1>1, <2>1, <2>2, <2>4 DEF Counted, SameEvents
<1> QED
  BY <1>2, <1>3, <1>4

\* ResizeUp and ResizeDown.
LEMMA ResizedIs ==
  ASSUME NEW c, Counted(c)
  PROVE  /\ Counted(ResizeUp(c)) /\ SameEvents(ResizeUp(c), c)
         /\ Counted(ResizeDown(c)) /\ SameEvents(ResizeDown(c), c)
<1>1. PICK n \in Nat \ {0} : Kept(c, n)
  BY DEF Counted
<1>2. NBuckets(c) = n /\ c.m_qSize \in Nat
  BY <1>1, Shape DEF Kept, Filed
<1>3. SameEvents(c, c)
  BY DEF SameEvents
<1>4. Counted(ResizeUp(c)) /\ SameEvents(ResizeUp(c), c)
  <2>1. n * 2 \in Nat \ {0}
    OBVIOUS
  <2>2. ResizeUp(c) = c \/ ResizeUp(c) = Resize(c, n * 2)
    BY <1>2 DEF ResizeUp
  <2> QED
    BY <1>3, <2>1, <2>2, ResizeIs
<1>5. Counted(ResizeDown(c)) /\ SameEvents(ResizeDown(c), c)
  <2>1. CASE c.m_qSize < n \div 2
    <3>1. n \div 2 \in Nat \ {0}
      BY <1>2, <2>1
    <3>2. ResizeDown(c) = Resize(c, n \div 2)
      BY <1>2, <2>1 DEF ResizeDown
    <3> QED
      BY <3>1, <3>2, ResizeIs
  <2>2. CASE ~(c.m_qSize < n \div 2)
    <3>1. ResizeDown(c) = c
      BY <1>2, <2>2 DEF ResizeDown
    <3> QED
      BY <1>3, <3>1
  <2> QED
    BY <2>1, <2>2
<1> QED
  BY <1>4, <1>5

-----------------------------------------------------------------------------
(* The operations of CalendarScheduler.                                     *)

\* The inductive invariant: the calendar knows its events, and where it searches is
\* the simulator's clock.
CInv ==
    /\ m_uid \in Nat /\ now \in Nat /\ now = cal.m_lastPrio
    /\ Counted(cal) /\ \A e \in Events(cal) : e.uid < m_uid

\* A calendar is one in the next state, too, if it is not built anew with the other order.
LEMMA SameOrder ==
  ASSUME m_reverse' = m_reverse, Counted(cal')
  PROVE  Counted(cal)'
<1>1. \A n : Kept(cal', n) => Kept(cal, n)'
  BY SMTT(30) DEF Kept, Filed, Placed, Sorted, Order, Events, Bucket, Hash, NBuckets, Calendars, Listed, Distinct,
         Sched!Before
<1>2. Events(cal') = Events(cal)'
  BY DEF Events, Bucket
<1> QED
  BY <1>1, <1>2 DEF Counted

\* A change of the number of events, and of nothing else.
LEMMA QSizeSet ==
  ASSUME NEW n \in Nat \ {0}, NEW c, Kept(c, n), NEW q \in Nat,
         NEW d, d = [c EXCEPT !.m_qSize = q]
  PROVE  Kept(d, n) /\ Events(d) = Events(c) /\ d.m_lastPrio = c.m_lastPrio /\ d.m_qSize = q
<1>1. c \in Calendars(n) /\ Filed(c, n)
  BY DEF Kept, Filed
<1>2. /\ d \in Calendars(n) /\ d.m_buckets = c.m_buckets /\ d.m_width = c.m_width
      /\ d.m_lastPrio = c.m_lastPrio /\ d.m_lastBucket = c.m_lastBucket /\ d.m_bucketTop = c.m_bucketTop
      /\ d.m_qSize = q
  BY <1>1 DEF Calendars
<1>3. Filed(d, n) /\ Events(d) = Events(c) /\ \A t \in Nat : Hash(d, t) = Hash(c, t)
  BY <1>1, <1>2, SameFiling
<1>4. c.m_lastPrio \in Nat
  BY <1>1, Shape
<1>5. Placed(d)
  <2>1. Placed(c)
    BY DEF Kept
  <2> QED
    BY <1>2, <1>3, <1>4, <2>1 DEF Placed
<1> QED
  BY <1>2, <1>3, <1>5 DEF Kept

LEMMA InsertStep ==
  ASSUME DelaysAreTimes, CInv, Insert
  PROVE  CInv' /\ Sched!Insert
<1>1. PICK delay \in Delays :
        cal' = ResizeUp([DoInsert(cal, Sched!NewEvent(delay)) EXCEPT !.m_qSize = @ + 1])
  BY DEF Insert
<1> DEFINE ev == Sched!NewEvent(delay)
           c == DoInsert(cal, ev)
           d == [c EXCEPT !.m_qSize = @ + 1]
<1>2. /\ m_uid \in Sched!Uids /\ m_uid' = m_uid + 1 /\ returned' = Sched!NoEvent
      /\ m_reverse' = m_reverse /\ now' = now
  BY DEF Insert
<1>3. ev \in Entries /\ ev.uid = m_uid /\ ev.ts >= now
  BY DEF DelaysAreTimes, CInv, Sched!NewEvent, Entries
<1>4. PICK n \in Nat \ {0} : Kept(cal, n) /\ cal.m_qSize = Cardinality(Events(cal))
  BY DEF CInv, Counted
<1>5. /\ cal \in Calendars(n) /\ Filed(cal, n) /\ Placed(cal)
      /\ Distinct(Events(cal)) /\ IsFiniteSet(Events(cal))
  BY <1>4 DEF Kept, Filed
<1>6. \A e \in Events(cal) : e.uid \in Nat /\ e.uid < m_uid
  BY <1>5, EventsAre DEF CInv, Entries
<1> HIDE DEF ev
<1>7. Filed(c, n) /\ Events(c) = Events(cal) \cup {ev} /\ SameSearch(c, cal)
  BY <1>3, <1>5, <1>6, InsertIs
<1>8. c \in Calendars(n) /\ cal.m_lastPrio \in Nat
  BY <1>5, <1>7, Shape DEF Filed
<1> HIDE DEF c
<1>9. Kept(c, n)
  <2>1. NBuckets(c) = NBuckets(cal)
    BY <1>5, <1>8, Shape
  <2>2. Hash(c, c.m_lastPrio) = Hash(cal, cal.m_lastPrio)
    BY <1>7, <2>1 DEF Hash, SameSearch
  <2>3. \A e \in Events(c) : e.ts >= cal.m_lastPrio
    BY <1>3, <1>5, <1>7 DEF Placed, CInv
  <2>4. Placed(c)
    BY <1>5, <1>7, <2>2, <2>3 DEF Placed, SameSearch
  <2>5. Distinct(Events(c))
    BY <1>3, <1>5, <1>6, <1>7 DEF Distinct
  <2>6. IsFiniteSet(Events(c))
    BY <1>5, <1>7, FS_AddElement
  <2> QED
    BY <1>7, <2>4, <2>5, <2>6 DEF Kept
<1> DEFINE q == c.m_qSize + 1
<1>10. q \in Nat /\ q = Cardinality(Events(c))
  <2>1. c.m_qSize = Cardinality(Events(cal)) /\ Cardinality(Events(cal)) \in Nat
    BY <1>4, <1>5, <1>7, FS_CardinalityType DEF SameSearch
  <2>2. ev \notin Events(cal)
    BY <1>3, <1>6
  <2>3. Cardinality(Events(c)) = Cardinality(Events(cal)) + 1
    BY <1>5, <1>7, <2>2, FS_AddElement
  <2> QED
    BY <2>1, <2>3
<1>11. d = [c EXCEPT !.m_qSize = q]
  BY <1>8 DEF Calendars
<1> HIDE DEF q, d
<1>12. Kept(d, n) /\ Events(d) = Events(c) /\ d.m_lastPrio = c.m_lastPrio /\ d.m_qSize = q
  BY <1>9, <1>10, <1>11, QSizeSet
<1>13. Counted(d)
  BY <1>10, <1>12 DEF Counted
<1>14. cal' = ResizeUp(d)
  BY <1>1 DEF d, c, ev
<1>15. Counted(cal') /\ Events(cal') = Events(d) /\ cal'.m_lastPrio = d.m_lastPrio
  BY <1>13, <1>14, ResizedIs DEF SameEvents
<1>16. Events(cal)' = Events(cal) \cup {ev}
  <2>1. Events(cal)' = Events(cal')
    BY DEF Events, Bucket
  <2> QED
    BY <1>7, <1>12, <1>15, <2>1
<1>17. CInv'
  <2>1. Counted(cal)'
    BY <1>2, <1>15, SameOrder
  <2>2. cal'.m_lastPrio = now'
    BY <1>2, <1>7, <1>12, <1>15 DEF SameSearch, CInv
  <2>3. \A e \in Events(cal)' : e.uid < m_uid'
    BY <1>2, <1>3, <1>6, <1>16 DEF CInv
  <2>4. m_uid' \in Nat /\ now' \in Nat
    BY <1>2 DEF CInv
  <2> QED
    BY <2>1, <2>2, <2>3, <2>4 DEF CInv
<1>18. Sched!Insert
  BY <1>2, <1>16 DEF Sched!Insert, Sched!InsertOf, ev
<1> QED
  BY <1>17, <1>18

LEMMA RemoveNextStep ==
  ASSUME CInv, RemoveNext
  PROVE  CInv' /\ Sched!RemoveNext
<1> DEFINE ev == PeekNext(cal)
           c == DoRemoveNext(cal)
           d == [c EXCEPT !.m_qSize = @ - 1]
<1>1. /\ cal.m_qSize # 0 /\ cal' = ResizeDown(d) /\ returned' = ev /\ now' = ev.ts
      /\ m_reverse' = m_reverse /\ m_uid' = m_uid
  BY DEF RemoveNext, IsEmpty
<1>2. PICK n \in Nat \ {0} : Kept(cal, n) /\ cal.m_qSize = Cardinality(Events(cal))
  BY DEF CInv, Counted
<1>3. Events(cal) # {} /\ IsFiniteSet(Events(cal)) /\ Cardinality(Events(cal)) \in Nat
  BY <1>1, <1>2, FS_EmptySet, FS_CardinalityType DEF Kept
<1>4. ev \in Events(cal) /\ ev \in Entries /\ \A e \in Events(cal) \ {ev} : Sched!Before(ev, e)
  BY <1>2, <1>3, PeekIs
<1>5. /\ Kept(c, n) /\ Events(c) = Events(cal) \ {ev}
      /\ c.m_lastPrio = ev.ts /\ c.m_qSize = cal.m_qSize
  BY <1>2, <1>3, RemoveNextIs
<1> HIDE DEF ev, c
<1> DEFINE q == c.m_qSize - 1
<1>6. q \in Nat /\ q = Cardinality(Events(c))
  <2>1. Cardinality(Events(c)) = Cardinality(Events(cal)) - 1
    BY <1>3, <1>4, <1>5, FS_RemoveElement, ZenonT(60)
  <2> QED
    BY <1>1, <1>2, <1>3, <1>5, <2>1
<1>7. d = [c EXCEPT !.m_qSize = q]
  BY <1>5 DEF Kept, Filed, Calendars
<1> HIDE DEF q, d
<1>8. Kept(d, n) /\ Events(d) = Events(c) /\ d.m_lastPrio = c.m_lastPrio /\ d.m_qSize = q
  BY <1>5, <1>6, <1>7, QSizeSet
<1>9. Counted(d)
  BY <1>6, <1>8 DEF Counted
<1>10. Counted(cal') /\ Events(cal') = Events(d) /\ cal'.m_lastPrio = d.m_lastPrio
  BY <1>1, <1>9, ResizedIs DEF SameEvents
<1>11. Events(cal)' = Events(cal) \ {ev}
  <2>1. Events(cal)' = Events(cal')
    BY DEF Events, Bucket
  <2> QED
    BY <1>5, <1>8, <1>10, <2>1
<1>12. CInv'
  <2>1. Counted(cal)'
    BY <1>1, <1>10, SameOrder
  <2>2. cal'.m_lastPrio = now' /\ now' \in Nat
    BY <1>1, <1>4, <1>5, <1>8, <1>10 DEF Entries
  <2> QED
    BY <1>1, <1>11, <2>1, <2>2 DEF CInv
<1>13. Sched!RemoveNext
  BY <1>1, <1>4, <1>11 DEF Sched!RemoveNext
<1> QED
  BY <1>12, <1>13

\* DoRemove finds the event in the bucket of its day, and no other with its uid.
LEMMA ErasedIs ==
  ASSUME NEW n \in Nat \ {0}, NEW c, Kept(c, n), c.m_qSize = Cardinality(Events(c)),
         NEW ev \in Events(c)
  PROVE  LET d == Erased(c, ev)
         IN  Counted(d) /\ Events(d) = Events(c) \ {ev} /\ d.m_lastPrio = c.m_lastPrio
<1> DEFINE i == Hash(c, ev.ts)
           b == Bucket(c, i)
           at == CHOOSE k \in DOMAIN b : b[k].uid = ev.uid
           r == Removed(b, at)
           d == Erased(c, ev)
           q == c.m_qSize - 1
<1>1. /\ c \in Calendars(n) /\ Filed(c, n) /\ Placed(c) /\ Distinct(Events(c)) /\ IsFiniteSet(Events(c))
      /\ c.m_lastPrio \in Nat
  BY Shape DEF Kept, Filed
<1>2. ev \in Entries /\ i \in 0..n - 1 /\ ev \in Listed(b)
  BY <1>1, BucketOf
<1>3. Sorted(b) /\ Listed(b) \subseteq Events(c) /\ \A e \in Listed(b) : Hash(c, e.ts) = i
  BY <1>1, <1>2, EventsAre DEF Filed
<1>4. d = [c EXCEPT !.m_buckets = [@ EXCEPT ![i] = r], !.m_qSize = q]
  BY <1>1, <1>2 DEF Erased, SeqExt!RemoveAt, Removed, Calendars
<1> HIDE DEF d, i, b
<1>5. at \in 1..Len(b) /\ b[at] = ev
  <2>1. DOMAIN b = 1..Len(b)
    BY <1>3 DEF Sorted
  <2>2. PICK k \in 1..Len(b) : b[k] = ev
    BY <1>2 DEF Listed
  <2>3. at \in 1..Len(b) /\ b[at].uid = ev.uid
    BY <2>1, <2>2
  <2> HIDE DEF at
  <2>4. b[at] \in Events(c)
    BY <1>3, <2>3 DEF Listed
  <2> QED
    BY <1>1, <2>3, <2>4 DEF Distinct
<1> HIDE DEF at
<1>6. Sorted(r) /\ Listed(r) = Listed(b) \ {ev}
  BY <1>3, <1>5, RemoveSorted
<1> HIDE DEF r
<1>7. Cardinality(Events(c) \ {ev}) = q /\ q \in Nat
  <2>1. Cardinality(Events(c) \ {ev}) = Cardinality(Events(c)) - 1
    BY <1>1, FS_RemoveElement
  <2>2. Cardinality(Events(c) \ {ev}) \in Nat
    BY <1>1, FS_RemoveElement, FS_CardinalityType
  <2> QED
    BY <2>1, <2>2
<1> HIDE DEF q
<1>8. d \in Calendars(n) /\ Rebucketed(d, c, i, r) /\ d.m_qSize = q
      /\ d.m_width = c.m_width /\ d.m_lastPrio = c.m_lastPrio
      /\ d.m_lastBucket = c.m_lastBucket /\ d.m_bucketTop = c.m_bucketTop
  BY <1>1, <1>2, <1>4, <1>6, <1>7 DEF Calendars, Rebucketed, Sorted
<1>9. \A e \in Listed(r) : Hash(c, e.ts) = i
  BY <1>3, <1>6
<1>10. Filed(d, n)
  BY <1>1, <1>2, <1>6, <1>8, <1>9, Refiled
<1>11. Events(d) = Events(c) \ {ev}
  <2>1. Listed(r) = Listed(Bucket(c, i)) \ {ev} /\ Hash(c, ev.ts) = i
    BY <1>6 DEF b, i
  <2> QED
    BY <1>1, <1>2, <1>8, <2>1, EventTaken
<1>12. Hash(d, c.m_lastPrio) = Hash(c, c.m_lastPrio)
  BY <1>1, <1>2, <1>8, OneBucket
<1>13. Placed(d)
  BY <1>1, <1>8, <1>11, <1>12 DEF Placed
<1>14. Distinct(Events(d)) /\ IsFiniteSet(Events(d))
  BY <1>1, <1>11, SomeLeft
<1>15. Kept(d, n)
  BY <1>10, <1>13, <1>14 DEF Kept
<1>16. Counted(d)
  BY <1>7, <1>8, <1>11, <1>15 DEF Counted
<1> QED
  BY <1>8, <1>11, <1>16 DEF d

LEMMA RemoveStep ==
  ASSUME CInv, Remove
  PROVE  CInv' /\ Sched!Remove
<1>1. PICK ev \in Events(cal) : cal' = ResizeDown(Erased(cal, ev))
  BY DEF Remove
<1>2. returned' = Sched!NoEvent /\ m_reverse' = m_reverse /\ m_uid' = m_uid /\ now' = now
  BY DEF Remove
<1>3. PICK n \in Nat \ {0} : Kept(cal, n) /\ cal.m_qSize = Cardinality(Events(cal))
  BY DEF CInv, Counted
<1> DEFINE d == Erased(cal, ev)
<1>4. Counted(d) /\ Events(d) = Events(cal) \ {ev} /\ d.m_lastPrio = cal.m_lastPrio
  BY <1>3, ErasedIs
<1> HIDE DEF d
<1>5. cal' = ResizeDown(d)
  BY <1>1 DEF d
<1>6. Counted(cal') /\ Events(cal') = Events(d) /\ cal'.m_lastPrio = d.m_lastPrio
  BY <1>4, <1>5, ResizedIs DEF SameEvents
<1>7. Events(cal)' = Events(cal) \ {ev}
  <2>1. Events(cal)' = Events(cal')
    BY DEF Events, Bucket
  <2> QED
    BY <1>4, <1>6, <2>1
<1>8. CInv'
  <2>1. Counted(cal)'
    BY <1>2, <1>6, SameOrder
  <2> QED
    BY <1>2, <1>4, <1>6, <1>7, <2>1 DEF CInv
<1>9. Sched!Remove
  BY <1>2, <1>7 DEF Sched!Remove
<1> QED
  BY <1>8, <1>9

\* The calendar keeps its events filed by day and its search where the clock is, through
\* every insertion, removal and resize.
THEOREM CalendarInvariant == ASSUME DelaysAreTimes PROVE Spec => []CInv
<1>1. Init => CInv
  <2> SUFFICES ASSUME Init
               PROVE  CInv
    OBVIOUS
  <2>1. cal = InitCal(2, 1, 0, 0) /\ m_uid = 1 /\ now = 0
    BY DEF Init
  <2>2. Kept(cal, 2) /\ Events(cal) = {} /\ cal.m_lastPrio = 0 /\ cal.m_qSize = 0
    BY <2>1, InitCalIs
  <2>3. cal.m_qSize = Cardinality(Events(cal))
    BY <2>2, FS_EmptySet
  <2>4. Counted(cal)
    BY <2>2, <2>3 DEF Counted
  <2> QED
    BY <2>1, <2>2, <2>4 DEF CInv
<1>2. CInv /\ [Next]_vars => CInv'
  <2> SUFFICES ASSUME CInv, [Next]_vars
               PROVE  CInv'
    OBVIOUS
  <2>1. CASE UNCHANGED vars
    <3>1. m_reverse' = m_reverse /\ cal' = cal /\ m_uid' = m_uid /\ now' = now
      BY <2>1 DEF vars
    <3>2. Counted(cal')
      BY <3>1 DEF CInv
    <3>3. Counted(cal)'
      BY <3>1, <3>2, SameOrder
    <3>4. Events(cal)' = Events(cal)
      BY <3>1 DEF Events, Bucket
    <3> QED
      BY <3>1, <3>3, <3>4 DEF CInv
  <2> QED
    BY <2>1, InsertStep, RemoveNextStep, RemoveStep DEF Next
<1> QED
  BY <1>1, <1>2, PTL DEF Spec

\* The search starts in a bucket, and the size that decides about a resize is the number of
\* events.
THEOREM CalendarTypes == ASSUME DelaysAreTimes PROVE Spec => []TypeOK
<1>1. CInv => TypeOK
  <2> SUFFICES ASSUME CInv
               PROVE  TypeOK
    OBVIOUS
  <2>1. PICK n \in Nat \ {0} : Kept(cal, n) /\ cal.m_qSize = Cardinality(Events(cal))
    BY DEF CInv, Counted
  <2>2. cal \in Calendars(n) /\ Placed(cal)
    BY <2>1 DEF Kept, Filed
  <2>3. DOMAIN cal.m_buckets = 0..n - 1 /\ NBuckets(cal) = n /\ cal.m_width \in Nat \ {0}
        /\ cal.m_lastPrio \in Nat
    BY <2>2, Shape
  <2>4. cal.m_lastBucket \in 0..n - 1
    BY <2>2, <2>3, HashIs DEF Placed
  <2> QED
    BY <2>1, <2>3, <2>4 DEF TypeOK
<1> QED
  BY <1>1, CalendarInvariant, PTL

\* CalendarScheduler is the event list the simulator takes it for: the search of a year
\* from the last event finds the earliest event of all, and no resize loses an event.
THEOREM CalendarIsScheduler == ASSUME DelaysAreTimes PROVE Spec => ImplementsScheduler
<1>1. Init => Sched!Init
  <2> SUFFICES ASSUME Init
               PROVE  Sched!Init
    OBVIOUS
  <2>1. cal = InitCal(2, 1, 0, 0)
    BY DEF Init
  <2>2. Events(cal) = {}
    BY <2>1, InitCalIs
  <2> QED
    BY <2>2 DEF Init, Sched!Init
<1>2. CInv /\ [Next]_vars => [Sched!Next]_Sched!schedulerVars
  <2> SUFFICES ASSUME CInv, [Next]_vars
               PROVE  Sched!Next \/ UNCHANGED Sched!schedulerVars
    OBVIOUS
  <2>1. CASE UNCHANGED vars
    BY <2>1 DEF vars, Sched!schedulerVars, Events, Bucket
  <2> QED
    BY <2>1, InsertStep, RemoveNextStep, RemoveStep DEF Next, Sched!Next
<1> QED
  BY <1>1, <1>2, CalendarInvariant, PTL DEF Spec, ImplementsScheduler, Sched!Spec
=============================================================================
