-------------------------- MODULE CalendarScheduler --------------------------
(***************************************************************************)
(* src/src/core/model/calendar-scheduler.cc: a calendar queue. An event is *)
(* hashed by its time stamp to a bucket (a day) of m_width ticks; the      *)
(* search for the next one starts at the bucket of the last one and looks  *)
(* for an event of the current year; buckets are rebuilt as the list grows *)
(* and shrinks, with a width estimated from the events at its head.        *)
(***************************************************************************)
EXTENDS Integers, Sequences, FiniteSets

SeqExt == INSTANCE SequencesExt

CONSTANTS Delays, MaxEvents  \* as in Scheduler

VARIABLES
    cal,                   \* the members of the class, see InitCal
    m_reverse,             \* attribute Reverse: buckets sorted latest first
    m_uid, now, returned   \* as in Scheduler

vars == <<cal, m_reverse, m_uid, now, returned>>

Bucket(c, i) == c.m_buckets[i]
NBuckets(c) == Cardinality(DOMAIN c.m_buckets)
Events(c) == UNION {{Bucket(c, i)[j] : j \in DOMAIN Bucket(c, i)} : i \in DOMAIN c.m_buckets}

Sched == INSTANCE Scheduler WITH events <- Events(cal)

-----------------------------------------------------------------------------
(* SetReverse: where the next event of a bucket is, how it is taken out     *)
(* and the order events are inserted in.                                    *)
NextEvent(b) == IF m_reverse THEN b[Len(b)] ELSE b[1]

Pop(b) == IF m_reverse THEN SubSeq(b, 1, Len(b) - 1) ELSE Tail(b)
Order(a, b) == IF m_reverse THEN Sched!Before(b, a) ELSE Sched!Before(a, b)

-----------------------------------------------------------------------------
Hash(c, ts) == (ts \div c.m_width) % NBuckets(c)

\* Init(nBuckets, width, startPrio)
InitCal(nBuckets, width, startPrio, qSize) ==
    [m_buckets |-> [i \in 0..nBuckets - 1 |-> <<>>],
     m_width |-> width,
     m_lastPrio |-> startPrio,
     m_lastBucket |-> (startPrio \div width) % nBuckets,
     m_bucketTop |-> (startPrio \div width + 1) * width,
     m_qSize |-> qSize]

DoInsert(c, ev) ==
    LET bucket == Hash(c, ev.ts)
        list == Bucket(c, bucket)
        at == CHOOSE i \in 1..Len(list) + 1 :
                  /\ i <= Len(list) => Order(ev, list[i])
                  /\ \A j \in 1..i - 1 : ~Order(ev, list[j])
    IN  [c EXCEPT !.m_buckets[bucket] = SeqExt!InsertAt(list, at, ev)]

-----------------------------------------------------------------------------
(* The scan of PeekNext and DoRemoveNext: offset k from m_lastBucket.       *)
ScanBucket(c, k) == (c.m_lastBucket + k) % NBuckets(c)
ScanTop(c, k) == c.m_bucketTop + k * c.m_width
NonEmpty(c) == {i \in DOMAIN c.m_buckets : Bucket(c, i) # <<>>}

\* Mutant: the first event found is taken, of whatever year.
AnyYear(c) == {k \in 0..NBuckets(c) - 1 : ScanBucket(c, k) \in NonEmpty(c)}

\* Offsets at which the scan would stop: the bucket has an event before the
\* end of its day in the current year.
ThisYear(c) ==
    {k \in 0..NBuckets(c) - 1 :
        ScanBucket(c, k) \in NonEmpty(c)
        /\ NextEvent(Bucket(c, ScanBucket(c, k))).ts < ScanTop(c, k)}

MinBucket(c) ==
    CHOOSE i \in NonEmpty(c) : \A j \in NonEmpty(c) \ {i} :
        Sched!Before(NextEvent(Bucket(c, i)), NextEvent(Bucket(c, j)))

PeekNext(c) ==
    IF ThisYear(c) # {}
    THEN LET k == CHOOSE k \in ThisYear(c) : \A l \in ThisYear(c) : k <= l
         IN  NextEvent(Bucket(c, ScanBucket(c, k)))
    ELSE NextEvent(Bucket(c, MinBucket(c)))

\* The calendar after DoRemoveNext took out PeekNext.
DoRemoveNext(c) ==
    LET ev == PeekNext(c)
        popped == [c EXCEPT !.m_buckets[Hash(c, ev.ts)] = Pop(@), !.m_lastPrio = ev.ts]
    IN  IF ThisYear(c) # {}
        THEN LET k == CHOOSE k \in ThisYear(c) : \A l \in ThisYear(c) : k <= l
             IN  [popped EXCEPT !.m_lastBucket = ScanBucket(c, k), !.m_bucketTop = ScanTop(c, k)]
        ELSE [popped EXCEPT !.m_lastBucket = Hash(c, ev.ts),
                            !.m_bucketTop = (ev.ts \div c.m_width + 1) * c.m_width]

-----------------------------------------------------------------------------
(* Resizing                                                                 *)
NSamples(c) ==
    IF c.m_qSize <= 5 THEN c.m_qSize
    ELSE IF 5 + c.m_qSize \div 10 > 25 THEN 25 ELSE 5 + c.m_qSize \div 10

\* The calendar after the removal of its first n events.
Drained(c, n) ==
    LET drained[i \in 0..n] == IF i = 0 THEN c ELSE DoRemoveNext(drained[i - 1])
    IN  drained[n]

Samples(c) == [i \in 1..NSamples(c) |-> PeekNext(Drained(c, i - 1))]

\* The calendar after the insertion of the events of a list.
InsertAll(c, list) ==
    LET inserted[i \in 0..Len(list)] ==
            IF i = 0 THEN c ELSE DoInsert(inserted[i - 1], list[i])
    IN  inserted[Len(list)]

\* CalculateNewWidth puts the samples back and restores where the search is.
Sampled(c) ==
    [InsertAll(Drained(c, NSamples(c)), Samples(c))
        EXCEPT !.m_lastBucket = c.m_lastBucket, !.m_bucketTop = c.m_bucketTop,
               !.m_lastPrio = c.m_lastPrio]

\* The sum of those gaps between the time stamps of consecutive events of s that are at
\* most max.
GapsUpTo(s, max) ==
    LET Gap(i) == s[i + 1].ts - s[i].ts
        total[i \in 0..Len(s) - 1] ==
            IF i = 0 THEN 0 ELSE total[i - 1] + (IF Gap(i) <= max THEN Gap(i) ELSE 0)
    IN  total[Len(s) - 1]

\* Three times the sum of the gaps that are at most twice the average gap; all the gaps
\* together are the distance of the last sample from the first.
NewWidth(c) ==
    LET s == Samples(c)
        totalSeparation == s[Len(s)].ts - s[1].ts
        twiceAvg == (totalSeparation \div (Len(s) - 1)) * 2
        total == 3 * GapsUpTo(s, twiceAvg)
    IN  IF total > 1 THEN total ELSE 1

\* DoResize fills a new calendar from one old bucket after the other.
DoResize(c, newSize, newWidth) ==
    LET filled[i \in 0..NBuckets(c)] ==
            IF i = 0 THEN InitCal(newSize, newWidth, c.m_lastPrio, c.m_qSize)
            ELSE InsertAll(filled[i - 1], Bucket(c, i - 1))
    IN  filled[NBuckets(c)]

Resize(c, newSize) ==
    IF c.m_qSize < 2 THEN DoResize(c, newSize, 1)
    ELSE DoResize(Sampled(c), newSize, NewWidth(c))

ResizeUp(c) ==
    IF c.m_qSize > NBuckets(c) * 2 /\ NBuckets(c) < 32768 THEN Resize(c, NBuckets(c) * 2) ELSE c

\* The calendar without an event, before ResizeDown.
Erased(c, ev) ==
    LET list == Bucket(c, Hash(c, ev.ts))
        at == CHOOSE i \in DOMAIN list : list[i].uid = ev.uid
    IN  [c EXCEPT !.m_buckets[Hash(c, ev.ts)] = SeqExt!RemoveAt(list, at), !.m_qSize = @ - 1]

ResizeDown(c) ==
    IF c.m_qSize < NBuckets(c) \div 2 THEN Resize(c, NBuckets(c) \div 2) ELSE c

-----------------------------------------------------------------------------
Init ==
    /\ cal = InitCal(2, 1, 0, 0) /\ m_reverse \in BOOLEAN
    /\ m_uid = 1 /\ now = 0 /\ returned = Sched!NoEvent

IsEmpty == cal.m_qSize = 0

Insert ==
    /\ m_uid \in Sched!Uids /\ m_uid' = m_uid + 1
    /\ \E delay \in Delays :
          LET inserted == DoInsert(cal, Sched!NewEvent(delay))
          IN  cal' = ResizeUp([inserted EXCEPT !.m_qSize = @ + 1])
    /\ returned' = Sched!NoEvent
    /\ UNCHANGED <<m_reverse, now>>

RemoveNext ==
    /\ ~IsEmpty
    /\ cal' = ResizeDown([DoRemoveNext(cal) EXCEPT !.m_qSize = @ - 1])
    /\ returned' = PeekNext(cal) /\ now' = PeekNext(cal).ts
    /\ UNCHANGED <<m_reverse, m_uid>>

Remove ==
    /\ \E ev \in Events(cal) : cal' = ResizeDown(Erased(cal, ev))
    /\ returned' = Sched!NoEvent
    /\ UNCHANGED <<m_reverse, m_uid, now>>

Next == Insert \/ RemoveNext \/ Remove

Spec == Init /\ [][Next]_vars

-----------------------------------------------------------------------------
\* Type invariant of the calendar.
TypeOK ==
    /\ cal.m_width \in Nat \ {0} /\ cal.m_lastBucket \in DOMAIN cal.m_buckets
    /\ DOMAIN cal.m_buckets = 0..NBuckets(cal) - 1
    /\ cal.m_qSize = Cardinality(Events(cal))

\* The calendar is an event list, through every growth and shrinkage: the
\* search of one year, started at the bucket of the last event, finds the
\* earliest event of all. It would not if an event could be behind the
\* search, in a bucket scanned only after a later event of this year, which
\* is what a resize that loses its place or a wrong m_bucketTop would do.
ImplementsScheduler == Sched!Spec
=============================================================================
