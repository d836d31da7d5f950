---------------------------- MODULE ListScheduler ----------------------------
(***************************************************************************)
(* src/src/core/model/list-scheduler.cc: a std::list kept sorted by an     *)
(* insertion that scans from the front.                                    *)
(***************************************************************************)
EXTENDS Integers, Sequences

SeqExt == INSTANCE SequencesExt

CONSTANTS Delays, MaxEvents  \* as in Scheduler

VARIABLES m_events, m_uid, now, returned

vars == <<m_events, m_uid, now, returned>>

Contents == {m_events[i] : i \in DOMAIN m_events}

Sched == INSTANCE Scheduler WITH events <- Contents

-----------------------------------------------------------------------------
\* Mutant: compares time stamps only, so the last of simultaneous events is first.
InsertionByTime(list, ev) ==
    CHOOSE i \in 1..Len(list) + 1 :
        /\ i <= Len(list) => ev.ts <= list[i].ts
        /\ \A j \in 1..i - 1 : ev.ts > list[j].ts

\* Where the scan of Insert stops: before the first event later than ev.
InsertionPoint(list, ev) ==
    CHOOSE i \in 1..Len(list) + 1 :
        /\ i <= Len(list) => Sched!Before(ev, list[i])
        /\ \A j \in 1..i - 1 : ~Sched!Before(ev, list[j])

Init == m_events = <<>> /\ m_uid = 1 /\ now = 0 /\ returned = Sched!NoEvent

Insert ==
    /\ m_uid \in Sched!Uids /\ m_uid' = m_uid + 1
    /\ \E delay \in Delays :
          LET ev == Sched!NewEvent(delay)
          IN  m_events' = SeqExt!InsertAt(m_events, InsertionPoint(m_events, ev), ev)
    /\ returned' = Sched!NoEvent
    /\ UNCHANGED now

RemoveNext ==
    /\ m_events # <<>>
    /\ m_events' = Tail(m_events)
    /\ returned' = Head(m_events) /\ now' = Head(m_events).ts
    /\ UNCHANGED m_uid

Remove ==
    /\ \E i \in DOMAIN m_events : m_events' = SeqExt!RemoveAt(m_events, i)
    /\ returned' = Sched!NoEvent
    /\ UNCHANGED <<m_uid, now>>

Next == Insert \/ RemoveNext \/ Remove

Spec == Init /\ [][Next]_vars

-----------------------------------------------------------------------------
\* RemoveNext takes the front of the list, so the list is the event list it
\* stands for only while every insertion finds the right place.
ImplementsScheduler == Sched!Spec
=============================================================================
