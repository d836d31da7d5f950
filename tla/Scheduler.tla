------------------------------ MODULE Scheduler ------------------------------
(***************************************************************************)
(* The future event list behind the Scheduler interface, as a set of       *)
(* events. This is what src/src/core/model/map-scheduler.cc, the default,  *)
(* keeps in a std::map ordered by EventKey, and what the other schedulers  *)
(* must be indistinguishable from: `returned' is the event the last call   *)
(* handed back to the simulator.                                           *)
(***************************************************************************)
EXTENDS Integers

CONSTANTS
    Delays,     \* how far in the future events are inserted
    MaxEvents   \* bound: events inserted in one behaviour

VARIABLES
    events,     \* what is in the list
    m_uid,      \* uid the simulator gives the next event
    now,        \* time stamp of the last event handed out by RemoveNext
    returned    \* the event handed out by the last call, or NoEvent

schedulerVars == <<events, m_uid, now, returned>>

NoEvent == [ts |-> 0, uid |-> 0]
Uids == 1..MaxEvents

\* operator< of EventKey
Before(a, b) == a.ts < b.ts \/ (a.ts = b.ts /\ a.uid < b.uid)

Init == events = {} /\ m_uid = 1 /\ now = 0 /\ returned = NoEvent

\* The simulator inserts events at or after its clock, each with a new uid.
NewEvent(delay) == [ts |-> now + delay, uid |-> m_uid]

InsertOf(ev) ==
    /\ events' = events \cup {ev}
    /\ returned' = NoEvent
    /\ UNCHANGED now

Insert ==
    /\ m_uid \in Uids /\ m_uid' = m_uid + 1
    /\ \E delay \in Delays : InsertOf(NewEvent(delay))

RemoveNext ==
    \E ev \in events :
        /\ \A e \in events \ {ev} : Before(ev, e)
        /\ events' = events \ {ev}
        /\ returned' = ev /\ now' = ev.ts
        /\ UNCHANGED m_uid

Remove ==
    \E ev \in events :
        /\ events' = events \ {ev}
        /\ returned' = NoEvent
        /\ UNCHANGED <<m_uid, now>>

Next == Insert \/ RemoveNext \/ Remove

Spec == Init /\ [][Next]_schedulerVars
=============================================================================
