---------------------------- MODULE EventCalendar ----------------------------
(***************************************************************************)
(* What a discrete-event engine promises its users, whatever it keeps in   *)
(* its lists: an agenda of future entries, a clock, and the entries fired. *)
(* An entry is fired at its own time, the earliest first, and among        *)
(* entries of one time in the order they were added; a withdrawn entry is  *)
(* gone at once. DefaultSimulator implements it, with its lazily cancelled *)
(* events, the queue of other threads and the destroy list hidden.         *)
(***************************************************************************)
EXTENDS Integers

VARIABLES now, agenda, fired

calendar == <<now, agenda, fired>>

Earlier(a, b) == a.ts < b.ts \/ (a.ts = b.ts /\ a.uid < b.uid)

Init == now = 0 /\ agenda = {} /\ fired = {}

Add ==
    /\ \E e \in agenda' :
         /\ agenda' = agenda \cup {e}
         /\ e.ts >= now
         /\ e.impl \notin fired
         /\ \A f \in agenda : f.impl # e.impl /\ f.uid < e.uid
    /\ UNCHANGED <<now, fired>>

Withdraw ==
    /\ \E e \in agenda : agenda' = agenda \ {e}
    /\ UNCHANGED <<now, fired>>

Fire ==
    \E e \in agenda :
        /\ \A f \in agenda \ {e} : Earlier(e, f)
        /\ e.ts >= now
        /\ agenda' = agenda \ {e}
        /\ now' = e.ts
        /\ fired' = fired \cup {e.impl}

\* Time may pass with nothing to do, never beyond the next entry.
Pass ==
    /\ now' >= now
    /\ \A e \in agenda : now' <= e.ts
    /\ UNCHANGED <<agenda, fired>>

\* The simulation is over: what is left on the agenda will not happen.
Close == agenda' = {} /\ UNCHANGED <<now, fired>>

Restart == agenda = {} /\ Init'

Next == Add \/ Withdraw \/ Fire \/ Pass \/ Close \/ Restart

Spec == Init /\ [][Next]_calendar
=============================================================================
