# A formal model of ns-3 with Target Wake Time

This directory holds TLA+ modules, TLC runs and TLAPS proofs about the C++
program in this repository: the ns-3 network simulator, in a fork that adds
IEEE 802.11ax Target Wake Time (TWT) to the Wi-Fi module. The parts that carry
the program's own logic and are hard to test are the discrete-event engines, on
which every model in the tree runs, with their event lists and timers; TWT, the
fork's contribution; and the parts of the Wi-Fi MAC that TWT works on: power
management, association and Block Ack.

Run `tlc -config X.cfg M` for the module and configuration of a run listed in
`PROJECT.json`, and `tlapm` on the modules whose names end with `Proofs` or
`Lemmas` for the proofs. The key `map` of
`PROJECT.json` gives the source lines every definition stands for.

## 1. Inventory

Paths are below `src/src/`. "Status": M modelled, P partly, - not modelled.

| Component (source) | State | Operations | Status |
|---|---|---|---|
| Engine: `core/model/default-simulator-impl`, facade `simulator`, handles `event-id`, `event-impl` | event list, destroy list, queue of other threads and its flag, clock (uid, time stamp, context), `m_uid`, `m_stop`, counters, a cancel bit per event | Schedule, ScheduleNow, ScheduleWithContext (main or other thread), ScheduleDestroy, Cancel, Remove, Stop, Run, Destroy, IsExpired, GetDelayLeft | M |
| Event lists: `core/model/{map,heap,list,calendar}-scheduler` | an ordered container of events | Insert, PeekNext, RemoveNext, Remove | M (priority-queue scheduler: -) |
| Timers: `core/model/timer`, `watchdog`, and `wifi/model/wifi-tx-timer` | an event, an end, the delay left | Set, Reschedule, Cancel, Expire; Ping; Schedule, Suspend, Resume | M |
| Real-time engine: `core/model/realtime-simulator-impl`, `wall-clock-synchronizer` | as the engine, under a mutex, with a wall clock, a condition and the target of the wait | Run, ProcessOneEvent, Synchronize, SleepWait, SpinWait, Signal, scheduling from any thread | P |
| TWT: `wifi/model/wifi-remote-station-manager`, `wifi-twt-agreement`, parts of `wifi-mac`, `sta-wifi-mac`, `wifi-phy` | agreements per peer and flow with two EventIds each, active flag, blocked queues, PHY sleep state | SetTwtSchedule/CreateTwtAgreement, BeginTwtSpNow, EndTwtSpNow, SetPhySleepState, SetSleepMode, ResumeFromSleep | P |
| Frame exchange timer and NAV: `wifi-tx-timer`, `frame-exchange-manager` | the pending timeout and its true end; the end of the NAV | UpdateNav, ReceivedNormalAck, NormalAckTimeout | P |
| Association: `wifi-assoc-manager`, `wifi-default-assoc-manager`, `sta-wifi-mac`, `ap-wifi-mac` | MAC state, BSSIDs, candidate APs, scan, request and beacon timers; the AP's state of the STA | scanning, association request and response, timeouts, missed beacons, channel switches | P |
| Power save: `sta-wifi-mac`, `ap-wifi-mac`, `mac-rx-middle` | PM mode of the STA, flag in its frames, `m_isInPsMode` at the AP | SetPowerSaveMode, TxOk, ProcessPowerManagementFlag | P |
| Block Ack: `block-ack-manager`, `originator-`, `recipient-block-ack-agreement`, `block-ack-window`, `ht/ht-frame-exchange-manager`, `qos-txop` | transmit window, scoreboard, reordering buffer, agreement state, queued BlockAckReq, queue with lifetimes | ADDBA handshake, A-MPDU, Block Ack, BlockAckReq, lifetimes, timeouts | P |
| MAC queue: `wifi-mac-queue`, `wifi-mac-queue-scheduler-impl` | frames per destination with lifetimes, reasons for blocking | Enqueue, expiry, Block/UnblockQueues | P (one destination and TID) |
| Channel access: `qos-txop`, `channel-access-manager`, `txop` | backoff slots, busy times | what is sent once the channel is granted; RequestAccess, DoRestartAccessTimeout | P (`qos-txop` only) |
| Distributed engines: `mpi/model/*-simulator-impl` | as the engine; lookahead, messages | Run, window synchronisation | - |
| Internet stack, PHY, propagation, interference, traffic generators | | | - |

**How they interact.** Everything is called back by the engine: a model
schedules an `EventImpl` and keeps an `EventId`, and the event loop calls
`Invoke`, in which user code re-enters the engine. In the default engine only
`ScheduleWithContext` may be called from another thread, which goes through a
queue under a mutex and a flag that is read without it; in the real-time engine
everything is under one mutex, and an insertion ends the wait of the main thread.
The engine calls its Scheduler through an interface of four methods. In TWT the
scenario calls `SetTwtSchedule` at the AP and the STA separately; each schedules
its own chain of Begin and End events, which call down into the MAC (block the
peer's queues) and, at a STA, the PHY (sleep), while the frame exchange manager
and the channel change the state those calls depend on. The end of a service
period also limits what an exchange may take, and with it whether an ADDBA
request or a BlockAckReq is sent at all. STA and AP meet in frames only:
association and power management mode live on both sides and are brought together
by frames, acknowledgements and timers; so are the two windows of a Block Ack
agreement.

**What is hard**, and what must hold.

- *Engine.* `IsExpired` is computed from a time stamp and a uid, without the
  event list being looked at; Cancel only sets a bit, Remove takes the event out,
  and both may be called inside a callback, before Run, after it, or on destroy
  events during Destroy; other threads insert at any moment. Must hold: handles
  tell the truth (`EventIdTruth`), withdrawn events do not run (`CancelHolds`),
  no event is lost or run twice (`NothingLost`), events run in order
  (`DispatchOrder`), the counters match the lists (`UnscheduledCount`), the loop
  gets to every event (`EventuallyRuns`).
- *Event lists.* Hand-written heaps, buckets and resizing. Must hold: each is
  indistinguishable from the sorted map (`ImplementsScheduler`).
- *Timers.* A postponed `WifiTxTimer` or `Watchdog` leaves its event where it is;
  the event comes early and must notice; a suspended `Timer` keeps what is left. Must
  hold: each calls back once, when the delay asked for has passed, a time it was
  suspended not counted, unless it is cancelled (`Countdown`).
- *Real-time engine.* The wait is computed in one critical section, done with the
  mutex released, and the event taken in another. Must hold: no wake-up is lost
  (`NoLostWakeup`), no event runs before its time (`NeverEarly`), the list stays
  an event list (`ImplementsScheduler`), every event is run (`RunExecutes`).
- *TWT.* Replacement of an agreement at any moment, Begin and End on the same
  instant, overlapping flows, sleep requests postponed by frames, timers and the
  NAV. Must hold: one chain per agreement (`OneChain`), queue and PHY follow the
  service periods (`OpenWithOneFlow`, `BlockedBetweenPeriods`,
  `QuietRequestFollowed`, `AwakeForResponse`), the chain never ends
  (`KeepsWaking`).
- *Association and power management.* Timers of the scan, the request and the
  beacons that nobody stops, late responses, lost acknowledgements, retransmissions
  dropped as duplicates. Must hold: no state is a dead end (`MovesOn`), no request
  without a BSSID (`AsksKnownAp`), a timer finds the station in the state it was set
  for (`CleanScan`), both sides agree (`AssociationAgreed`,
  `PowerModeAgreedIfTold`), a mode switch comes to an end (`PmSettles`).
- *Block Ack.* Losses, lifetimes that end in flight, sequence numbers that wrap, an
  agreement set up again. Must hold: packets are handed up in order and once
  (`InOrder`), what is acknowledged arrives (`AckedArrives`), windows agree with what
  was sent and received (`WindowMarksAcked`, `OutstandingInWindow`,
  `ScoreboardAgrees`), the recipient is told what was given up (`GapAnnounced`), the
  queue drains (`QueueDrains`).

`PROJECT.json` lists each hazard at its line.

## 2. Plan

Done: `DefaultSimulator` with `EventCalendar`; `Scheduler` and its three
implementations; `TwtStation`; `Timers` with `Countdown`; `RealtimeSimulator`;
`Bss` (association and power management); the Block Ack modules.

Left, the most important first:

1. `TwtLink`: an AP and a STA of two `TwtStation`s with beacons and the power
   management flag, which blocks queues for the same reason as TWT. Abstract
   specification: frames to the STA are sent only while it is awake. Two peers at
   one AP after that.
2. `frame-exchange-manager` in full (RTS/CTS, retries, NAV, the end of a TXOP), of
   which `TwtStation`, `Bss` and `BlockAck` each have what they need.
3. Delba frames and the inactivity timeout of Block Ack; devices with several links.

## 3. What each module models

**DefaultSimulator.** Variables carry the names of the class members. An event
is the record (impl, ts, uid, context), and an EventId carries the same four
values; an `EventImpl` is a number, its cancel bit membership of `m_cancel`.
`pc` is where the main thread is: `idle` (outside Run and Destroy), `process` and
`insert` (`ProcessEventsWithContext`), `loop` (the `while` of Run), `notify` and
`destroyNotify` (inside user code called by the engine), `destroy` (the loop of
`Destroy`), `none` (no implementation). `UserStep` is what user code may do
wherever it runs: every operation with every argument in the constants, on every
EventId it ever got. `ForeignStep` is another thread. Steps of the main thread
are split where the other thread can interfere or user code is called: the
unlocked test of `m_eventsWithContextEmpty`, which is a data race and may miss
a write (`ProcessNothing` is always possible), the swap under the mutex, and each
insertion. `ids`, `notified` and `removed` are history, read by properties only.
The scheduler is a set; which implementations behave like a set is the matter of
the next modules.

**EventCalendar.** The promise: an agenda, a clock, and the entries fired.
Adding, withdrawing, firing the earliest, letting time pass up to the next
entry, closing. The refinement maps the agenda to the events whose cancel bit is
clear, so a cancelled event in the list is invisible except that it moves the
clock.

**Scheduler, HeapScheduler, ListScheduler, CalendarScheduler.** `Scheduler` is the
set and the last event returned. The others hold the container of the code
(vector, list, buckets) with its algorithms: sifting, sorted insertion, hashing,
search of a year, growing and shrinking with the estimated bucket width. All
insert as the engine does: at or after the time stamp last removed, with
increasing uids. The loops that sift in `HeapScheduler` and those that
resize in `CalendarScheduler` are recursive functions over their turns. The sum of all
gaps between consecutive samples is the difference of the last and the first.

**Timers, Countdown.** The three timers side by side, under one clock. A timer is
its event (the time it is scheduled for) and the members that say when it really
ends. `Countdown` is what all three promise: the delay asked for runs down while the
timer runs, stands still while it is suspended, and the callback is called when nothing
is left; the only other way to stop is to be cancelled. Three refinement mappings
compute the time left from what the *callers* asked for (`txDue`, `pingedTill`, and
`timerDue`, which is put off for as long as the timer is suspended), not from the timer's
own event and end. `did` names the call or callback of a step and maps to the step of
`Countdown` it must be, so that a timer cannot pass off a lost timeout as a Cancel, or a
resumption with another delay as a new start.

**RealtimeSimulator.** `pc` is where the main thread is: `peek` and `take` are the
two critical sections of `ProcessOneEvent`, `sync`, `sleep` and `spin` the wait
between them, with the mutex released. Another thread inserts and signals between
any two of them. `start` is Run between `m_running = true` and `SetOrigin`, which hold
no mutex: an event another thread schedules then is stamped from the origin of the Run
before, or in the first Run from that of the constructor, the epoch (`SinceEpoch`), so
that it does not come. Two details are modelled as the code has them: `SleepWait`
returns true when it was interrupted, which `DoSynchronize` takes for slept
through, so that an interrupted sleep goes on to spin; and `m_condition` of the
synchronizer is not initialised, so that it starts with either value. A wait for
want of events is a wait of `IdleDelay`. With a hard limit the engine may stop
(`fatal`).

**TwtStation.** One node, one peer. Time is discrete and relative: a pending
event carries the ticks left, `Tick` advances to the next, and events of one
instant run in insertion order as the engine (above) guarantees. An event knows
whether the agreement's EventId still refers to it (`held`), since assigning the
member forgets the older event without cancelling it. `SetTwtSchedule` is the
scenario's call, at any time; `BeginTwtSpNow` and `EndTwtSpNow` the handlers with
all they call (active flag, next Begin, End, queues, PHY). At a STA, `Transmit`,
`ResponseReceived`, `TxTimeout`, `Receive`, `SendResponse` and `UpdateNav` are the
frame exchanges as far as they postpone sleeping; the PHY is asleep or not, with
the ticks it is busy.

**Bss.** A station and its access points. `sta` is `StaWifiMac` with its association
manager: MAC state, the BSSID of the link and that of the frame exchange manager
(they are set at different times), the candidates, the timers (`scanEnd`,
`m_assocRequestEvent`, `m_beaconWatchdog`, a pending disassociation), the number of
calls of `EndScanning` scheduled for this instant (`endNow`) and
the power management mode with the calls of `SetPowerSaveMode` still scheduled.
Frames are queued, transmitted, received or lost, acknowledged or not; an AP drops
a retransmission of what it received last, as `MacRxMiddle` does, which keeps one
sequence number for the QoS data of a station and one for all its other frames, so that
another frame in between makes it forget (`SameRecord`, `Heard`). An AP also gives up a
response whose acknowledgements are lost. Timers may expire in any order, because
their lengths are attributes. A behaviour is about one *world* (`BssWorlds`): APs
that accept or refuse, and the calls the user makes.

**BlockAckWindow, RecipientAgreement, OriginatorAgreement, BlockAck.** The first three
are the data of the code as operators: the circular bitmap with its head, the
recipient's scoreboard and reordering buffer, the originator's state, window,
outstanding MPDUs, queue and BlockAckReq. `BlockAck` composes the two ends with the
exchanges between them: one frame is in the air (`psdu`). Its MPDUs end one by one and
each arrives, and is processed by the recipient at once, or is lost; so is the response.
Lifetimes end at any moment, in the order of the queue; the trace of an expired MPDU is
a scheduled call, so that what it announces comes later than the expiry. Sequence
numbers are modulo `SeqSpace` (4096 in the code).

**MCCore, MCStation.** Each combines parts that stand alone: a behaviour chooses one
of them at the start and exercises it, the others stay as they are created.

Definitions introduced by a comment "Mutant:" are small errors (a dropped guard,
a wrong order) used to confirm that each property notices a defect; `PROJECT.json`
pairs each property with one. No behaviour of a run includes them.

## 4. Runs

| Run | Shows |
|---|---|
| `engine` | type correctness, `EventIdTruth`, `UnscheduledCount`, `CancelHolds`, `NothingLost`, `DispatchOrder`, that the engine implements `EventCalendar`, and `EventuallyRuns` under fairness of the main thread, over all interleavings of user code, another thread and the loop |
| `core` | the list and the calendar (both bucket orders) implement `Scheduler`, the heap until Remove fills a hole with an event earlier than the parent of the hole, and after that loses and duplicates nothing; the three timers call back when what was asked for has passed, suspensions not counted; the real-time engine misses no wake-up, runs no event early, keeps its order and runs every event |
| `station` | TWT at an AP with two flows that are replaced at any moment, and at a STA that transmits, receives and hears NAVs; scanning, association and power management of a STA with up to two APs |
| `block_ack` | an agreement that crosses the end of the number space over a lossy link, with lifetimes and a second set-up |
| `block_ack_drains` | whatever is lost, the queue empties again and again, unless the agreement stays pending |

Runs that state what a comment or an assertion of the source says and are violated
by the code:

| Run | The comment and the behaviour |
|---|---|
| `heap_remove_order` | `HeapScheduler::Remove` only sifts down; with seven events a later event becomes the root before an earlier one |
| `twt_overlap` | the End of one flow's period blocks the peer during another's |
| `twt_sleep_order` | a wake-up postponed by the transmission timer overtakes the request to sleep that followed it |
| `block_ack_wrap` | the start of the reordering buffer is computed without reduction to 12 bits and fails the assertion of `GetDistance` |
| `block_ack_pending` | an agreement whose ADDBA request does not fit in the time left, or expires in the queue, is pending for ever |
| `power_mode` | a retransmission with the new flag is acknowledged and dropped as a duplicate: the STA takes the switch for done, the AP has not seen it |
| `late_response` | the response of an AP asked earlier is taken for that of the one asked now |

Some runs belong together. `core` and `heap_remove_order`: the history variable
`misfilled` tells exactly when the order can first break. `station` and
`twt_sleep_order`: with `crowded`, the last request came while an earlier one was
pending; such a request may be undone by the earlier one, and the next quiet one
repairs the PHY. `station` and `power_mode`: `untold` are the APs that did not look
at the flag of the last frame they received, or that hold another mode when what
another AP acknowledged completes a switch (frames queued for an AP survive the
disassociation from it); for all others the two sides agree.
`block_ack` and `block_ack_wrap`: `AckedArrives`, `ScoreboardAgrees` and
`GapAnnounced` hold as long as the start of the buffer is a sequence number.

Reading the code against its comments and documents showed further differences that
no run states:

- events due at the stop time still run if they were scheduled before the Stop
  event (`simulator.h:145`); a cancelled event moves the clock and the event count
  when its time comes, a removed one does not (`simulator.h:396`); `GetDelayLeft`
  of a destroy event is negative once the clock has moved;
- Run returns with an event of another thread waiting in the queue, although it is
  said to go on until "No events are present anymore" (`simulator.h`);
- between `m_running = true` and `SetOrigin` an event of another thread is stamped with
  a time that has nothing to do with the simulation (`realtime-simulator-impl.cc:555`:
  "we're pacing and have a meaningful realtime clock");
- in the real-time engine the origin given on a second call of Run is ignored, and
  simulation time runs ahead of the wall clock from then on;
- `Timer::Suspend` with `CHECK_ON_DESTROY` leaves the event running;
- with `wakeInterval` = `nominalWakeDuration` the Begin of a period precedes the End
  of the one before, which marks the new one inactive and blocks the peer;
- the PHY sleeps at the end of a received frame, before its acknowledgement
  (`sta-wifi-mac.h:288`: "ongoing frame exchange is completed first");
- a refused station scans again, while `wifi-design.rst` has it stay refused;
- two calls of `SetPowerSaveMode` with opposite modes leave two chains of repeated
  calls that undo each other;
- a second ADDBA request drops the MPDUs the recipient buffers, which the originator
  has been told are received.

**Bounds.** *Engine*: three EventImpls per simulation (`MaxEvents`), delays -1, 0, 1
(clamped, the present, the future), one context beside `NoContext`, uids modulo 16.
Three events are enough for two simultaneous events around a third one that cancels,
removes or stops, and for one event in each of the list, the queue and the destroy list;
simulations are repeated, because `Create` restarts the engine. *Schedulers*: six
events, seven in the heap, with delays 0, 1 and 2 (calendar 0, 1, 5: within a day,
beyond it, beyond a year); the calendar grows at five events and shrinks below a
quarter, and the heap's third level needs four. The defect of the heap needs seven,
which is why both of its runs have seven. *Timers*: delays 0, 1, 3 and a clock up to 5,
so that a timer is postponed, moved up, and postponed again before it ends, or suspended
and resumed twice. *Real-time engine*: three events with delays 0, 1, 3, a wall clock up
to 3, two calls of Run; with one tick of spinning and two of idling every wait spins,
sleeps and idles. *TWT*: two schedules with room between periods, first periods at 0, 1
and 3 ticks, frames of one and two ticks, NAVs of one and three, at most six pending
events (`MaxPending`, in the guard of starting an exchange). At a STA the first period
is no earlier than a frame with its response (3 ticks): the scenario adds the time to
the next beacon. *Bss*: one frame of each kind in the queue (a full queue drops), two
scheduled calls of `SetPowerSaveMode` per mode, worlds with one or two APs and up to two
calls of the user. *Block Ack*: a space of 16 numbers and a window of 2, starting at 14,
so that four packets (three for liveness) cross the end of the space and more than fill
the window twice; two ADDBA requests (one for liveness). Bounds are in the guards of the
operations they limit. Deadlock is checked for the engine, which can always be called;
elsewhere a bound, or an empty agenda, ends a behaviour.

**Fairness.** `EngineStep` (the steps of Run and Destroy, and the return of user
callbacks) is weakly fair: they are loops of one thread that does not block, and
callbacks are assumed to return. Other threads and user calls have no fairness. In
the real-time engine the same is assumed of `MainStep`, and that the wall clock goes
on. In TWT, running what is due or letting time pass is weakly fair, since that is
the engine's loop; no frame exchange, no reply and no call of the scenario is. In Bss
the timers and the timeout of an acknowledgement are weakly fair, and the reception
and the acknowledgement of frames strongly fair: a medium that loses any number of
frames, but not all of those repeated for ever, without which no protocol settles. In
Block Ack nothing is assumed of the channel. The exchanges end, scheduled calls are
run and lifetimes end (weak fairness), and the transmission of a BlockAckReq is
strongly fair, because the time available may be too short now and is not for ever.

## 5. Proofs

All theorems hold for all values of the constants, with the assumptions named.

**`DefaultSimulatorProofs`.** `TypeCorrect`: `Spec => []TypeOK`. `EngineInvariant`:
`Spec => []IInv`, and from it `EventIdCorrect`, `UnscheduledCorrect`,
`CancelCorrect`, `OrderCorrect` (an action property), `CalendarImplemented` (every
step of the engine is a step of `EventCalendar` or a stutter under the refinement
mapping) and `LossFree` (`Spec => []NothingLost`).

The properties are not inductive by themselves. `EventIdTruth` compares the
clock of a handle with that of the engine, so it needs that everything in the
list is strictly ahead of the executed event (`EventsAhead`) and that uids are
handed out once and increase (`UidsFresh`); that an event of another thread is
known to no handle before it is inserted, so inserting it cannot bring back a
number that was cancelled (`ForeignUnknown`); that no impl is in both lists
(`DestroyListed`); and that a handle names a queued event, a cancelled one or a
past one (`IdsAccurate`). `IInv` is their conjunction with types and counters. It
was first checked by TLC on the instance of the run `engine`. The proof has one
lemma per kind of step, and the three ways of inserting an event share one.
`NothingLost` has two halves: `IInv` says that no event is in two places, and a second
invariant, `LInv`, that each is in one. `LInv` needs that the swapped queue is empty
whenever `ProcessEventsWithContext` swaps again, or the swap would drop what is left.

All but `TypeCorrect` assume `NoWrap`: fewer events than uids left, `VALID +
MaxEvents < UidModulus`. This is a condition on the program: `m_uid` is a
`uint32_t` that nothing tests, so after 2^32 events it wraps to the reserved uids,
simultaneous events lose their order and `IsExpired` its meaning.

**`CoreProofs`**, on the timers: `TxTimerImplementsCountdown`,
`WatchdogImplementsCountdown` and `TimerImplementsCountdown`: each timer implements
`Countdown`, for all natural delays. The invariant (`TimersInvariant`) adds to the types
that a pending event lies between now and the end the timer must notice (`EventNotLate`,
also a theorem of its own), and that the end a timer keeps is the one its callers asked
for (`EndsAsAsked`): of a `Timer`, that its event, or while it is suspended the delay it
has left, adds up to `timerDue`.

**`CoreProofs`**, on the real-time engine: `WakeupCorrect`, `PacingCorrect` and
`RealtimeImplementsScheduler`. The invariant `RInv` adds that an event is due whenever
the main thread is about to take one, and due at the end of a wait even if others were
inserted or removed meanwhile (`DueAfterWait`), that `m_running` tells Run apart, and
that nothing is executed before the first Run. The last two theorems are about the
first call of Run, as the properties say. `RealtimeTypes` is the type invariant.

**`CoreProofs`**, on the list: `ListIsScheduler`: the sorted list implements
`Scheduler`, for any number of events and any delays. The invariant is that the list is
in the strict order of keys; the proof that a scan finds its place is a lemma about
`InsertionPoint`.

**`CoreProofs`**, on the run `core`: `CoreParts` says that the run interleaves steps of
its five parts, so that everything proved of one of them is true of the run. From it and
the theorems about the parts follow `CoreTypes` (`CoreTypeOK`) and, with one theorem
each, `HeapImplementsScheduler`, `ListImplementsScheduler` and
`CalendarImplementsScheduler`. `MCCore` instantiates the modules with the theorems about
the heap and the calendar, so that these can be cited of the parts by name. All four
assume `CoreDelaysAreTimes`: the delays and the bound of the heap are natural numbers.

**`StationProofs`**, on association: `StationMovesOn`, `RequestHasBssid` and
`ScansEndClean`, for any APs, answers, calls and losses, if the address of no AP is the
null one (`ApsNamed`). The invariant `BInv` is `Sound(sta, overlapped)`: a station that
has asked or is associated has a BSSID and will notice missed beacons, and as long as
scans did not overlap at most one end of a scan is to come. It is stated of a station as
a value, so that the calls a handler makes one after the other are lemmas about
operators, composed as the code composes them.

`PowerModesAgree` (`Spec => []PowerModeAgreedIfTold`) says that whenever no switch is
going on, every AP that is not `untold` holds the mode of the station. A switch is
completed by the acknowledgement of a frame, so the invariant `ModeInv` ties the mode an
AP holds to the flag in the frame it is about to acknowledge, and that flag to the mode
the station is switching to. `AssociationsAgree` (`Spec => []AssociationAgreed`) rests on
`AssocInv`: a response is about what the AP decided (`Consistent`), and a station that
takes itself for associated was accepted by the AP it names (`Accepted`). Besides
`ApsNamed` it assumes `ApsDecided`: an AP accepts always or never, as
`ApWifiMac::ReceiveAssocRequest` does, which decides by what the station supports. With
answers that change the property is false, because an associated station ignores a
second, refusing response. Most steps concern neither side of an association; a lemma
shows so once for all of them.

`BssTypes` (`Spec => []TypeOK`) needs that a station knows access points of its own world
only (`Known`): what it takes from a beacon, a response or the list of candidates. It
assumes that the bound `MaxRetries` is a natural number. `StationParts` says that
the run `station` interleaves steps of both parts, so that everything proved of either is
true of the run, and `StationTypes` (`StationSpec => []StationTypeOK`) follows.

**`StationProofs`**, on target wake time: for any number of flows, schedules and pending
events. `TwtInvariant` is the inductive invariant `TInv`, from which
`OneChainPerAgreement`, `OpenWithOneAgreement`, `BlockedOutsidePeriods`,
`AwakeWhileWaiting` and the action property `QuietRequestsFollowed` follow. The pending
events are a sequence, and most of `TInv` says which events may stand in it beside each
other (`WellFormed`): in order of time, one Begin per agreement, no End of it after the
Begin unless both are due together, one sleep request unless `crowded`, no
`SetSleepMode` beside a running timer. The rest says that every agreement has a next
period (`Chained`), that the queues are open while a held End of a single agreement is
to come (`Open`), that no timer runs while the PHY sleeps (`Covered`), and that the PHY
does what was asked last once no request is pending (`Quiet`). Preservation is that an
event added to, or taken out of, a well-formed sequence leaves one. `OpenWithOneFlow` is
about agreements whose interval exceeds the duration (`Spaced`): otherwise the next
period begins before the End of the last.

**`HeapSchedulerProofs`.** `HeapIsScheduler`: the heap implements `Scheduler` until
`Remove` fills a hole with an event earlier than the parent of the hole, and after that
still loses and duplicates nothing; `PeekIsEarliest` says the same of what the simulator
sees. So the defect that `heap_remove_order` shows is the only one. Both hold for any
number of events and any natural delays. The invariant `HInv` is that no uid is in the
vector twice and, until `misfilled`, that every event comes after its parent
(`Ordered`). The loops of `BottomUp` and `TopDown` are followed turn by turn: all pairs
of parent and child are in order but one, that above the rising event (`Rising`) or
those below the sinking one (`Sinking`), and every turn moves that exception or ends
without it. That the root is the earliest event follows along the ancestors of each
(`RootEarliest`).

**`CalendarSchedulerProofs`.** `CalendarIsScheduler`: the calendar queue implements
`Scheduler` through every growth and shrinkage, for any number of events, any natural
delays and both orders of the buckets; `CalendarTypes` is its type invariant. The
invariant of `CalendarInvariant` says of a calendar as a value that every event is in
the bucket of its day, each bucket in its order (`Filed`); that the search starts at the
bucket and the end of the day of the event taken out last, and that no event is earlier
than that one (`Placed`); that no uid occurs twice (`Kept`); and that the size is the
number of events (`Counted`). From `Filed` and `Placed` follows that the scan through a
year meets the days in order, so that the first event it stops at is the earliest of
all, and that without one the search for the least event finds it (`PeekIs`).

The loops of the model are functions of the number of their turns. What they keep is
shown by induction over a set of naturals: events that are filed one after the other end
up where one by one they would (`InsertAllIs`), the samples are the first events in
order (`DrainedIs`), putting them back restores the events (`SampledIs`), and filling
new buckets from the old moves each event once (`DoResizeIs`). Restoring where the
search is after the samples are back is right because none of them is before it. Of the
estimated width only that it is positive matters (`NewWidthIs`): a bad estimate costs
time, not order.

**`BlockAckLemmas` and `BlockAckProofs`.** For any size of the buffer and of the
sequence number space, any losses and lifetimes, with or without VHT, and as many
packets as `FewPackets` allows: `TypeCorrect`, `HandedUpInOrder` (`InOrder`),
`InFlightInWindow` (`OutstandingInWindow`), `WindowIsAcked` (`WindowMarksAcked`) and
`ScoreboardAndBuffer` (`ScoreboardAgrees`), all from `BlockAckInvariant`,
`AcknowledgedArrives` (`AckedArrives`) from `ArrivalInvariant`, and `GapsAnnounced`
(`GapAnnounced`) from `GapInvariant`. They assume `FewPackets`, that the packets and a
window fit in half of the space: then sequence numbers wrap around, but none stands for
two packets, and the comparison of `QosUtilsIsOldPacket` orders them as they were handed
out. The module `BlockAckWindow` assumes besides that four times the space fits in 16
bits, as 4096 does.

The invariant `IInv` says that there are a first number, `base`, and a set `sent` of the
MPDUs numbered so far for which `Safe(base, sent)` holds. Everything is compared by
`Position`, the distance from `base`, on which the arithmetic modulo the space becomes
that of the naturals: `sent` is numbered in the order of its identities (`Numbering`);
the queue holds what is in `sent` or not yet numbered (`QueueOK`); while the agreement
was requested once, the transmit window marks exactly what is acknowledged and what is
in flight lies within it in ascending order (`TransmitOK`); the buffer of the recipient
begins at or after the scoreboard, by a stretch that is all marked, and what was handed
up is ascending and before what is buffered (`RecipientOK`). `InOrder` also holds across
renewals of the agreement, which needs what happens without one: MPDUs go one by one, no
MPDU on its way is older than one that arrived (`OneByOne`), and a request the recipient
has not seen blocks the data (`RequestOK`). The operators of the model fold over the
bits of the window and the MPDUs of a block ack; what they compute is proved once
(`Folding`), by induction over a set of naturals (`SequenceLemmas`).

That what is acknowledged arrives takes a second invariant over the same `base` and
`sent`, `Sure`. A BlockAck is made from the scoreboard, so each bit of it must be that
of an MPDU that arrived (`Marks`). An MPDU before the window of the recipient is
answered whether it was stored or not, so the window must pass over none that may still
be acknowledged (`Delivered`): those at or after the start of the transmit window, those
in the queue while there is no agreement, and the one that is on its way alone
(`Unsettled`). What moves the recipient's window is an MPDU within the transmit window
or a BlockAckReq for its start (`Paced`), or the request of the agreement, which does
not start beyond the one packet that was numbered before it (`FirstNumbered`).

`GapsAnnounced` (`GapAnnounced`) rests on a third invariant, `GapInv`, which adds
`Told(base)` to the first two. A gap opens in two ways. The originator gives an MPDU up,
and then every operator that does so schedules a BlockAckReq or leaves one to be sent
with the next data (`Announces`, `StillAnnounces`); or its window moves past
acknowledged MPDUs, and these the recipient does not wait for (`AckedReached`). The
latter follows because an acknowledged bit of the scoreboard at or after the start of
the buffer is that of a buffered MPDU (`MarksBuffered`), the start of the buffer only
moves up (`MovesUp`), and an agreement that is new at the recipient starts beyond all
that was acknowledged (`RequestBeyond`). A gap closes because a BlockAckReq is dequeued
only when it is answered, and it names the start of the transmit window (`BarCurrent`).

**`SequenceLemmas`** holds what these proofs share: every set of naturals has a least
element, from which induction follows for sets (the library's induction theorem takes an
operator), what inserting into a sequence, removing from it and folding over it do, and
facts about remainders.

**Only model-checked**: liveness (`EventuallyRuns`, `KeepsWaking`, `RunExecutes`,
`PmSettles`, `QueueDrains`), which is out of the prover's reach. Every invariant and every
other property of the passing runs is a theorem.

## 6. Abstractions and omissions

- Integers: `m_uid` and sequence numbers keep their width as a modulus. Time stamps are
  unbounded: 64 bits of nanoseconds are not reached.
- Contents of events: a closure is any user code; a Stop event calls `Simulator::Stop`.
- `SetScheduler` (moves the events to another scheduler), logging, `GetSystemId`,
  and reading accessors are left out.
- After `Simulator::Destroy` user code drops its EventIds and joins its threads.
- `ScheduleWithContext` gets non-negative delays; it does not clamp as `Schedule` does.
- Timers: policies other than `CHECK_ON_DESTROY`; no client schedules a suspended timer.
- Real-time engine: Cancel, destroy events, contexts and `SetScheduler` are those of the
  other engine and are not repeated. `ScheduleRealtime` and its variants insert as
  `ScheduleWithContext` does during Run.
- TWT: one peer and one link (the code aborts with more links). Suspended agreements
  are not used by the code. Two of the three causes that postpone sleeping are
  modelled as events (timer, PHY busy), the NAV as a countdown. The blocking of the
  peer's queues is one bit.
  When the PHY falls asleep `FrameExchangeManager::Reset` ends TxTimer and the NAV; by
  then neither runs, because both postpone sleeping, so it is left out.
- Bss: one link; the station supports QoS, and its data is of one TID; SNR is left to
  chance (any candidate may be the best); capabilities, rates and information elements
  are left out. The frames an AP holds back for a STA in power save mode are not
  modelled, only whether it would.
- Block Ack: one originator, recipient, TID and link; the attributes have their default
  values; no RTS, fragments or A-MSDU. Not modelled: Delba frames, the inactivity
  timeout, rejection, multi-user acknowledgements.
- `std::map`, `std::vector`, `std::list` and condition variables are taken to be what
  they promise.

**Not modelled.** The distributed engines (MPI, not part of the default build); the
priority-queue scheduler (a wrapper of `std::priority_queue`); the internet stack and
the other network modules, large protocol models that are clients of the engine and no
part of the fork's own logic; the PHY, propagation and interference models, numerical
code over real values; the traffic generators of the fork, random processes.
