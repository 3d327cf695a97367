--------------------------- MODULE DopplerSchedule ---------------------------
(***************************************************************************)
(* The groundstation_api_doppler block                                     *)
(* (gr-starcoder/python/groundstation_api_doppler.py): a thread fetches    *)
(* the plan, interpolates its coordinates and publishes the Doppler shift  *)
(* of each one when its time comes, while stop() waits for the thread.     *)
(*                                                                         *)
(* Time is a clock in ticks that Tick advances.  It advances freely while  *)
(* the thread sleeps or waits for the RPC; while the thread could run, the *)
(* tick is counted in delay, so that a property can bound lateness by the  *)
(* time for which the scheduler kept the thread waiting.  Range rates are  *)
(* in units of 1/corrections_per_second, shifts in units of 1/c.           *)
(***************************************************************************)
EXTENDS Integers, Sequences, FiniteSets

CONSTANTS
    Second,                  \* ticks per second
    corrections_per_second,
    satellite_coordinates,   \* of the plan: a sequence of [time, range_rate]
    downlink_frequency, uplink_frequency,
    SPEED_OF_LIGHT,
    MAX_RETRY_ATTEMPTS,
    MaxTime,                 \* bound on the clock
    MaxDelay                 \* bound on the ticks lost to the scheduler

ASSUME DopplerAssumption ==
    /\ Second \in Nat \ {0}
    /\ corrections_per_second \in Nat \ {0}
    /\ Second % corrections_per_second = 0
    /\ satellite_coordinates \in Seq([time : 0..MaxTime, range_rate : Int])
    /\ downlink_frequency \in Nat /\ uplink_frequency \in Nat
    /\ SPEED_OF_LIGHT \in Nat \ {0}
    /\ MAX_RETRY_ATTEMPTS \in Nat
    /\ MaxTime \in Nat
    /\ MaxDelay \in Nat

VARIABLES
    now,        \* the clock, time.time()
    delay,      \* ticks for which the thread could run and did not
    block,      \* the block's thread: "new", "running", "joining", "stopped"
    stopped,    \* self.stopped
    pc,         \* where the thread is in processing_loop
    retries,    \* local of processing_loop
    idx,        \* coordinate the loop is at
    wake,       \* when the sleep in progress is over
    listedAt,   \* when ListPlans returned
    stoppedAt,  \* when stop() set the flag
    published   \* what was published: schedule, time, shifts, flag

vars == <<now, delay, block, stopped, pc, retries, idx, wake, listedAt,
          stoppedAt, published>>

\* The correction is scheduled at the start of an interval of this length.
Interval == Second \div corrections_per_second

\* corrections_per_second entries from every coordinate to the next, assumed
\* a second later, and a copy of the last one.
interpolate_coordinates(coords) ==
    [k \in 1..(IF coords = <<>> THEN 0
               ELSE (Len(coords) - 1) * corrections_per_second + 1) |->
       LET i == (k - 1) \div corrections_per_second + 1
           j == (k - 1) % corrections_per_second
       IN IF i = Len(coords)
            THEN [time |-> coords[i].time,
                  range_rate |-> corrections_per_second * coords[i].range_rate]
            ELSE [time |-> coords[i].time + j * Interval,
                  range_rate |-> corrections_per_second * coords[i].range_rate
                      + j * (coords[i + 1].range_rate - coords[i].range_rate)]]

Coordinates == interpolate_coordinates(satellite_coordinates)

\* Mutant of publish_to_ports: the uplink is shifted like the downlink.
SameSign(range_rate) ==
    [downlink_shift |-> downlink_frequency * range_rate,
     uplink_shift |-> uplink_frequency * range_rate]

\* What publish_to_ports sends on downlink_shift and uplink_shift.
publish_to_ports(range_rate) ==
    LET shifted_downlink == downlink_frequency * (SPEED_OF_LIGHT - range_rate)
        shifted_uplink == uplink_frequency * (SPEED_OF_LIGHT + range_rate)
    IN [downlink_shift |-> downlink_frequency * SPEED_OF_LIGHT - shifted_downlink,
        uplink_shift |-> uplink_frequency * SPEED_OF_LIGHT - shifted_uplink]

\* Mutant of Far: naps of a second up to the time itself.
FarAtAll(coord) == coord.time > now

\* The loop sleeps a second at a time while the coordinate is further away
\* than 1.1 s.
Far(coord) == 10 * (coord.time - now) > 11 * Second

InLoop == {"next", "wait", "nap", "sleep", "publish"}

Init ==
    /\ now = 0
    /\ delay = 0
    /\ block = "new"
    /\ stopped = FALSE
    /\ pc = "none"
    /\ retries = 0
    /\ idx = 1
    /\ wake = 0
    /\ listedAt = 0
    /\ stoppedAt = 0
    /\ published = <<>>

-----------------------------------------------------------------------------
(* The clock and the block's thread.                                       *)

Asleep == pc \in {"nap", "sleep"} /\ now < wake
Runnable == pc \in InLoop /\ ~Asleep

Tick ==
    /\ now < MaxTime
    /\ now' = now + 1
    /\ IF Runnable THEN delay < MaxDelay /\ delay' = delay + 1
                   ELSE UNCHANGED delay
    /\ UNCHANGED <<block, stopped, pc, retries, idx, wake, listedAt, stoppedAt,
                   published>>

start ==
    /\ block = "new"
    /\ block' = "running"
    /\ pc' = "list"
    /\ UNCHANGED <<now, delay, stopped, retries, idx, wake, listedAt, stoppedAt,
                   published>>

stop ==
    /\ block = "running"
    /\ block' = "joining"
    /\ stopped' = TRUE
    /\ stoppedAt' = now
    /\ UNCHANGED <<now, delay, pc, retries, idx, wake, listedAt, published>>

StopReturned ==
    /\ block = "joining"
    /\ pc = "done"
    /\ block' = "stopped"
    /\ UNCHANGED <<now, delay, stopped, pc, retries, idx, wake, listedAt,
                   stoppedAt, published>>

-----------------------------------------------------------------------------
(* processing_loop().                                                      *)

Goto(from, to) == pc = from /\ pc' = to

\* Mutant of ListFails: at the limit the count starts over.
ListFailsStartsOver ==
    /\ pc = "list"
    /\ retries' = IF retries >= MAX_RETRY_ATTEMPTS THEN 0 ELSE retries + 1
    /\ UNCHANGED <<now, delay, block, stopped, pc, idx, wake, listedAt, stoppedAt,
                   published>>

\* ListPlans fails with an RPC error; the flag is not looked at.
ListFails ==
    /\ Goto("list", IF retries >= MAX_RETRY_ATTEMPTS THEN "done" ELSE "list")
    /\ retries' = IF retries >= MAX_RETRY_ATTEMPTS THEN retries ELSE retries + 1
    /\ UNCHANGED <<now, delay, block, stopped, idx, wake, listedAt, stoppedAt,
                   published>>

\* Another exception, or a response without the plan, ends the thread.
ListRaises ==
    /\ Goto("list", "done")
    /\ UNCHANGED <<now, delay, block, stopped, retries, idx, wake, listedAt,
                   stoppedAt, published>>

ListReturns ==
    /\ Goto("list", "next")
    /\ listedAt' = now
    /\ UNCHANGED <<now, delay, block, stopped, retries, idx, wake, stoppedAt,
                   published>>

\* Mutants of NextCoordinate: the flag is not tested; a time that has come is
\* taken for one that has passed.
NextIgnoresStop ==
    /\ \/ idx > Len(Coordinates) /\ Goto("next", "done") /\ UNCHANGED idx
       \/ /\ idx <= Len(Coordinates) /\ Coordinates[idx].time < now
          /\ Goto("next", "next") /\ idx' = idx + 1
       \/ /\ idx <= Len(Coordinates) /\ Coordinates[idx].time >= now
          /\ Goto("next", "wait") /\ UNCHANGED idx
    /\ UNCHANGED <<now, delay, block, stopped, retries, wake, listedAt,
                   stoppedAt, published>>

NextSkipsPresent ==
    /\ \/ /\ idx > Len(Coordinates) \/ stopped
          /\ Goto("next", "done") /\ UNCHANGED idx
       \/ /\ idx <= Len(Coordinates) /\ ~stopped /\ Coordinates[idx].time <= now
          /\ Goto("next", "next") /\ idx' = idx + 1
       \/ /\ idx <= Len(Coordinates) /\ ~stopped /\ Coordinates[idx].time > now
          /\ Goto("next", "wait") /\ UNCHANGED idx
    /\ UNCHANGED <<now, delay, block, stopped, retries, wake, listedAt,
                   stoppedAt, published>>

\* The top of the loop: the end of the coordinates, the flag, a time that has
\* passed.
NextCoordinate ==
    /\ \/ /\ idx > Len(Coordinates) \/ stopped
          /\ Goto("next", "done")
          /\ UNCHANGED idx
       \/ /\ idx <= Len(Coordinates) /\ ~stopped
          /\ Coordinates[idx].time < now
          /\ Goto("next", "next")
          /\ idx' = idx + 1
       \/ /\ idx <= Len(Coordinates) /\ ~stopped
          /\ Coordinates[idx].time >= now
          /\ Goto("next", "wait")
          /\ UNCHANGED idx
    /\ UNCHANGED <<now, delay, block, stopped, retries, wake, listedAt,
                   stoppedAt, published>>

\* Sleep for a second, or for the rest of the time, or not at all.
Wait ==
    /\ pc = "wait"
    /\ LET coord == Coordinates[idx]
       IN \/ /\ Far(coord)
             /\ pc' = "nap"
             /\ wake' = now + Second
          \/ /\ ~Far(coord) /\ coord.time > now
             /\ pc' = "sleep"
             /\ wake' = coord.time
          \/ /\ ~Far(coord) /\ coord.time <= now
             /\ pc' = "publish"
             /\ UNCHANGED wake
    /\ UNCHANGED <<now, delay, block, stopped, retries, idx, listedAt, stoppedAt,
                   published>>

\* After a second of sleep the flag is tested again.
NapEnds ==
    /\ now >= wake
    /\ Goto("nap", IF stopped THEN "done" ELSE "wait")
    /\ UNCHANGED <<now, delay, block, stopped, retries, idx, wake, listedAt,
                   stoppedAt, published>>

SleepEnds ==
    /\ now >= wake
    /\ Goto("sleep", "publish")
    /\ UNCHANGED <<now, delay, block, stopped, retries, idx, wake, listedAt,
                   stoppedAt, published>>

Publish ==
    /\ Goto("publish", "next")
    /\ idx' = idx + 1
    /\ published' = Append(published,
           [scheduled |-> Coordinates[idx].time, at |-> now,
            shifts |-> publish_to_ports(Coordinates[idx].range_rate),
            stopped |-> stopped])
    /\ UNCHANGED <<now, delay, block, stopped, retries, wake, listedAt, stoppedAt>>

ListStep == ListFails \/ ListRaises \/ ListReturns
LoopStep == NextCoordinate \/ Wait \/ NapEnds \/ SleepEnds \/ Publish

Next ==
    \/ Tick
    \/ start
    \/ stop
    \/ StopReturned
    \/ ListStep
    \/ LoopStep

Spec == Init /\ [][Next]_vars

\* Time passes, the RPC returns or fails, and the thread and the join run
\* when they can.  Nothing makes the flowgraph call start() or stop().
FairSpec ==
    /\ Spec
    /\ WF_vars(Tick)
    /\ WF_vars(ListStep)
    /\ WF_vars(LoopStep)
    /\ WF_vars(StopReturned)

-----------------------------------------------------------------------------
\* A shift is never published before its time, and late by no more than the
\* time for which the thread could not run: neither the one-second naps nor
\* the final sleep of processing_loop overshoot.
Punctual ==
    \A n \in 1..Len(published) :
        /\ published[n].scheduled <= published[n].at
        /\ published[n].at <= published[n].scheduled + delay

\* After stop() set the flag at most one more shift is published, the one the
\* thread was already waiting for; and once the plan is there, the thread ends
\* within 1.1 s of stop(), plus the time for which it could not run.
Later(a, b) == IF a > b THEN a ELSE b
StopHeeded ==
    /\ \A m, n \in 1..Len(published) :
          published[m].stopped /\ published[n].stopped => m = n
    /\ stopped /\ pc \in InLoop =>
          10 * (now - Later(stoppedAt, listedAt) - delay) <= 11 * Second

\* The coordinates are a second apart, as interpolate_coordinates assumes.
OneSecondApart ==
    \A i \in 1..(Len(satellite_coordinates) - 1) :
        satellite_coordinates[i + 1].time = satellite_coordinates[i].time + Second

\* No shift is published for an instant before the last one, and none twice;
\* and a thread that came to the end of the coordinates without a stop left
\* none out that was ahead of it, unless the scheduler cost it a whole interval.
ScheduleKept ==
    OneSecondApart =>
        /\ \A m, n \in 1..Len(published) :
              m < n => published[m].scheduled < published[n].scheduled
        /\ pc = "done" /\ idx > Len(Coordinates) /\ delay < Interval =>
              \A k \in 1..Len(Coordinates) :
                  Coordinates[k].time >= listedAt + delay =>
                      \E n \in 1..Len(published) :
                          published[n].scheduled = Coordinates[k].time

\* At the time of a coordinate the shift is the coordinate's; between two it
\* lies between theirs; the uplink shift has the opposite sign.
Between(x, a, b) == (a <= x /\ x <= b) \/ (b <= x /\ x <= a)
ShiftOf(i) == downlink_frequency * corrections_per_second
                * satellite_coordinates[i].range_rate

ShiftsInterpolate ==
    OneSecondApart =>
        \A n \in 1..Len(published) : \A i \in 1..Len(satellite_coordinates) :
            LET p == published[n]
                t == satellite_coordinates[i].time
            IN /\ p.scheduled = t => p.shifts.downlink_shift = ShiftOf(i)
               /\ t < p.scheduled /\ p.scheduled < t + Second =>
                     Between(p.shifts.downlink_shift, ShiftOf(i), ShiftOf(i + 1))
               /\ p.shifts.uplink_shift * downlink_frequency
                     = -(p.shifts.downlink_shift * uplink_frequency)

\* stop() returns.
StopReturns == (block = "joining") ~> (block = "stopped")
=============================================================================
