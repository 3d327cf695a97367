--------------------------- MODULE TelemetryOutbox ---------------------------
(***************************************************************************)
(* What the ground station API block promises about telemetry: frames are  *)
(* numbered in the order in which the flowgraph hands them over; each one  *)
(* is delivered to the ground station at most once and never behind a      *)
(* later one, and a frame that is given up stays given up.  The block does *)
(* not promise that every frame is delivered.                              *)
(***************************************************************************)
EXTENDS Integers

CONSTANT MaxFrames       \* bound on the frames handed over

VARIABLES accepted,      \* frames 1..accepted have been handed over
          newest,        \* newest frame delivered, 0 when there is none
          delivered,     \* the frames delivered
          lost           \* the frames given up

vars == <<accepted, newest, delivered, lost>>

Pending == (1..accepted) \ (delivered \cup lost)

Init ==
    /\ accepted = 0
    /\ newest = 0
    /\ delivered = {}
    /\ lost = {}

Accept ==
    /\ accepted < MaxFrames
    /\ accepted' = accepted + 1
    /\ UNCHANGED <<newest, delivered, lost>>

Deliver(i) ==
    /\ i \in Pending
    /\ i > newest
    /\ newest' = i
    /\ delivered' = delivered \cup {i}
    /\ UNCHANGED <<accepted, lost>>

Lose(S) ==
    /\ S \subseteq Pending
    /\ lost' = lost \cup S
    /\ UNCHANGED <<accepted, newest, delivered>>

Next ==
    \/ Accept
    \/ \E i \in Pending : Deliver(i)
    \/ \E S \in SUBSET Pending : Lose(S)

Spec == Init /\ [][Next]_vars
=============================================================================
