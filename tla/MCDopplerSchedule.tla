-------------------------- MODULE MCDopplerSchedule --------------------------
(* A plan of three coordinates a second apart for DopplerSchedule.          *)
EXTENDS DopplerSchedule

MCCoordinates == << [time |-> 13, range_rate |-> 3],
                    [time |-> 23, range_rate |-> -1],
                    [time |-> 33, range_rate |-> -4] >>
=============================================================================
