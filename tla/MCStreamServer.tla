--------------------------- MODULE MCStreamServer ---------------------------
(* Small instances of StreamServer. *)
EXTENDS StreamServer, TLC

CONSTANTS m1, m2, empty, toobig

MCStrings == {m1, empty, toobig}
MCOrdered == {m1, m2, empty, toobig}
MCTooBig == {toobig}
MCLarge == {}

=============================================================================
