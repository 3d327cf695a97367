-------------------------- MODULE MCCommandSource ---------------------------
(* Small instance of CommandSource: two commands, the empty one, one that *)
(* does not parse and one over the size limit of the queue.               *)
EXTENDS CommandSource

CONSTANTS c1, c2, empty, bad, large

MCStrings == {c1, c2, empty, bad, large}
MCUnparsable == {bad}
MCLarge == {large}

=============================================================================
