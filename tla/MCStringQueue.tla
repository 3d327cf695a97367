--------------------------- MODULE MCStringQueue ----------------------------
(* Small instance of StringQueue: an ordinary string, the empty string and *)
(* one over the size limit.                                                *)
EXTENDS StringQueue

CONSTANTS data, empty, large

MCStrings == {data, empty, large}
MCLarge == {large}

=============================================================================
