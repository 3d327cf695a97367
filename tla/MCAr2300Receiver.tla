-------------------------- MODULE MCAr2300Receiver --------------------------
(* Small instance of Ar2300Receiver. *)
EXTENDS Ar2300Receiver

CONSTANTS t1, t2

MCTransfers == {t1, t2}

=============================================================================
