-------------------------- MODULE MCRunLoopTiming --------------------------
(***************************************************************************)
(* The clock and the power switch: instructions of two lengths against a   *)
(* period they do not divide, ticks that open the gate at once or by and   *)
(* by, every value of the interrupt port, a second of two interrupts.      *)
(***************************************************************************)
EXTENDS RunLoopScreen

MCPortVals == SUBSET {KBD, TIME16}

=============================================================================
