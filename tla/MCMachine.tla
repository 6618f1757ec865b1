----------------------------- MODULE MCMachine -----------------------------
(***************************************************************************)
(* A matrix key in one of the rows that MISC2 selects, the power button,   *)
(* the reset's hot key and Escape; the ports the three parts share; one    *)
(* byte that enables an interrupt, takes rows out of those selected and    *)
(* cuts the power; one moment; and a queue of two, so that every event     *)
(* waits behind every other.                                               *)
(***************************************************************************)
EXTENDS Machine

MCKey  == {"RCtrl", "F12", "r", "Escape"}
MCLUT  == [k \in {"r"} |-> <<9, 3>>]
MCPort == {KEYBOARD, MISC2, IRQ_MASK, POWER}
MCVal  == {{0, 1}}

MCTimes == [sec : {0}, min : {0}, hour : {0}, mday : {1}, mon : {0},
            year : {1980}, wday : {0}]

\* One of the initial supplies; the keys A and B, which change it, are left out.
MCInit == MInit /\ ac_status = 1 /\ batt_status = 2

\* Keys do not repeat here: an event is appended only for a key that moves.
NoRepeat == held' # held

MCNext == MStep \/ MTerminal \/ (MUser /\ NoRepeat) \/ MClock \/ MTerminated

\* Nothing in ms_run waits but the prompt, whose lines are not in MStep.
MCSpec == MCInit /\ [][MCNext]_mvars /\ WF_mvars(MStep)

=============================================================================
