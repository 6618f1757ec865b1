--------------------------- MODULE RunLoopTiming ---------------------------
(***************************************************************************)
(* What ms_run owes the machine's clock and its power switch, told with    *)
(* history variables on top of RunLoop: T states really executed, timer    *)
(* periods really offered to the CPU, real time really passed.             *)
(***************************************************************************)
EXTENDS RunLoop

\* An instruction and an interrupt together are no longer than the period.
ASSUME ShortAssumption ==
  /\ \A t \in Tstates : t <= interrupt_period
  /\ \A t \in Tstates, i \in IntTstates : t + i <= interrupt_period

VARIABLES
  phase,    \* T states executed since ms_run began, modulo the period
  owed,     \* whole periods executed less checks of the timer
  tail,     \* T states executed since the power went off
  waited,   \* ms since a slice was last let in by time, up to 16
  gap       \* waited when a slice was last let in by time

tvars == <<phase, owed, tail, waited, gap>>

TInit ==
  /\ Init
  /\ phase = 0 /\ owed = 0 /\ tail = 0 /\ waited = 0 /\ gap = 16

Executed(t) ==
  /\ phase' = (phase + t) % interrupt_period
  /\ tail' = IF power_state = OFF THEN tail + t ELSE 0

TInstruction ==
  \E t \in Tstates :
    /\ \E next \in Code, can \in BOOLEAN :
         Access(t, next, can) \/ OutIrqMask(t, next, can) \/ OutPowerOff(t, next, can)
    /\ Executed(t)
    /\ owed' = owed + ((phase + t) \div interrupt_period)
    /\ UNCHANGED <<waited, gap>>

\* The timer finds a whole period executed, and may interrupt the CPU.
TTimer == \E t \in IntTstates :
  /\ Timer(t)
  /\ IF tstate_counter < interrupt_period THEN UNCHANGED <<phase, tail, owed>>
     ELSE IF int_possible
       THEN Executed(t) /\ owed' = owed + ((phase + t) \div interrupt_period) - 1
       ELSE owed' = owed - 1 /\ UNCHANGED <<phase, tail>>
  /\ UNCHANGED <<waited, gap>>

TGate == \E delta \in Deltas :
  /\ Gate(delta)
  /\ LET now == IF waited + delta > 16 THEN 16 ELSE waited + delta IN
       IF pc' = "slice" /\ ~hits
         THEN gap' = now /\ waited' = 0
         ELSE waited' = now /\ UNCHANGED gap
  /\ UNCHANGED <<phase, owed, tail>>

TOther ==
  /\ LoopTop \/ SliceDone \/ UiDone \/ Prompt \/ Environment \/ Terminated
  /\ UNCHANGED tvars

TNext == TInstruction \/ TTimer \/ TGate \/ TOther

TSpec == TInit /\ [][TNext]_<<vars, tvars>>

-----------------------------------------------------------------------------

(***************************************************************************)
(* No T state is lost or counted twice: the counter stands where the T     *)
(* states really executed put it within the period, across interrupts      *)
(* taken, interrupts refused, breaks that cut a slice short, and power     *)
(* cycles (tstate_counter in ms_run, 765-781).                             *)
(***************************************************************************)
TimerInPhase ==
  tstate_counter % interrupt_period = phase

(***************************************************************************)
(* Every period the CPU executes is checked for an interrupt exactly once, *)
(* no later than the end of the iteration that completed it (778-781).     *)
(***************************************************************************)
EveryPeriodOffered ==
  owed = IF tstate_counter >= interrupt_period THEN 1 ELSE 0

(***************************************************************************)
(* After the firmware cuts the power the CPU still runs, but never beyond  *)
(* the slice in progress and its interrupt (msemu.c:760-783).              *)
(***************************************************************************)
TailIsBounded == tail < 2 * interrupt_period

(***************************************************************************)
(* The emulated CPU does not run ahead of the clock: between two slices    *)
(* let in by time more than 15 ms passed, however the iterations, prompts  *)
(* and power cycles in between divided them (execute_counter, 761-763).    *)
(***************************************************************************)
PacedByClock == gap > 15

(***************************************************************************)
(* The firmware is never told of an interrupt the CPU did not take: a bit  *)
(* of interrupt_mask rises only when the handler is entered (the reason    *)
(* for the guard of process_interrupts, comment 557-568).                  *)
(***************************************************************************)
RaisedWhenTaken ==
  [][ ~(interrupt_mask' \subseteq interrupt_mask)
      => int_possible /\ ~int_possible' /\ regPC' \in Vector ]_<<vars, tvars>>

-----------------------------------------------------------------------------

(***************************************************************************)
(* msemu.c:138: RAM is re-initialised at power off, and main.c:31: the     *)
(* image is in place at power-on.  While the machine waits to be switched  *)
(* on, nothing has been written over what ram_init left.                   *)
(***************************************************************************)
RamFreshWhenOff == pc = "ui" /\ power_state = OFF => ram = "fresh"

=============================================================================
