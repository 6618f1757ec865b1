------------------------------ MODULE RunLoop ------------------------------
(***************************************************************************)
(* The run loop of the emulator: ms_run with the timer interrupt, the      *)
(* power button and the firmware's power-off, the debugger's prompt and    *)
(* breakpoints, SIGINT and the Escape key.                                 *)
(*                                                                         *)
(* pc is the place in ms_run's while body.  The CPU is the external z80ex: *)
(* one complete instruction (prefixes included) has any length, goes to    *)
(* any address of Code, may touch Data, may enable or disable interrupts.  *)
(* A signal or a key press falls between any two steps.                    *)
(***************************************************************************)
EXTENDS Integers

CONSTANTS
  interrupt_period,  \* T states in a timer period (187500 in the code)
  Tstates,           \* T states an instruction may take
  IntTstates,        \* T states z80ex_int may take when it is accepted
  Deltas,            \* ms that may pass between two readings of SDL_GetTicks
  Hertz,             \* the 64 that icount is compared with
  Code,              \* program addresses; 0 is the reset address
  Vector,            \* program addresses an accepted interrupt may enter
  Data,              \* RAM addresses instructions access
  PortVals,          \* values the firmware writes to port IRQ_MASK
  BpAddr             \* addresses the user sets breakpoints on

KBD    == 1      \* bits of IRQ_MASK, 0x02
TIME16 == 4      \* and 0x10
ON     == "on"
OFF    == "off"

Word == 0 .. 65535

ASSUME PeriodAssumption == interrupt_period \in Nat \ {0}
ASSUME TimeAssumption ==
  /\ Tstates \subseteq Nat \ {0}
  /\ IntTstates \subseteq Nat
  /\ Deltas \subseteq Nat
  /\ Hertz \in Nat
ASSUME AddressAssumption ==
  /\ 0 \in Code
  /\ Vector \subseteq Code
  /\ Code \cup Data \cup BpAddr \subseteq Word
ASSUME PortAssumption == PortVals \subseteq SUBSET {KBD, TIME16}

VARIABLES
  pc,                 \* top, prompt, gate, slice, int, ui or exit
  execute_counter, tstate_counter,
  power_state, power_button_n, splashscreen_show,
  ram,                \* "fresh" from ram_init, "used" once the CPU wrote it
  irq_port,           \* io[IRQ_MASK], the enabled interrupts
  interrupt_mask, icount,
  regPC, int_possible,
  bp,                 \* addresses watched, -1 for none
  hits,               \* bp.hits # 0, all that is ever asked of it
  esc                 \* an Escape or window close waits in SDL's queue

power    == <<power_state, splashscreen_show>>
irqs     == <<irq_port, interrupt_mask>>
counters == <<execute_counter, tstate_counter, icount>>
cpu      == <<regPC, int_possible>>
debug    == <<bp, hits>>
vars == <<pc, power, power_button_n, ram, irqs, counters, cpu, debug, esc>>

-----------------------------------------------------------------------------
(* Power                                                                   *)

ms_power_on_reset ==
  /\ power_state' = ON /\ splashscreen_show' = FALSE
  /\ irq_port' = {} /\ interrupt_mask' = {}
  /\ regPC' = 0 /\ int_possible' = FALSE

ms_power_off ==
  /\ power_state' = OFF /\ splashscreen_show' = TRUE
  /\ ram' = "fresh"

-----------------------------------------------------------------------------
(* Breakpoints                                                             *)

debug_isbreak == hits

\* Which of the accesses of one call into the CPU the debugger watches.
Watched(reads, writes) == bp.mr \in reads \/ bp.mw \in writes

sigint ==
  /\ pc # "exit"
  /\ hits' = TRUE
  /\ UNCHANGED <<pc, power, power_button_n, ram, irqs, counters, cpu, bp, esc>>

-----------------------------------------------------------------------------
(* The top of the loop and the prompt                                      *)

\* A wrong variant, for the mutation runs only.
PromptsWhenOn == debug_isbreak /\ power_state = ON

\* Whether the loop opens the prompt before it goes on.
Prompts == debug_isbreak

\* debug_prompt clears the hits as soon as it is entered.
LoopTop ==
  /\ pc = "top"
  /\ IF Prompts
       THEN pc' = "prompt" /\ hits' = FALSE
       ELSE pc' = "gate" /\ UNCHANGED hits
  /\ UNCHANGED <<power, power_button_n, ram, irqs, counters, cpu, bp, esc>>

Command ==
  /\ pc = "prompt"
  /\ UNCHANGED <<power, power_button_n, ram, irqs, counters, cpu, esc>>

quit == Command /\ pc' = "exit" /\ UNCHANGED debug

continue == Command /\ pc' = "gate" /\ UNCHANGED debug

\* A wrong variant, for the mutation runs only: "s" arms no new break.
single_step_unarmed == continue

single_step == Command /\ pc' = "gate" /\ hits' = TRUE /\ UNCHANGED bp

set_bp(kind, a) ==
  /\ Command
  /\ bp' = [bp EXCEPT ![kind] = a]
  /\ UNCHANGED <<pc, hits>>

\* The stack pointers the user may dump the stack at, 0 for an empty stack.
Stacks == Data \cup {0}

\* md reads through the bus, and so past the read breakpoint.
md(a) ==
  /\ Command
  /\ hits' = (hits \/ a % 65536 = bp.mr)
  /\ UNCHANGED <<pc, bp>>

\* So does dumpstack, from SP to the end of memory.
dump_stack(sp) ==
  /\ Command
  /\ hits' = (hits \/ (0 < sp /\ sp <= bp.mr))
  /\ UNCHANGED <<pc, bp>>

Prompt ==
  \/ quit \/ continue \/ single_step
  \/ \E kind \in {"pc", "mr", "mw"}, a \in BpAddr \cup {-1} : set_bp(kind, a)
  \/ \E a \in BpAddr \cup {-1} : md(a)
  \/ \E sp \in Stacks : dump_stack(sp)

-----------------------------------------------------------------------------
(* Gating emulated time to the wall clock                                  *)

\* A wrong variant, for the mutation runs only.
Unspent(counted) == IF counted > 15 THEN 15 ELSE counted

\* A wrong variant, for the mutation runs only.
PoweredAlways == TRUE

Powered == power_state = ON

\* What is left of the counted ms once the gate has looked at them.
Spent(counted) == IF counted > 15 THEN 0 ELSE counted

Gate(delta) ==
  LET counted == execute_counter + delta IN
  /\ pc = "gate"
  /\ IF ~Powered
       THEN pc' = "ui" /\ UNCHANGED execute_counter
       ELSE /\ pc' = IF counted > 15 \/ debug_isbreak THEN "slice" ELSE "int"
            /\ execute_counter' = Spent(counted)
  /\ UNCHANGED <<power, power_button_n, ram, irqs, tstate_counter, icount,
                 cpu, debug, esc>>

-----------------------------------------------------------------------------
(* A slice of CPU time                                                     *)

\* Wrong variants, for the mutation runs only: the PC breakpoint is tested
\* at the end of the slice only; the slice stops for the PC breakpoint only.
ReachesAtEnd(next) == next = bp.pc /\ tstate_counter' >= interrupt_period
StopsForPc(next)   == next = bp.pc

\* debug_testbp(bpPC, next): the breakpoint itself, and the returned verdict.
Reaches(next) == next = bp.pc
Stops(next)   == hits'

\* A wrong variant, for the mutation runs only.
Uncounted(t) == tstate_counter

\* What z80ex_step's T states make of the counter.
Counted(t) == tstate_counter + t

\* One complete instruction and the breakpoint test that follows it.
Step(t, next, can, reads, writes) ==
  /\ pc = "slice" /\ tstate_counter < interrupt_period
  /\ tstate_counter' = Counted(t)
  /\ regPC' = next /\ int_possible' = can
  /\ hits' = (hits \/ Watched(reads \cup {regPC}, writes) \/ Reaches(next))
  /\ pc' = IF Stops(next) THEN "int" ELSE "slice"
  /\ UNCHANGED <<power_button_n, execute_counter, icount, bp, esc>>

Access(t, next, can) == \E reads, writes \in SUBSET Data :
  /\ Step(t, next, can, reads, writes)
  /\ ram' = IF writes = {} THEN ram ELSE "used"
  /\ UNCHANGED <<power, irqs>>

\* OUT (IRQ_MASK): enables interrupts, and acknowledges those masked out.
OutIrqMask(t, next, can) == \E val \in PortVals :
  /\ Step(t, next, can, {}, {})
  /\ interrupt_mask' = interrupt_mask \cap val
  /\ irq_port' = val
  /\ UNCHANGED <<power, ram>>

\* OUT (0x28) with bit 0 set.
OutPowerOff(t, next, can) ==
  /\ Step(t, next, can, {}, {})
  /\ ms_power_off
  /\ UNCHANGED irqs

Instruction == \E t \in Tstates, next \in Code, can \in BOOLEAN :
  Access(t, next, can) \/ OutIrqMask(t, next, can) \/ OutPowerOff(t, next, can)

SliceDone ==
  /\ pc = "slice" /\ tstate_counter >= interrupt_period
  /\ pc' = "int"
  /\ UNCHANGED <<power, power_button_n, ram, irqs, counters, cpu, debug, esc>>

-----------------------------------------------------------------------------
(* The timer interrupt                                                     *)

\* Wrong variants, for the mutation runs only.
Restart(n)   == 0
Unreduced(n) == n

\* The T states carried into the next period.
Remainder(n) == n % interrupt_period

\* z80ex_int when it is accepted: interrupts off, PC pushed on the stack, the
\* vector fetched, the handler entered.
z80ex_int(t) == \E entry \in Vector, reads \in SUBSET Data, a \in Data :
  /\ regPC' = entry /\ int_possible' = FALSE
  /\ hits' = (hits \/ Watched(reads, {a}))
  /\ ram' = "used"
  /\ tstate_counter' = Remainder(tstate_counter + t)
  /\ UNCHANGED bp

second == icount >= Hertz

Raise(bit) ==
  /\ bit \in irq_port \ interrupt_mask
  /\ interrupt_mask' = interrupt_mask \cup {bit}

\* A wrong variant, for the mutation runs only: the second is not asked for.
RaisePendingUnasked ==
  IF second /\ TIME16 \notin interrupt_mask
  THEN interrupt_mask' = interrupt_mask \cup {TIME16}
  ELSE IF KBD \in irq_port \ interrupt_mask THEN Raise(KBD)
  ELSE UNCHANGED interrupt_mask

\* Which pending bit this period raises: time16 once a second, else kbd.
RaisePending ==
  IF second /\ TIME16 \in irq_port \ interrupt_mask THEN Raise(TIME16)
  ELSE IF KBD \in irq_port \ interrupt_mask THEN Raise(KBD)
  ELSE UNCHANGED interrupt_mask

\* A wrong variant, for the mutation runs only: bits raised, and the second
\* advanced, for an interrupt the CPU refuses.
process_interrupts_unchecked(t) ==
  /\ icount' = IF second THEN 0 ELSE icount + 1
  /\ RaisePending
  /\ IF int_possible THEN z80ex_int(t)
     ELSE /\ tstate_counter' = Remainder(tstate_counter)
          /\ UNCHANGED <<cpu, debug, ram>>

process_interrupts(t) ==
  IF ~int_possible
  THEN /\ tstate_counter' = Remainder(tstate_counter)
       /\ UNCHANGED <<icount, interrupt_mask, cpu, debug, ram>>
  ELSE /\ icount' = IF second THEN 0 ELSE icount + 1
       /\ RaisePending
       /\ z80ex_int(t)

Timer(t) ==
  /\ pc = "int" /\ pc' = "ui"
  /\ IF tstate_counter >= interrupt_period
       THEN process_interrupts(t)
       ELSE UNCHANGED <<tstate_counter, icount, interrupt_mask, cpu, debug, ram>>
  /\ UNCHANGED <<execute_counter, power, power_button_n, irq_port, esc>>

-----------------------------------------------------------------------------
(* Window events                                                           *)

EscPressed ==
  /\ pc # "exit" /\ esc' = TRUE
  /\ UNCHANGED <<pc, power, power_button_n, ram, irqs, counters, cpu, debug>>

\* F12, with ms_power_hint.
F12(eventtype) ==
  /\ pc = "ui"
  /\ power_button_n' = IF eventtype = "down" THEN 0 ELSE 1
  /\ IF power_state = OFF /\ power_button_n' = 0
       THEN ms_power_on_reset
       ELSE UNCHANGED <<power, irqs, cpu>>
  /\ UNCHANGED <<pc, ram, counters, debug, esc>>

\* Right Ctrl + R.
HardReset ==
  /\ pc = "ui" /\ ms_power_on_reset
  /\ UNCHANGED <<pc, power_button_n, ram, counters, debug, esc>>

\* A wrong variant, for the mutation runs only.
QuitsWhenOn == esc /\ power_state = ON

Quits == esc

\* The queue is empty, or Escape was in it.
UiDone ==
  /\ pc = "ui"
  /\ pc' = IF Quits THEN "exit" ELSE "top"
  /\ UNCHANGED <<power, power_button_n, ram, irqs, counters, cpu, debug, esc>>

-----------------------------------------------------------------------------

\* ms_init, and ms_run up to its loop.
Init ==
  /\ pc = "top"
  /\ execute_counter = 0 /\ tstate_counter = 0 /\ icount = 0
  /\ power_state = OFF /\ splashscreen_show = TRUE /\ power_button_n = 1
  /\ ram = "fresh"
  /\ irq_port = {} /\ interrupt_mask = {}
  /\ regPC = 0 /\ int_possible = FALSE
  /\ bp = [kind \in {"pc", "mr", "mw"} |-> -1] /\ hits = FALSE
  /\ esc = FALSE

Loop ==
  \/ LoopTop
  \/ \E delta \in Deltas : Gate(delta)
  \/ Instruction \/ SliceDone
  \/ \E t \in IntTstates : Timer(t)
  \/ UiDone

Environment ==
  \/ sigint \/ EscPressed \/ HardReset
  \/ \E eventtype \in {"down", "up"} : F12(eventtype)

\* ms_run has returned.
Terminated == pc = "exit" /\ UNCHANGED vars

Next == Loop \/ Prompt \/ Environment \/ Terminated

Spec == Init /\ [][Next]_vars

-----------------------------------------------------------------------------

(***************************************************************************)
(* Every variable has its type; outside a slice of CPU time and the timer  *)
(* check after it less than a whole period is owed to the timer, and the   *)
(* gate never carries more than 15 ms into an iteration (ms_run, 760-781). *)
(***************************************************************************)
TypeOK ==
  /\ pc \in {"top", "prompt", "gate", "slice", "int", "ui", "exit"}
  /\ execute_counter \in 0 .. 15
  /\ tstate_counter \in Nat
  /\ pc \notin {"slice", "int"} => tstate_counter < interrupt_period
  /\ power_state \in {ON, OFF} /\ splashscreen_show \in BOOLEAN
  /\ power_button_n \in {0, 1}
  /\ ram \in {"fresh", "used"}
  /\ irq_port \subseteq {KBD, TIME16} /\ interrupt_mask \subseteq {KBD, TIME16}
  /\ icount \in 0 .. Hertz
  /\ regPC \in Code /\ int_possible \in BOOLEAN
  /\ bp \in [{"pc", "mr", "mw"} -> BpAddr \cup {-1}]
  /\ hits \in BOOLEAN /\ esc \in BOOLEAN

\* Anywhere but at the prompt, and until it has ended, the loop has a next
\* step of its own: what the liveness theorems assume, ENABLED being beyond
\* the provers.
LoopMoves == pc \notin {"prompt", "exit"} => ENABLED <<Loop>>_vars

(***************************************************************************)
(* A slice of CPU time always ends, so that the timer, the window and the  *)
(* debugger get their turn (ms_run, 765-776).                              *)
(***************************************************************************)
SlicesEnd == pc = "slice" ~> pc # "slice"

(***************************************************************************)
(* A pending break is always served: the prompt opens, or the emulator     *)
(* ends, powered or not (ms_run, 727-731).                                 *)
(***************************************************************************)
BreakHeeded == hits ~> pc \in {"prompt", "exit"}

(***************************************************************************)
(* Escape is never lost: once it is in the queue the emulator ends or      *)
(* stops at the prompt, powered or not (ui_kbd_process, ms_run 787).       *)
(***************************************************************************)
QuitHeeded == esc ~> pc \in {"exit", "prompt"}

=============================================================================
