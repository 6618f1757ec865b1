------------------------------ MODULE Machine ------------------------------
(***************************************************************************)
(* The machine that ms_run drives: the loop of RunLoop and the keyboard of *)
(* KeyboardScan over the registers of Ports.  Each of the three lets what  *)
(* it does not model happen at any time; here that is done by the others:  *)
(* the CPU's OUT enables interrupts and cuts the power, the loop raises    *)
(* interrupts, the keys in SDL's queue press the power button, reset the   *)
(* machine and end the loop.                                               *)
(***************************************************************************)
EXTENDS PortsHistory, Sequences

CONSTANTS
  interrupt_period, Tstates, IntTstates, Deltas, Hertz,
  Code, Vector, Data, BpAddr,   \* as in RunLoop
  Key, LUT, MaxQueue            \* as in Keyboard

\* The firmware selects rows of keys.
ASSUME RowPortsAssumption == {KEYBOARD, MISC2} \subseteq Port
ASSUME LoopAssumption ==
  /\ interrupt_period \in Nat \ {0}
  /\ Tstates \subseteq Nat \ {0} /\ IntTstates \subseteq Nat
  /\ Deltas \subseteq Nat /\ Hertz \in Nat
  /\ 0 \in Code /\ Vector \subseteq Code
  /\ Code \cup Data \cup BpAddr \subseteq 0 .. 65535
ASSUME KeyAssumption ==
  /\ DOMAIN LUT \subseteq Key /\ {"RCtrl", "F12", "Escape"} \cap DOMAIN LUT = {}
  /\ \A k \in DOMAIN LUT : LUT[k] \in (0 .. 9) \X (0 .. 7)
  /\ \A k, l \in DOMAIN LUT : LUT[k] = LUT[l] => k = l
  /\ MaxQueue \in Nat \ {0}

VARIABLES
  pc, execute_counter, tstate_counter, icount, splashscreen_show, ram,
  regPC, int_possible, bp, hits,                             \* of RunLoop
  held, queue, exited, low, ac_icon, batt_icon, hidden       \* of KeyboardScan

\* ui_kbd_process runs where the loop drains the queue.
Keys == INSTANCE KeyboardScan WITH
          draining <- pc = "ui", KbAddr <- SUBSET (0 .. 9)

\* An Escape waits in the queue, or has just been found there.
Escaping == exited \/ \E i \in 1 .. Len(queue) : Keys!Escape(queue[i])

Run == INSTANCE RunLoop WITH
         irq_port <- io[IRQ_MASK] \cap {1, 4}, esc <- Escaping,
         PortVals <- SUBSET {1, 4}

registers == <<io, led, now, ac_status, batt_status, last>>
window    == <<held, queue, exited, low, ac_icon, batt_icon, hidden>>
cpu       == <<regPC, int_possible>>
loop      == <<pc, execute_counter, tstate_counter, icount, splashscreen_show,
               ram, cpu, bp, hits>>
mvars     == <<vars, last, loop, window>>

-----------------------------------------------------------------------------
(* Port KEYBOARD                                                           *)

\* A wrong variant, for the mutation runs only: the two rows that are
\* selected at MISC2 are forgotten.
kbaddr_byte == io[KEYBOARD]

\* The low two bits of MISC2, beside the LED's, select rows 8 and 9.
kbaddr == io[KEYBOARD] \cup {b + 8 : b \in io[MISC2] \cap {0, 1}}

\* z80ex_pread: all bits high but the columns of keys in the selected rows.
pread(port) ==
  IF Decoded(port) = KEYBOARD THEN Bits \ Keys!kbresult(kbaddr)
  ELSE z80ex_pread(port)

-----------------------------------------------------------------------------
(* Steps of the loop                                                       *)

\* Those that write no port and handle no event.
MLoop ==
  /\ UNCHANGED <<registers, window>>
  /\ \/ Run!LoopTop \/ Run!SliceDone
     \/ \E delta \in Deltas : Run!Gate(delta)
     \/ \E t \in Tstates, next \in Code, can \in BOOLEAN : Run!Access(t, next, can)
     \/ \E t \in IntTstates : Run!Timer(t)

\* What the terminal sends: a line at the prompt, or ctrl+c.
MTerminal == UNCHANGED <<registers, window>> /\ (Run!Prompt \/ Run!sigint)

\* The CPU executes an OUT.
MWrite(port, val) == \E t \in Tstates, next \in Code, can \in BOOLEAN :
  /\ UNCHANGED window
  /\ z80ex_pwrite(port, val) /\ last' = [last EXCEPT ![port % 256] = val]
  /\ Run!Step(t, next, can, {}, {})
  /\ IF Decoded(port) = POWER /\ 0 \in val THEN Run!ms_power_off
     ELSE UNCHANGED <<splashscreen_show, ram>>

-----------------------------------------------------------------------------
(* Window events                                                           *)

MUser ==
  /\ pc # "exit"
  /\ UNCHANGED <<registers, interrupt_mask, loop, hidden>>
  /\ \E k \in Key : Keys!Press(k) \/ Keys!Release(k)

\* A wrong variant, for the mutation runs only: the button resets a machine
\* that is on.
ResetsAlways(e) ==
  e.type = "down" /\ (e.sym = Keys!F12 \/ (e.rctrl /\ e.sym = Keys!KeyR))

\* The two events that reach ms_power_on_reset.
Resets(e) ==
  /\ e.type = "down"
  /\ \/ e.sym = Keys!F12 /\ power_state = "off"
     \/ e.sym = Keys!KeyR /\ e.rctrl

\* The next event of the queue, with all that it does to the machine.
MEvent ==
  /\ pc = "ui" /\ queue # << >>
  /\ pc' = IF Keys!Escape(Head(queue)) THEN "exit" ELSE pc
  /\ Keys!SHandle
  /\ IF Resets(Head(queue))
       THEN /\ ms_power_on_reset /\ last' = [c \in Used |-> {}]
            /\ regPC' = 0 /\ int_possible' = FALSE /\ splashscreen_show' = FALSE
       ELSE UNCHANGED <<io, interrupt_mask, led, now, last, cpu, splashscreen_show>>
  /\ UNCHANGED <<execute_counter, tstate_counter, icount, ram, bp, hits>>

\* A wrong variant, for the mutation runs only: one event a pass.
MDrainedEarly ==
  /\ pc = "ui" /\ pc' = "top"
  /\ UNCHANGED <<registers, interrupt_mask, power_state, power_button_n,
                 execute_counter, tstate_counter, icount, splashscreen_show, ram, cpu,
                 bp, hits, window>>

MDrained ==
  /\ pc = "ui" /\ pc' = "top"
  /\ Keys!Drained
  /\ UNCHANGED <<registers, interrupt_mask, execute_counter, tstate_counter, icount,
                 splashscreen_show, ram, cpu, bp, hits, hidden>>

-----------------------------------------------------------------------------

MClock == ClockMoves /\ UNCHANGED <<last, loop, window>>

MTerminated == pc = "exit" /\ UNCHANGED mvars

MInit ==
  /\ PInit
  /\ pc = "top" /\ Keys!SInit
  /\ Run!Init

\* The emulator's own steps: no key, no signal, nothing typed at the prompt.
MStep ==
  \/ MLoop \/ (\E port \in Port, val \in Val : MWrite(port, val))
  \/ MEvent \/ MDrained

MNext == MStep \/ MTerminal \/ MUser \/ MClock \/ MTerminated

MSpec == MInit /\ [][MNext]_mvars

-----------------------------------------------------------------------------

(***************************************************************************)
(* The registers and the queue do with the loop only what RunLoop allows   *)
(* for: what a program may rely on there, it may rely on here.             *)
(***************************************************************************)
LoopIsRunLoop == Run!Spec

(***************************************************************************)
(* The loop and the keys do with the registers only what Ports allows for. *)
(***************************************************************************)
RegistersArePorts == PSpec

(***************************************************************************)
(* The loop and the ports do with the keyboard only what Keyboard allows   *)
(* for.                                                                    *)
(***************************************************************************)
KeysAreKeyboard == Keys!SSpec

\* Every event has been handled, and the firmware can look.
Settled == queue = << >> /\ pc \notin {"ui", "exit"}

(***************************************************************************)
(* From the user's finger to the firmware: when the events are handled,    *)
(* the button's bit of port MISC9 is low exactly while F12 is held,        *)
(* whatever the firmware wrote there and however often the machine was     *)
(* reset or switched off in between (ui.c:347-354, msemu.c:404-418).       *)
(***************************************************************************)
ButtonIsSeen == Settled => (4 \notin pread(MISC9) <=> Keys!F12 \in held)

\* The rows that the firmware's writes since the reset select.
Selected == {i \in 0 .. 9 :
  IF i < 8 THEN i \notin last[KEYBOARD] ELSE i - 8 \notin last[MISC2]}

(***************************************************************************)
(* When the events are handled, a read of port KEYBOARD shows the keys     *)
(* held in the rows that the firmware's last writes to KEYBOARD and, for   *)
(* rows 8 and 9, to MISC2 select, and none else; the keys whose latest     *)
(* event right Ctrl hid from the matrix aside (msemu.c:383-397).           *)
(***************************************************************************)
KeysAreSeen ==
  Settled =>
    LET columns(keys) ==
          {LUT[k][2] : k \in {l \in keys \cap DOMAIN LUT : LUT[l][1] \in Selected}}
        seen == Bits \ pread(KEYBOARD) IN
      columns(held \ hidden) \subseteq seen /\ seen \subseteq columns(held \cup hidden)

(***************************************************************************)
(* Escape is never lost in the queue: whatever waits before it, a power    *)
(* button or a reset included, and whatever the user goes on pressing      *)
(* while the queue is drained, it ends the emulator, or the prompt opens   *)
(* first (ui.c:331-338, msemu.c:787).                                      *)
(***************************************************************************)
EscapeIsHeard == Escaping ~> pc \in {"exit", "prompt"}

=============================================================================
