------------------------------- MODULE Ports -------------------------------
(***************************************************************************)
(* The I/O space: the port buffer of io.c, z80ex_pread and z80ex_pwrite on *)
(* top of it, and the hardware wired to some of its bits -- power supply,  *)
(* power button, pending interrupts, the LED -- or to whole ports, the     *)
(* clock of Rtc.  A byte is the set of its bits that are one, a digit of   *)
(* the clock a number.  What is read at port KEYBOARD is Machine's.        *)
(***************************************************************************)
EXTENDS Rtc

CONSTANTS
  Port,    \* full 16-bit port addresses the CPU uses
  Val      \* bytes the CPU writes

Bits == 0 .. 7

KEYBOARD == \h01
MISC2    == \h02
IRQ_MASK == \h03
MISC9    == \h09
POWER    == \h28   \* UNKNOWN0x28

ASSUME PortAssumption == Port \subseteq 0 .. 65535
ASSUME ValAssumption  == Val \subseteq SUBSET Bits

VARIABLES
  io,              \* the port buffer
  interrupt_mask,  \* the interrupts that have been triggered
  power_state,     \* "on" or "off"
  ac_status,       \* 1 for AC_GOOD
  batt_status,     \* 0 depleted, 1 low, 2 high
  power_button_n,
  led              \* the LED the window shows

hardware == <<ac_status, batt_status, power_button_n>>
vars == <<io, interrupt_mask, power_state, hardware, led, now>>

ClockPorts == RTC_SEC .. RTC_10YR

\* A wrong variant, for the mutation runs only.
FullAddress(port) == port

\* Only the low byte of the address is decoded.
Decoded(port) == port % 256

Cells == {Decoded(p) : p \in Port} \cup {KEYBOARD, MISC2, IRQ_MASK, MISC9, POWER}

-----------------------------------------------------------------------------
(* Reading                                                                 *)

\* What the power hardware drives onto the upper half of MISC9.
PowerBits ==
  (IF ac_status = 1 THEN {7} ELSE {})
  \cup (IF batt_status = 2 THEN {6, 5} ELSE IF batt_status = 1 THEN {5} ELSE {})
  \cup (IF power_button_n = 1 THEN {4} ELSE {})

\* A wrong variant, for the mutation runs only.
StoredAll(byte) == byte

\* & 0x0F: what a read of MISC9 takes from the port buffer.
StoredLow(byte) == byte \cap 0 .. 3

z80ex_pread(port) ==
  IF Decoded(port) = IRQ_MASK THEN interrupt_mask
  ELSE IF Decoded(port) \in ClockPorts THEN ClockDigit(Decoded(port))
  ELSE IF Decoded(port) = MISC9 THEN PowerBits \cup StoredLow(io[MISC9])
  ELSE io[Decoded(port)]

-----------------------------------------------------------------------------
(* Writing                                                                 *)

\* interrupt_mask &= val
Acknowledged(val) == interrupt_mask \cap val

z80ex_pwrite(port, val) ==
  /\ io' = [io EXCEPT ![Decoded(port)] = val]
  /\ led' = IF Decoded(port) = MISC2 THEN 4 \in val ELSE led
  /\ interrupt_mask' = IF Decoded(port) = IRQ_MASK THEN Acknowledged(val)
                       ELSE interrupt_mask
  /\ power_state' = IF Decoded(port) = POWER /\ 0 \in val THEN "off" ELSE power_state
  /\ UNCHANGED <<hardware, now>>

\* process_interrupts raises time16 (bit 4) or keyboard (bit 1).
Raise(bit) ==
  /\ bit \in io[IRQ_MASK] \ interrupt_mask
  /\ interrupt_mask' = interrupt_mask \cup {bit}
  /\ UNCHANGED <<io, power_state, hardware, led, now>>

\* A wrong variant, for the mutation runs only: io_init zeroes the ports but
\* the pending interrupts stay.
ClearPendingNot == UNCHANGED interrupt_mask

ClearPending == interrupt_mask' = {}

\* With right Ctrl + R, or by ms_power_hint when the button goes down.
ms_power_on_reset ==
  /\ power_state' = "on" /\ power_button_n' \in {power_button_n, 0}
  /\ io' = [c \in Cells |-> {}]
  /\ ClearPending
  /\ UNCHANGED <<ac_status, batt_status, led, now>>

\* The user plugs, unplugs, presses.
HardwareChanges ==
  /\ \/ ac_status' = 1 - ac_status /\ UNCHANGED <<batt_status, power_button_n>>
     \/ batt_status' = (batt_status + 1) % 3 /\ UNCHANGED <<ac_status, power_button_n>>
     \/ power_button_n' = 1 - power_button_n /\ UNCHANGED <<ac_status, batt_status>>
  /\ UNCHANGED <<io, interrupt_mask, power_state, led, now>>

\* The host's clock moves between any two accesses.
ClockMoves == TimePasses /\ UNCHANGED <<io, interrupt_mask, power_state, hardware, led>>

-----------------------------------------------------------------------------

Init ==
  /\ io = [c \in Cells |-> {}]
  /\ interrupt_mask = {} /\ power_state = "off" /\ led = FALSE
  /\ ac_status \in {0, 1} /\ batt_status \in 0 .. 2 /\ power_button_n = 1
  /\ now \in Times

Next ==
  \/ \E port \in Port, val \in Val : z80ex_pwrite(port, val)
  \/ Raise(1) \/ Raise(4)
  \/ ms_power_on_reset \/ HardwareChanges \/ ClockMoves

Spec == Init /\ [][Next]_vars

-----------------------------------------------------------------------------

(***************************************************************************)
(* Every variable has its type; only the two interrupts there are pend.    *)
(***************************************************************************)
TypeOK ==
  /\ io \in [Cells -> SUBSET Bits]
  /\ interrupt_mask \subseteq {1, 4}
  /\ power_state \in {"on", "off"} /\ led \in BOOLEAN
  /\ ac_status \in {0, 1} /\ batt_status \in 0 .. 2 /\ power_button_n \in {0, 1}
  /\ now \in Times

(***************************************************************************)
(* An interrupt is reported as triggered only while it is enabled: writing *)
(* IRQ_MASK acknowledges what it disables, and a reset forgets both        *)
(* (pwrite of IRQ_MASK, process_interrupts, ms_power_on_reset).            *)
(***************************************************************************)
PendingIsEnabled == interrupt_mask \subseteq io[IRQ_MASK]

(***************************************************************************)
(* io.h:49-62: the two ports of a field spell it in decimal, the month     *)
(* counted from one and the year from 1980 -- which msemu.c reaches by     *)
(* adding 80 and letting the shift of hex2bcd drop the excess of 160 years *)
(* -- whatever the firmware has written to the clock's ports.              *)
(***************************************************************************)
DigitsSpellTime ==
  \A field \in Fields :
    LET ones == OnesPort(field)
        shown == z80ex_pread(ones + 1) * 10 + z80ex_pread(ones) IN
      shown = IF field = "mon" THEN now.mon + 1
              ELSE IF field = "year" THEN now.year - 1980
              ELSE now[field]

=============================================================================
