---------------------------- MODULE PortsHistory ----------------------------
(***************************************************************************)
(* Ports with the last byte written to every port since the last reset.    *)
(***************************************************************************)
EXTENDS Ports

VARIABLE last   \* by low address byte; the empty byte after a reset

\* The ports the CPU uses, by what the code decodes of their addresses.
Used == {p % 256 : p \in Port}

PInit == Init /\ last = [c \in Used |-> {}]

PWrite == \E port \in Port, val \in Val :
  /\ z80ex_pwrite(port, val)
  /\ last' = [last EXCEPT ![port % 256] = val]

PReset == ms_power_on_reset /\ last' = [c \in Used |-> {}]

POther ==
  /\ Raise(1) \/ Raise(4) \/ HardwareChanges \/ ClockMoves
  /\ UNCHANGED last

PNext == PWrite \/ PReset \/ POther

PSpec == PInit /\ [][PNext]_<<vars, last>>

(***************************************************************************)
(* A port without hardware of its own reads back the last byte written to  *)
(* it since the reset, through any alias of its address, whatever is done  *)
(* to other ports and across a power-off (pread and pwrite, the default    *)
(* cases, and io_init's re-zeroing).                                       *)
(***************************************************************************)
ReadsBack ==
  \A p \in Port : p % 256 \notin {KEYBOARD, IRQ_MASK, MISC9} \cup ClockPorts =>
    z80ex_pread(p) = last[p % 256]

(***************************************************************************)
(* msemu.h:64-68: the firmware does write to the power bits of MISC9 when  *)
(* it should not.  Whatever it wrote there since the reset, through any    *)
(* alias of the port, a read gives the supply and the button as they are   *)
(* now in the upper half and the low half of the byte written last in the  *)
(* lower, neither disturbing the other (pread of MISC9, msemu.c:405-419).  *)
(***************************************************************************)
Misc9IsShared ==
  \A p \in Port : p % 256 = MISC9 =>
    z80ex_pread(p) =
      (last[MISC9] \cap 0 .. 3)
      \cup {b \in 4 .. 7 : \/ b = 7 /\ ac_status = 1
                           \/ b = 6 /\ batt_status = 2
                           \/ b = 5 /\ batt_status # 0
                           \/ b = 4 /\ power_button_n = 1}

=============================================================================
