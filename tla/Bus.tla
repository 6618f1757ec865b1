-------------------------------- MODULE Bus --------------------------------
(***************************************************************************)
(* The memory bus of msemu.c: z80ex_mread and z80ex_mwrite decode a 16-bit *)
(* address into one of four slots of 16 KiB.  Slot 0 is the code flash and *)
(* slot 3 the RAM; the two in between are windows the firmware moves over  *)
(* the devices by writing four I/O registers.                              *)
(*                                                                         *)
(* The CPU (external z80ex) reaches the bus one access at a time, and the  *)
(* debugger reaches it through the same z80ex_mread: the disassembler of a *)
(* traced instruction, md, and the stack dump.  The data flash behind the  *)
(* bus is module Dataflash; what lcd_write does is module Lcd, and no code *)
(* ever changes the code flash.                                            *)
(*                                                                         *)
(* The page registers are not range-checked (msemu.c:196).  This module is *)
(* about firmware whose windows stay inside the device they show.          *)
(***************************************************************************)
EXTENDS Integers

CONSTANTS
  Code,      \* addresses instructions are fetched from
  Loads,     \* addresses instructions read
  Stores,    \* addresses instructions write
  Val,       \* bytes they write
  Settings,  \* <<port, value>> pairs they write to the slot registers
  Filler,    \* bytes RAM may hold after ram_init
  Probes,    \* addresses the user asks md for
  Stacks     \* stack pointers the user dumps from

CF    == 0
RAM   == 1
LCD_L == 2
DF    == 3
LCD_R == 4
MODEM == 5

SLOT4_PAGE == 5
SLOT4_DEV  == 6
SLOT8_PAGE == 7
SLOT8_DEV  == 8
SlotPort   == {SLOT4_PAGE, SLOT4_DEV, SLOT8_PAGE, SLOT8_DEV}

Byte     == {i \in Nat : i < 256}
SlotSize == 16384
Word     == {i \in Nat : i < 4 * SlotSize}

ASSUME AddressAssumption ==
  Code \cup Loads \cup Stores \cup Probes \cup Stacks \subseteq Word
ASSUME ValueAssumption ==
  /\ Val \cup Filler \subseteq Byte /\ 0 \in Filler
  /\ Settings \subseteq SlotPort \X Byte

\* The bytes a device has; those without storage answer any offset.
Capacity == [dev \in 0 .. 15 |->
  IF dev = CF THEN 1048576 ELSE IF dev = RAM THEN 131072
  ELSE IF dev = DF THEN 524288 ELSE 256 * SlotSize]

VARIABLES
  io,                     \* the four slot registers of ms->io
  ram,                    \* ms->ram, where the accesses reach it
  df, wp, cycle, cmd,     \* the data flash, as in Dataflash
  power_state,
  phase,                  \* loop, slice, traced, inside or dump
  at                      \* the address disassembled, or next to dump

flash == <<df, wp, cycle, cmd>>
vars  == <<io, ram, flash, power_state, phase, at>>

-----------------------------------------------------------------------------
(* Decoding                                                                *)

Slot(addr)   == addr \div SlotSize
Offset(addr) == addr % SlotSize

\* Wrong variants, for the mutation runs only: the upper four bits of the
\* device register are not masked; slot 8 is given slot 4's page.
DeviceUnmasked(addr) ==
  IF Slot(addr) = 0 THEN CF
  ELSE IF Slot(addr) = 3 THEN RAM
  ELSE IF Slot(addr) = 1
    THEN (IF io[SLOT4_DEV] < 16 THEN io[SLOT4_DEV] ELSE 15)
    ELSE (IF io[SLOT8_DEV] < 16 THEN io[SLOT8_DEV] ELSE 15)
PageOfSlot4(addr) == IF Slot(addr) \in {0, 3} THEN 0 ELSE io[SLOT4_PAGE]

Device(addr) ==
  IF Slot(addr) = 0 THEN CF
  ELSE IF Slot(addr) = 3 THEN RAM
  ELSE io[IF Slot(addr) = 1 THEN SLOT4_DEV ELSE SLOT8_DEV] % 16

Page(addr) ==
  IF Slot(addr) \in {0, 3} THEN 0
  ELSE io[IF Slot(addr) = 1 THEN SLOT4_PAGE ELSE SLOT8_PAGE]

Absolute(addr) == Offset(addr) + SlotSize * Page(addr)

\* The environment's side: the page is one the device has.
Exists(addr) == Absolute(addr) < Capacity[Device(addr)]

\* The cells of the instance: a dump reads on from the stack pointer through
\* the window of slot 8; past it there is only RAM.
RamStart == 3 * SlotSize
Dumped   == UNION {sp .. RamStart - 1 : sp \in Stacks}
Address  == Code \cup Loads \cup Stores \cup Probes \cup Dumped
Pages    == {0} \cup {s[2] : s \in {x \in Settings : x[1] \in {SLOT4_PAGE, SLOT8_PAGE}}}
Reached  == {Offset(a) + SlotSize * p : a \in Address, p \in Pages}
RamCells == {c \in Reached : c < Capacity[RAM]}
DfCells  == {c \in Reached : c < Capacity[DF]}

Chip == INSTANCE Dataflash WITH
          ReadAddr <- DfCells, WriteAddr <- DfCells, Blank <- 0

-----------------------------------------------------------------------------
(* z80ex_mread and z80ex_mwrite                                            *)

\* A wrong variant, for the mutation runs only: a missing break lets a read
\* of the modem fall through to the data flash.
mreadFallsThrough(addr) ==
  /\ Exists(addr)
  /\ IF Device(addr) \in {DF, MODEM}
       THEN Chip!df_read(Absolute(addr)) ELSE UNCHANGED flash
  /\ UNCHANGED <<io, ram>>

\* Only the data flash is changed by being read.
mread(addr) ==
  /\ Exists(addr)
  /\ IF Device(addr) = DF
       THEN Chip!df_read(Absolute(addr)) ELSE UNCHANGED flash
  /\ UNCHANGED <<io, ram>>

\* The byte z80ex_mread returns for RAM.
ram_read(addr) == ram[Absolute(addr)]

\* A wrong variant, for the mutation runs only: the data flash is written
\* like RAM.
mwritePokes(addr, val) ==
  /\ Exists(addr)
  /\ df' = IF Device(addr) = DF THEN [df EXCEPT ![Absolute(addr)] = val] ELSE df
  /\ ram' = IF Device(addr) = RAM THEN [ram EXCEPT ![Absolute(addr)] = val] ELSE ram
  /\ UNCHANGED <<io, wp, cycle, cmd>>

\* The code flash, the modem and numbers without a device ignore a write.
mwrite(addr, val) ==
  /\ Exists(addr)
  /\ IF Device(addr) = DF
       THEN Chip!df_write(Absolute(addr), val) ELSE UNCHANGED flash
  /\ ram' = IF Device(addr) = RAM THEN [ram EXCEPT ![Absolute(addr)] = val] ELSE ram
  /\ UNCHANGED io

-----------------------------------------------------------------------------
(* The CPU                                                                 *)

NoAddress == -1

\* ms_run comes to the inner loop.
SliceBegins ==
  /\ phase = "loop" /\ power_state = "on" /\ phase' = "slice"
  /\ UNCHANGED <<io, ram, flash, power_state, at>>

\* debug_dasm, of an instruction about to be traced: its first byte, then
\* as many of the three behind it as it has.
Disassemble(a) ==
  /\ phase = "slice" /\ phase' = "traced" /\ at' = a
  /\ mread(a)
  /\ UNCHANGED power_state

DisassembleMore(a) ==
  /\ phase = "traced" /\ a \in at + 1 .. at + 3
  /\ mread(a)
  /\ UNCHANGED <<power_state, phase, at>>

Fetch(a) ==
  /\ phase = "slice" \/ (phase = "traced" /\ a = at)
  /\ phase' = "inside" /\ at' = NoAddress
  /\ mread(a)
  /\ UNCHANGED power_state

Load(a) ==
  /\ phase = "inside" /\ mread(a)
  /\ UNCHANGED <<power_state, phase, at>>

\* Also the pushes of an accepted interrupt.
Store(a, val) ==
  /\ phase = "inside" /\ mwrite(a, val)
  /\ UNCHANGED <<power_state, phase, at>>

\* OUT to a slot register: z80ex_pwrite's default is io_write.
OutSlot(port, val) ==
  /\ phase = "inside"
  /\ io' = [io EXCEPT ![port] = val]
  /\ UNCHANGED <<ram, flash, power_state, phase, at>>

\* OUT (0x28): ms_power_off, with ram_init.  The slice goes on.
OutPowerOff ==
  /\ phase = "inside"
  /\ power_state' = "off"
  /\ ram' \in [RamCells -> Filler]
  /\ UNCHANGED <<io, flash, phase, at>>

\* The slice goes on, or is over.
InstructionEnds ==
  /\ phase = "inside" /\ phase' \in {"slice", "loop"}
  /\ UNCHANGED <<io, ram, flash, power_state, at>>

-----------------------------------------------------------------------------
(* The debugger's prompt and the window's events, between two slices       *)

md(a) ==
  /\ phase = "loop" /\ mread(a)
  /\ UNCHANGED <<power_state, phase, at>>

\* A dump from RAM on disturbs nothing.
dump_stack(sp) ==
  /\ phase = "loop" /\ sp \in 1 .. RamStart - 1
  /\ phase' = "dump" /\ at' = sp
  /\ UNCHANGED <<io, ram, flash, power_state>>

DumpNext ==
  /\ phase = "dump" /\ mread(at)
  /\ IF at + 1 < RamStart
       THEN at' = at + 1 /\ UNCHANGED phase
       ELSE at' = NoAddress /\ phase' = "loop"
  /\ UNCHANGED power_state

\* io_init zeroes the registers; RAM and the data flash are left alone.
ms_power_on_reset ==
  /\ phase = "loop"
  /\ power_state' = "on"
  /\ io' = [port \in SlotPort |-> 0]
  /\ UNCHANGED <<ram, flash, phase, at>>

-----------------------------------------------------------------------------

Init ==
  /\ io = [port \in SlotPort |-> 0]
  /\ ram \in [RamCells -> Filler]
  /\ Chip!Init
  /\ power_state = "off"
  /\ phase = "loop" /\ at = NoAddress

Cpu ==
  \/ SliceBegins \/ OutPowerOff \/ InstructionEnds
  \/ \E a \in Code : Fetch(a)
  \/ \E a \in Loads : Load(a)
  \/ \E a \in Stores, val \in Val : Store(a, val)
  \/ \E s \in Settings : OutSlot(s[1], s[2])

Debugger ==
  \/ \E a \in Code : Disassemble(a) \/ DisassembleMore(a)
  \/ \E a \in Probes : md(a)
  \/ \E sp \in Stacks : dump_stack(sp)
  \/ DumpNext

Next == Cpu \/ Debugger \/ ms_power_on_reset

Spec == Init /\ [][Next]_vars

(***************************************************************************)
(* Every variable has its type; the disassembler and the dump leave no     *)
(* address behind when they are done (debug.c:194-208, 303-339).           *)
(***************************************************************************)
TypeOK ==
  /\ io \in [SlotPort -> Byte]
  /\ ram \in [RamCells -> Byte]
  /\ Chip!TypeOK
  /\ power_state \in {"on", "off"}
  /\ phase \in {"loop", "slice", "traced", "inside", "dump"}
  /\ phase = "traced" => at \in Code
  /\ phase = "dump" => at \in Dumped
  /\ phase \notin {"traced", "dump"} => at = NoAddress

=============================================================================
