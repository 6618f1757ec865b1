----------------------------- MODULE BusHistory -----------------------------
(***************************************************************************)
(* Bus with a bystander who knows what the firmware did and nothing of the *)
(* decoding: the byte it last stored at every place of RAM, and how much   *)
(* of the data flash's guard sequences its own reads have spelled.         *)
(***************************************************************************)
EXTENDS Bus

VARIABLES
  stored,                      \* RAM page and offset -> byte, or Unknown
  unlockRun, lockRun, quiet,   \* as in SdpFlash, of the firmware's reads
  clean                        \* no debugger read since its last write

hvars == <<stored, unlockRun, lockRun, quiet, clean>>

Sdp == INSTANCE SdpFlash WITH
         ReadAddr <- DfCells, WriteAddr <- DfCells, Blank <- 0,
         content <- df, open <- Chip!WriteAllowed,
         pending <- IF cycle = 0 THEN 256 ELSE cmd

Unknown == 256

RamPlaces == {<<p, Offset(a)>> : p \in Pages, a \in Address}

\* What the firmware means by an address: a device, a page and an offset.
\* It sets the upper four bits of a device register (msemu.c:188).
Meant(addr) ==
  IF addr < 16384 THEN <<CF, 0, addr>>
  ELSE IF addr < 32768 THEN <<io[SLOT4_DEV] % 16, io[SLOT4_PAGE], addr - 16384>>
  ELSE IF addr < 49152 THEN <<io[SLOT8_DEV] % 16, io[SLOT8_PAGE], addr - 32768>>
  ELSE <<RAM, 0, addr - 49152>>

InFlash(addr) == Meant(addr)[1] = DF
RamPlace(addr) == <<Meant(addr)[2], Meant(addr)[3]>>

HInit ==
  /\ Init
  /\ stored = [place \in RamPlaces |-> Unknown]
  /\ unlockRun = 0 /\ lockRun = 0 /\ quiet = 0 /\ clean = TRUE

\* The firmware reads addr.
Heard(addr) ==
  /\ IF InFlash(addr) /\ clean
       THEN /\ unlockRun' = Sdp!Spelled(Sdp!UnlockSeq, unlockRun, Meant(addr)[3])
            /\ lockRun' = Sdp!Spelled(Sdp!LockSeq, lockRun, Meant(addr)[3])
            /\ quiet' = IF Chip!WriteAllowed' # Chip!WriteAllowed THEN 0
                        ELSE IF quiet > Sdp!Full THEN quiet ELSE quiet + 1
       ELSE UNCHANGED <<unlockRun, lockRun, quiet>>
  /\ UNCHANGED <<stored, clean>>

HRead ==
  \/ \E a \in Code : Fetch(a) /\ Heard(a)
  \/ \E a \in Loads : Load(a) /\ Heard(a)

HStore == \E a \in Stores, val \in Val :
  /\ Store(a, val)
  /\ stored' = IF Meant(a)[1] = RAM
               THEN [stored EXCEPT ![RamPlace(a)] = val] ELSE stored
  /\ IF InFlash(a)
       THEN unlockRun' = 0 /\ lockRun' = 0 /\ quiet' = 0 /\ clean' = TRUE
       ELSE UNCHANGED <<unlockRun, lockRun, quiet, clean>>

\* The debugger reads a: of the data flash, the count is off until a write.
Disturbed(a) ==
  /\ IF InFlash(a)
       THEN unlockRun' = 0 /\ lockRun' = 0 /\ quiet' = 0 /\ clean' = FALSE
       ELSE UNCHANGED <<unlockRun, lockRun, quiet, clean>>
  /\ UNCHANGED stored

HDebugger ==
  \/ \E a \in Code : (Disassemble(a) \/ DisassembleMore(a)) /\ Disturbed(a)
  \/ \E a \in Probes : md(a) /\ Disturbed(a)
  \/ DumpNext /\ Disturbed(at)

HPowerOff ==
  /\ OutPowerOff
  /\ stored' = [place \in RamPlaces |-> Unknown]
  /\ UNCHANGED <<unlockRun, lockRun, quiet, clean>>

HOther ==
  /\ \/ SliceBegins \/ InstructionEnds \/ ms_power_on_reset
     \/ \E s \in Settings : OutSlot(s[1], s[2])
     \/ \E sp \in Stacks : dump_stack(sp)
  /\ UNCHANGED hvars

HNext == HRead \/ HStore \/ HDebugger \/ HPowerOff \/ HOther

HSpec == HInit /\ [][HNext]_<<vars, hvars>>

-----------------------------------------------------------------------------

\* What a load from addr returns when the bus takes it for RAM.
Shown(addr) == IF Device(addr) = RAM THEN ram_read(addr) ELSE Unknown

(***************************************************************************)
(* A byte stored in RAM through one window is read back through every      *)
(* other window moved over its page, and no store anywhere else, no reset  *)
(* and no debugger command changes it (z80ex_mread and z80ex_mwrite, the   *)
(* two copies of the decoder and its absolute addresses).                  *)
(***************************************************************************)
WindowsAgree ==
  \A a \in Address :
    /\ Meant(a)[1] = RAM
    /\ RamPlace(a) \in RamPlaces /\ stored[RamPlace(a)] # Unknown
    => Shown(a) = stored[RamPlace(a)]

\* How much of the sequence the chip waits for the firmware has spelled.
Run == IF Chip!WriteAllowed THEN lockRun ELSE unlockRun

(***************************************************************************)
(* Seven guard reads of the firmware from a standstill always switch the   *)
(* chip, in whichever window, through whatever page of the chip, and with  *)
(* whatever fetches, other devices, resets and power-offs in between: only *)
(* a debugger that reads the chip itself can spoil them (z80ex_mread, the  *)
(* tracing in ms_run, md and dump_stack, debug.c:158-163, 194-208).        *)
(***************************************************************************)
GuardHeard == clean /\ quiet = Sdp!Full => Run # Sdp!Full

(***************************************************************************)
(* All the bus does to the chip is to read and write its cells: resets,    *)
(* power-offs, accesses to other devices and the debugger leave it as a    *)
(* data flash of its own would be left (msemu.c:219-250, 304-340).         *)
(***************************************************************************)
ChipIsDataflash == Chip!Spec

=============================================================================
