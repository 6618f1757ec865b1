----------------------------- MODULE BusProofs -----------------------------
(***************************************************************************)
(* Proofs about the bus, for every set of addresses, bytes and settings.   *)
(***************************************************************************)
EXTENDS BusHistory, TLAPS

ChipProofs == INSTANCE DataflashProofs WITH
                ReadAddr <- DfCells, WriteAddr <- DfCells, Blank <- 0

hall == <<vars, hvars>>

-----------------------------------------------------------------------------
(* What the numbers of the instance are.                                   *)

LEMMA Sizes ==
  /\ SlotSize = 16384 /\ RamStart = 49152
  /\ CF = 0 /\ RAM = 1 /\ DF = 3
  /\ Capacity[RAM] = 131072 /\ Capacity[DF] = 524288
  BY DEF SlotSize, RamStart, CF, RAM, DF, Capacity

LEMMA DumpedBelow == \A sp \in Stacks : sp \in Nat /\ \A a \in sp .. RamStart - 1 :
                       a \in Nat /\ a < 4 * SlotSize
  <1> SUFFICES ASSUME NEW sp \in Stacks, NEW a \in sp .. RamStart - 1
               PROVE  sp \in Nat /\ a \in Nat /\ a < 4 * SlotSize
    BY AddressAssumption DEF Word
  <1>1. sp \in Nat
    BY AddressAssumption DEF Word
  <1> QED BY <1>1, Sizes

LEMMA Addresses == Address \subseteq Word
  BY AddressAssumption, DumpedBelow DEF Address, Dumped, Word

LEMMA PagesAreBytes == Pages \subseteq Byte
  BY ValueAssumption DEF Pages, Byte

LEMMA ReachedNat == Reached \subseteq Nat
  <1> SUFFICES ASSUME NEW a \in Address, NEW p \in Pages
               PROVE  Offset(a) + SlotSize * p \in Nat
    BY DEF Reached
  <1>1. a \in Nat /\ p \in Nat
    BY Addresses, PagesAreBytes DEF Word, Byte
  <1> QED BY <1>1, Sizes DEF Offset

(* The assumptions the proofs about the chip rest on.                      *)
LEMMA ChipAssumptions ==
  /\ ChipProofs!Addr \subseteq 0 .. ChipProofs!SZ_512K - 1
  /\ Val \cup {0} \subseteq ChipProofs!Byte
  <1>1. \A c \in DfCells : c \in Nat /\ c < 524288
    BY ReachedNat, Sizes DEF DfCells
  <1>2. ChipProofs!SZ_512K - 1 = 524287
    BY DEF ChipProofs!SZ_512K
  <1>3. Val \cup {0} \subseteq ChipProofs!Byte
    BY ValueAssumption DEF Byte, ChipProofs!Byte
  <1> QED BY <1>1, <1>2, <1>3 DEF ChipProofs!Addr

LEMMA SameTypeOK == ChipProofs!TypeOK <=> Chip!TypeOK
  BY DEF ChipProofs!TypeOK, Chip!TypeOK, ChipProofs!Addr, Chip!Addr, ChipProofs!Byte, Chip!Byte

LEMMA SameRead == \A a : ChipProofs!df_read(a) <=> Chip!df_read(a)
  BY DEF ChipProofs!df_read, Chip!df_read, ChipProofs!NextInSequence, Chip!NextInSequence,
         ChipProofs!df_unlock_lock_arr, Chip!df_unlock_lock_arr,
         ChipProofs!Advance, Chip!Advance, ChipProofs!ClearSequence, Chip!ClearSequence,
         ChipProofs!SetWriteAllowed, Chip!SetWriteAllowed

LEMMA SameWrite == \A a, v : ChipProofs!df_write(a, v) <=> Chip!df_write(a, v)
  BY DEF ChipProofs!df_write, Chip!df_write, ChipProofs!ClearSequence, Chip!ClearSequence,
         ChipProofs!FirstCycle, Chip!FirstCycle, ChipProofs!SingleCycle, Chip!SingleCycle,
         ChipProofs!SecondCycle, Chip!SecondCycle, ChipProofs!WriteAllowed, Chip!WriteAllowed,
         ChipProofs!Effect, Chip!Effect, ChipProofs!Addr, Chip!Addr,
         ChipProofs!Sector, Chip!Sector, ChipProofs!SectorErase, Chip!SectorErase,
         ChipProofs!EraseConfirm, Chip!EraseConfirm, ChipProofs!ByteProgram, Chip!ByteProgram,
         ChipProofs!ChipErase, Chip!ChipErase, ChipProofs!ErasedByte, Chip!ErasedByte

LEMMA SameNext == ChipProofs!Next <=> Chip!Next
  BY SameRead, SameWrite DEF ChipProofs!Next, Chip!Next

LEMMA ChipTypeStep == Chip!TypeOK /\ [Chip!Next]_flash => Chip!TypeOK'
  <1>1. ChipProofs!TypeOK /\ [ChipProofs!Next]_ChipProofs!vars => ChipProofs!TypeOK'
    BY ChipAssumptions, ChipProofs!TypeStep
  <1>2. ChipProofs!TypeOK' <=> Chip!TypeOK'
    BY DEF ChipProofs!TypeOK, Chip!TypeOK, ChipProofs!Addr, Chip!Addr, ChipProofs!Byte, Chip!Byte
  <1>3. [Chip!Next]_flash => [ChipProofs!Next]_ChipProofs!vars
    BY SameNext DEF flash, ChipProofs!vars
  <1> QED BY <1>1, <1>2, <1>3, SameTypeOK

-----------------------------------------------------------------------------
(* Decoding.                                                               *)

\* The page registers hold pages the instance knows.
PagesOK == io[SLOT4_PAGE] \in Pages /\ io[SLOT8_PAGE] \in Pages

LEMMA Decoded ==
  ASSUME TypeOK, PagesOK, NEW a \in Address
  PROVE  /\ Page(a) \in Pages /\ Absolute(a) \in Reached
         /\ Exists(a) /\ Device(a) = DF => Absolute(a) \in DfCells
         /\ Exists(a) /\ Device(a) = RAM => Absolute(a) \in RamCells
  <1>1. Page(a) \in Pages
    BY DEF PagesOK, Page, Pages
  <1>2. Absolute(a) \in Reached
    BY <1>1 DEF Absolute, Reached
  <1> QED BY <1>1, <1>2 DEF Exists, DfCells, RamCells

LEMMA ReadStep ==
  ASSUME TypeOK, PagesOK, NEW a \in Address, mread(a)
  PROVE  [Chip!Next]_flash /\ UNCHANGED <<io, ram>>
  <1>1. CASE Device(a) = DF
    <2>1. Absolute(a) \in DfCells /\ Chip!df_read(Absolute(a))
      BY <1>1, Decoded DEF mread
    <2> QED BY <2>1 DEF Chip!Next, mread
  <1>2. CASE Device(a) # DF
    BY <1>2 DEF mread
  <1> QED BY <1>1, <1>2

LEMMA WriteStep ==
  ASSUME TypeOK, PagesOK, NEW a \in Address, NEW val \in Val, mwrite(a, val)
  PROVE  /\ [Chip!Next]_flash /\ UNCHANGED io
         /\ ram' \in [RamCells -> Byte]
  <1>1. [Chip!Next]_flash
    <2>1. CASE Device(a) = DF
      <3>1. Absolute(a) \in DfCells /\ Chip!df_write(Absolute(a), val)
        BY <2>1, Decoded DEF mwrite
      <3> QED BY <3>1 DEF Chip!Next
    <2>2. CASE Device(a) # DF
      BY <2>2 DEF mwrite
    <2> QED BY <2>1, <2>2
  <1>2. ram' \in [RamCells -> Byte]
    BY ValueAssumption DEF mwrite, TypeOK
  <1> QED BY <1>1, <1>2 DEF mwrite

-----------------------------------------------------------------------------
(* Types, and every step seen from the chip.                               *)

TInv == TypeOK /\ PagesOK

LEMMA TInit == Init => TInv
  <1> SUFFICES ASSUME Init PROVE TInv
    OBVIOUS
  <1>1. Chip!TypeOK
    <2>1. df \in [Chip!Addr -> Chip!Byte]
      BY DEF Init, Chip!Init, Chip!Addr, Chip!Byte
    <2> QED BY <2>1 DEF Init, Chip!Init, Chip!TypeOK, Chip!Byte
  <1>2. io \in [SlotPort -> Byte] /\ PagesOK
    BY DEF Init, Byte, PagesOK, Pages, SlotPort
  <1>3. ram \in [RamCells -> Byte]
    BY ValueAssumption DEF Init
  <1> QED BY <1>1, <1>2, <1>3 DEF TInv, TypeOK, Init

LEMMA CodeIsAddress == Code \cup Loads \cup Stores \cup Probes \subseteq Address
  BY DEF Address

\* Which address each phase keeps.
PhaseOK ==
  /\ phase \in {"loop", "slice", "traced", "inside", "dump"}
  /\ phase = "traced" => at \in Code
  /\ phase = "dump" => at \in Dumped
  /\ phase \notin {"traced", "dump"} => at = NoAddress

(* What a step does to the chip, the registers, RAM and the rest.          *)
LEMMA Step ==
  ASSUME TInv, Next
  PROVE  [Chip!Next]_flash /\ TInv'
  <1> USE DEF TInv
  <1>1. ASSUME NEW a \in Address, mread(a), UNCHANGED power_state, PhaseOK'
        PROVE  [Chip!Next]_flash /\ TInv'
    <2>1. [Chip!Next]_flash /\ UNCHANGED <<io, ram>>
      BY <1>1, ReadStep
    <2> QED BY <1>1, <2>1, ChipTypeStep DEF TypeOK, PagesOK, PhaseOK
  <1>2. ASSUME UNCHANGED <<flash, ram>>,
               io' \in [SlotPort -> Byte], PagesOK',
               power_state' \in {"on", "off"}, PhaseOK'
        PROVE  [Chip!Next]_flash /\ TInv'
    BY <1>2, ChipTypeStep DEF TypeOK, PhaseOK
  <1>3. CASE SliceBegins
    BY <1>2, <1>3 DEF SliceBegins, TypeOK, PagesOK, PhaseOK
  <1>4. CASE OutPowerOff
    <2>1. ram' \in [RamCells -> Byte]
      BY <1>4, ValueAssumption DEF OutPowerOff
    <2>2. [Chip!Next]_flash /\ UNCHANGED <<io, phase, at>> /\ power_state' = "off"
      BY <1>4 DEF OutPowerOff
    <2> QED BY <2>1, <2>2, ChipTypeStep DEF TypeOK, PagesOK
  <1>5. CASE InstructionEnds
    BY <1>2, <1>5 DEF InstructionEnds, TypeOK, PagesOK, PhaseOK
  <1>6. ASSUME NEW a \in Code, Fetch(a) PROVE [Chip!Next]_flash /\ TInv'
    BY <1>1, <1>6, CodeIsAddress DEF Fetch, PhaseOK
  <1>7. ASSUME NEW a \in Loads, Load(a) PROVE [Chip!Next]_flash /\ TInv'
    BY <1>1, <1>7, CodeIsAddress DEF Load, TypeOK, PhaseOK
  <1>8. ASSUME NEW a \in Stores, NEW val \in Val, Store(a, val)
        PROVE  [Chip!Next]_flash /\ TInv'
    <2>1. mwrite(a, val) /\ a \in Address /\ UNCHANGED <<power_state, phase, at>>
      BY <1>8, CodeIsAddress DEF Store
    <2> QED BY <2>1, WriteStep, ChipTypeStep DEF TypeOK, PagesOK
  <1>9. ASSUME NEW s \in Settings, OutSlot(s[1], s[2])
        PROVE  [Chip!Next]_flash /\ TInv'
    <2>1. s[1] \in SlotPort /\ s[2] \in Byte
      BY ValueAssumption
    <2>2. io' \in [SlotPort -> Byte]
      BY <1>9, <2>1 DEF OutSlot, TypeOK
    <2>3. PagesOK'
      BY <1>9, <2>1 DEF OutSlot, TypeOK, PagesOK, Pages, SlotPort
    <2> QED BY <1>2, <1>9, <2>2, <2>3 DEF OutSlot, TypeOK, PhaseOK
  <1>10. ASSUME NEW a \in Code, Disassemble(a) \/ DisassembleMore(a)
         PROVE  [Chip!Next]_flash /\ TInv'
    <2>1. CASE Disassemble(a)
      BY <1>1, <2>1, CodeIsAddress DEF Disassemble, PhaseOK
    <2>2. CASE DisassembleMore(a)
      <3>1. a \in Address /\ mread(a) /\ UNCHANGED <<power_state, phase, at>>
        BY <2>2, CodeIsAddress DEF DisassembleMore
      <3>2. PhaseOK'
        BY <3>1 DEF PhaseOK, TypeOK
      <3> QED BY <1>1, <3>1, <3>2
    <2> QED BY <1>10, <2>1, <2>2
  <1>11. ASSUME NEW a \in Probes, md(a) PROVE [Chip!Next]_flash /\ TInv'
    BY <1>1, <1>11, CodeIsAddress DEF md, TypeOK, PhaseOK
  <1>12. ASSUME NEW sp \in Stacks, dump_stack(sp) PROVE [Chip!Next]_flash /\ TInv'
    <2>1. sp \in sp .. RamStart - 1
      BY <1>12, Sizes DEF dump_stack
    <2>2. sp \in Dumped
      BY <2>1 DEF Dumped
    <2> QED BY <1>2, <1>12, <2>2 DEF dump_stack, TypeOK, PagesOK, PhaseOK
  <1>13. CASE DumpNext
    <2>1. at \in Dumped /\ at \in Address /\ mread(at)
      BY <1>13 DEF DumpNext, TypeOK, Address
    <2>2. CASE at + 1 < RamStart
      <3>1. PICK sp \in Stacks : at \in sp .. RamStart - 1
        BY <2>1 DEF Dumped
      <3>2. at + 1 \in sp .. RamStart - 1
        BY <2>2, <3>1, DumpedBelow, Sizes
      <3>3. at + 1 \in Dumped
        BY <3>2 DEF Dumped
      <3> QED BY <1>1, <1>13, <2>1, <2>2, <3>3 DEF DumpNext, TypeOK, PhaseOK
    <2>3. CASE ~(at + 1 < RamStart)
      BY <1>1, <1>13, <2>1, <2>3 DEF DumpNext, TypeOK, PhaseOK
    <2> QED BY <2>2, <2>3
  <1>14. CASE ms_power_on_reset
    <2>1. io' \in [SlotPort -> Byte] /\ PagesOK'
      BY <1>14 DEF ms_power_on_reset, Byte, PagesOK, Pages, SlotPort
    <2> QED BY <1>2, <1>14, <2>1 DEF ms_power_on_reset, TypeOK, PhaseOK
  <1> QED BY <1>3, <1>4, <1>5, <1>6, <1>7, <1>8, <1>9, <1>10, <1>11, <1>12, <1>13, <1>14
          DEF Next, Cpu, Debugger

LEMMA StutterOK == TInv /\ UNCHANGED vars => TInv' /\ UNCHANGED flash
  BY DEF TInv, TypeOK, PagesOK, vars, flash, Chip!TypeOK

LEMMA HistoryOnly == [HNext]_hall => [Next]_vars
  <1> SUFFICES ASSUME HNext PROVE Next
    BY DEF hall
  <1>1. CASE HRead
    BY <1>1 DEF HRead, Next, Cpu
  <1>2. CASE HStore
    BY <1>2 DEF HStore, Next, Cpu
  <1>3. CASE HDebugger
    BY <1>3 DEF HDebugger, Next, Debugger
  <1>4. CASE HPowerOff
    BY <1>4 DEF HPowerOff, Next, Cpu
  <1>5. CASE HOther
    BY <1>5 DEF HOther, Next, Cpu, Debugger
  <1> QED BY <1>1, <1>2, <1>3, <1>4, <1>5 DEF HNext

LEMMA TStep == TInv /\ [HNext]_hall => TInv' /\ [Chip!Next]_flash
  BY Step, StutterOK, HistoryOnly

(* Type correctness, in every reachable state of every instance.           *)
THEOREM TypeCorrect == HSpec => []TypeOK
  <1>1. HInit => TInv
    BY TInit DEF HInit
  <1>2. TInv => TypeOK
    BY DEF TInv
  <1> QED BY <1>1, <1>2, TStep, PTL DEF HSpec, hall

(* All the bus does to the chip is to read and write its cells.            *)
THEOREM BusKeepsChip == HSpec => ChipIsDataflash
  <1>1. HInit => TInv /\ Chip!Init
    BY TInit DEF HInit, Init
  <1>2. flash = Chip!vars
    BY DEF flash, Chip!vars
  <1>3. TInv /\ [HNext]_hall => TInv' /\ [Chip!Next]_Chip!vars
    BY TStep, <1>2 DEF flash, Chip!vars
  <1> QED BY <1>1, <1>3, PTL DEF HSpec, hall, ChipIsDataflash, Chip!Spec

-----------------------------------------------------------------------------
(* The windows.                                                            *)

(* The firmware and the code mean the same by an address.                  *)
LEMMA SameDecoding ==
  ASSUME NEW a \in Address
  PROVE  Meant(a) = <<Device(a), Page(a), Offset(a)>>
  <1>1. a \in Nat /\ a < 65536
    BY Addresses, Sizes DEF Word
  <1>2. \/ a < 16384 /\ Slot(a) = 0 /\ Offset(a) = a
        \/ a >= 16384 /\ a < 32768 /\ Slot(a) = 1 /\ Offset(a) = a - 16384
        \/ a >= 32768 /\ a < 49152 /\ Slot(a) = 2 /\ Offset(a) = a - 32768
        \/ a >= 49152 /\ Slot(a) = 3 /\ Offset(a) = a - 49152
    BY <1>1, Sizes DEF Slot, Offset
  <1>3. Slot(a) = 0 \/ Slot(a) = 1 \/ Slot(a) = 2 \/ Slot(a) = 3
    BY <1>2
  <1>4. CASE Slot(a) = 0
    BY <1>1, <1>2, <1>4 DEF Meant, Device, Page
  <1>5. CASE Slot(a) = 1
    BY <1>1, <1>2, <1>5 DEF Meant, Device, Page
  <1>6. CASE Slot(a) = 2
    BY <1>1, <1>2, <1>6 DEF Meant, Device, Page
  <1>7. CASE Slot(a) = 3
    BY <1>1, <1>2, <1>7 DEF Meant, Device, Page
  <1> QED BY <1>3, <1>4, <1>5, <1>6, <1>7

Linear(place) == place[2] + SlotSize * place[1]

LEMMA PlaceOf ==
  ASSUME TInv, NEW a \in Address
  PROVE  RamPlace(a) \in RamPlaces /\ Linear(RamPlace(a)) = Absolute(a)
  <1>1. RamPlace(a) = <<Page(a), Offset(a)>>
    BY SameDecoding DEF RamPlace
  <1>2. Page(a) \in Pages
    BY Decoded DEF TInv
  <1> QED BY <1>1, <1>2 DEF RamPlaces, Linear, Absolute

(* Different places are different cells.                                   *)
LEMMA PlacesApart ==
  ASSUME NEW p \in RamPlaces, NEW q \in RamPlaces, Linear(p) = Linear(q)
  PROVE  p = q
  <1>1. PICK pp \in Pages, pa \in Address : p = <<pp, Offset(pa)>>
    BY DEF RamPlaces
  <1>2. PICK qp \in Pages, qa \in Address : q = <<qp, Offset(qa)>>
    BY DEF RamPlaces
  <1>3. pp \in Nat /\ qp \in Nat /\ pa \in Nat /\ qa \in Nat
    BY PagesAreBytes, Addresses DEF Byte, Word
  <1>4. Offset(pa) \in Nat /\ Offset(pa) < 16384 /\ Offset(qa) \in Nat /\ Offset(qa) < 16384
    BY <1>3, Sizes DEF Offset
  <1>5. Offset(pa) + 16384 * pp = Offset(qa) + 16384 * qp
    BY <1>1, <1>2, Sizes DEF Linear
  <1>6. pp = qp
    BY <1>3, <1>4, <1>5
  <1>7. Offset(pa) = Offset(qa)
    BY <1>3, <1>4, <1>5, <1>6
  <1> QED BY <1>1, <1>2, <1>6, <1>7

\* Every byte the bystander knows is in RAM, in its place.
RamKnown ==
  /\ stored \in [RamPlaces -> Byte \cup {Unknown}]
  /\ \A place \in RamPlaces : stored[place] # Unknown =>
       Linear(place) \in RamCells /\ ram[Linear(place)] = stored[place]

LEMMA KnownStep ==
  ASSUME TInv, RamKnown, [HNext]_hall
  PROVE  RamKnown'
  <1>1. ASSUME UNCHANGED <<ram, stored>> PROVE RamKnown'
    BY <1>1 DEF RamKnown
  <1>2. CASE UNCHANGED hall
    BY <1>1, <1>2 DEF hall, vars, hvars
  <1>3. CASE HRead
    BY <1>1, <1>3 DEF HRead, Fetch, Load, mread, Heard
  <1>4. CASE HStore
    <2>1. PICK a \in Stores, val \in Val : 
            /\ Store(a, val)
            /\ stored' = IF Meant(a)[1] = RAM
                         THEN [stored EXCEPT ![RamPlace(a)] = val] ELSE stored
      BY <1>4 DEF HStore
    <2>2. a \in Address /\ mwrite(a, val) /\ val \in Byte /\ val # Unknown
      BY <2>1, CodeIsAddress, ValueAssumption DEF Store, Byte, Unknown
    <2>3. Meant(a)[1] = Device(a)
      BY <2>2, SameDecoding
    <2>4. CASE Device(a) = RAM
      <3>1. stored' = [stored EXCEPT ![RamPlace(a)] = val]
        BY <2>1, <2>3, <2>4
      <3>2. ram' = [ram EXCEPT ![Linear(RamPlace(a))] = val]
        BY <2>2, <2>4, PlaceOf DEF mwrite
      <3>3. RamPlace(a) \in RamPlaces /\ Linear(RamPlace(a)) \in RamCells
        BY <2>2, <2>4, PlaceOf, Decoded DEF mwrite, TInv
      <3>4. stored' \in [RamPlaces -> Byte \cup {Unknown}]
        BY <3>1, <2>2 DEF RamKnown
      <3>5. ASSUME NEW place \in RamPlaces, stored'[place] # Unknown
            PROVE  Linear(place) \in RamCells /\ ram'[Linear(place)] = stored'[place]
        <4>1. CASE place = RamPlace(a)
          BY <4>1, <3>1, <3>2, <3>3 DEF RamKnown, TInv, TypeOK
        <4>2. CASE place # RamPlace(a)
          <5>1. Linear(place) # Linear(RamPlace(a))
            BY <4>2, <3>3, PlacesApart
          <5>2. stored'[place] = stored[place]
            BY <3>1, <4>2 DEF RamKnown
          <5> QED BY <3>2, <3>5, <5>1, <5>2 DEF RamKnown, TInv, TypeOK
        <4> QED BY <4>1, <4>2
      <3> QED BY <3>4, <3>5 DEF RamKnown, Linear
    <2>5. CASE Device(a) # RAM
      BY <1>1, <2>1, <2>2, <2>3, <2>5 DEF mwrite
    <2> QED BY <2>4, <2>5
  <1>5. CASE HDebugger
    BY <1>1, <1>5 DEF HDebugger, Disassemble, DisassembleMore, md, DumpNext, mread, Disturbed
  <1>6. CASE HPowerOff
    BY <1>6 DEF HPowerOff, RamKnown
  <1>7. CASE HOther
    BY <1>1, <1>7 DEF HOther, hvars, SliceBegins, InstructionEnds, ms_power_on_reset,
       OutSlot, dump_stack
  <1> QED BY <1>2, <1>3, <1>4, <1>5, <1>6, <1>7 DEF HNext

LEMMA KnownShown == TInv /\ RamKnown => WindowsAgree
  <1> SUFFICES ASSUME TInv, RamKnown, NEW a \in Address, Meant(a)[1] = RAM,
                      stored[RamPlace(a)] # Unknown
               PROVE  Shown(a) = stored[RamPlace(a)]
    BY DEF WindowsAgree
  <1>1. Device(a) = RAM
    BY SameDecoding
  <1>2. ram[Linear(RamPlace(a))] = stored[RamPlace(a)]
    BY PlaceOf DEF RamKnown
  <1> QED BY <1>1, <1>2, PlaceOf DEF Shown, ram_read

(* What was stored through one window is read through every other.         *)
THEOREM RamThroughWindows == HSpec => []WindowsAgree
  <1>1. HInit => TInv /\ RamKnown
    BY TInit DEF HInit, RamKnown
  <1>2. TInv /\ RamKnown /\ [HNext]_hall => (TInv /\ RamKnown)'
    BY TStep, KnownStep
  <1> QED BY <1>1, <1>2, KnownShown, PTL DEF HSpec, hall

-----------------------------------------------------------------------------
(* The guard sequences.  While no debugger read has come in between, the   *)
(* firmware's counts are those of a bystander at the chip itself, so the   *)
(* invariant of the chip's own proof holds of them.                        *)

GuardInv ==
  /\ clean \in BOOLEAN
  /\ clean => ChipProofs!Inv /\ GuardHeard
  /\ ~clean => unlockRun = 0 /\ lockRun = 0 /\ quiet = 0

\* What no part of the guard's story depends on.
guard == <<flash, unlockRun, lockRun, quiet, clean>>

LEMMA GuardStutter == GuardInv /\ UNCHANGED guard => GuardInv'
  BY DEF GuardInv, guard, flash, GuardHeard, Run, Chip!WriteAllowed,
     ChipProofs!Inv, ChipProofs!TypeOK, ChipProofs!HistoryOK, ChipProofs!AtBase,
     ChipProofs!SequenceTracked, ChipProofs!Run, ChipProofs!WriteAllowed

LEMMA GuardInit == HInit => GuardInv
  <1> SUFFICES ASSUME HInit PROVE GuardInv
    OBVIOUS
  <1>1. ChipProofs!HInit
    BY DEF HInit, Init, Chip!Init, ChipProofs!HInit, ChipProofs!Init, Chip!Addr, ChipProofs!Addr
  <1>2. ChipProofs!Inv
    BY <1>1, ChipAssumptions, ChipProofs!InvInit
  <1> QED BY <1>2 DEF HInit, GuardInv, GuardHeard, Sdp!Full

(* The chip compares thirteen bits, so the page makes no difference.       *)
LEMMA SameBits ==
  ASSUME TInv, NEW a \in Address
  PROVE  Meant(a)[3] % 8192 = Absolute(a) % 8192
  <1>1. Meant(a)[3] = Offset(a)
    BY SameDecoding
  <1>2. Page(a) \in Nat /\ a \in Nat
    BY Decoded, PagesAreBytes, Addresses DEF TInv, Byte, Word
  <1>3. Offset(a) \in Nat
    BY <1>2, Sizes DEF Offset
  <1>4. Absolute(a) = Offset(a) + 16384 * Page(a)
    BY Sizes DEF Absolute
  <1>5. \A o, p \in Nat : (o + 16384 * p) % 8192 = o % 8192
    BY SMT
  <1> QED BY <1>1, <1>2, <1>3, <1>4, <1>5

(* A read of the chip the firmware counts.                                 *)
LEMMA CountedRead ==
  ASSUME TInv, GuardInv, NEW a \in Address, mread(a), Heard(a), InFlash(a), clean
  PROVE  GuardInv'
  <1>1. Device(a) = DF /\ Absolute(a) \in DfCells
    BY SameDecoding, Decoded DEF InFlash, mread, TInv
  <1>2. Chip!df_read(Absolute(a))
    BY <1>1 DEF mread
  <1>3. ChipProofs!HRead(Absolute(a))
    <2>1. ChipProofs!df_read(Absolute(a))
      BY <1>2, SameRead
    <2>2. Meant(a)[3] % 8192 = Absolute(a) % 8192
      BY SameBits
    <2>3. /\ unlockRun' = Sdp!Spelled(Sdp!UnlockSeq, unlockRun, Meant(a)[3])
          /\ lockRun' = Sdp!Spelled(Sdp!LockSeq, lockRun, Meant(a)[3])
          /\ quiet' = IF Chip!WriteAllowed' # Chip!WriteAllowed THEN 0
                      ELSE IF quiet > Sdp!Full THEN quiet ELSE quiet + 1
      BY DEF Heard
    <2>4. \A seq, n : Sdp!Spelled(seq, n, Meant(a)[3])
                        = ChipProofs!Sdp!Spelled(seq, n, Absolute(a))
      BY <2>2 DEF Sdp!Spelled, ChipProofs!Sdp!Spelled, Sdp!Full, ChipProofs!Sdp!Full
    <2>5. Sdp!UnlockSeq = ChipProofs!Sdp!UnlockSeq /\ Sdp!LockSeq = ChipProofs!Sdp!LockSeq
      BY DEF Sdp!UnlockSeq, ChipProofs!Sdp!UnlockSeq, Sdp!LockSeq, ChipProofs!Sdp!LockSeq
    <2> QED BY <2>1, <2>3, <2>4, <2>5
        DEF ChipProofs!HRead, Chip!WriteAllowed, ChipProofs!WriteAllowed,
            Sdp!Full, ChipProofs!Sdp!Full
  <1>4. ChipProofs!Inv
    BY DEF GuardInv
  <1>5. ChipProofs!Inv'
    BY <1>1, <1>3, <1>4, ChipAssumptions, ChipProofs!ReadKeepsTrack
  <1>6. ChipProofs!Sdp!Read(Absolute(a))
    BY <1>1, <1>3, <1>4, ChipAssumptions, ChipProofs!RefinesRead
  <1>7. GuardHeard'
    <2> SUFFICES ASSUME quiet' = 7 PROVE Run' # 7
      BY DEF GuardHeard, Sdp!Full
    <2>1. Chip!WriteAllowed' = Chip!WriteAllowed
      BY <1>6 DEF ChipProofs!Sdp!Read, Chip!WriteAllowed, ChipProofs!WriteAllowed
    <2> QED BY <1>6, <2>1 DEF ChipProofs!Sdp!Read, ChipProofs!Sdp!Full, Run,
                             Chip!WriteAllowed, ChipProofs!WriteAllowed
  <1>8. clean' = clean
    BY DEF Heard
  <1> QED BY <1>5, <1>7, <1>8 DEF GuardInv

(* After a write the chip and every count start afresh.                    *)
LEMMA CountedWrite ==
  ASSUME TInv, TInv', NEW a \in Address, NEW val \in Val, mwrite(a, val),
         Device(a) = DF,
         unlockRun' = 0 /\ lockRun' = 0 /\ quiet' = 0 /\ clean' = TRUE
  PROVE  GuardInv'
  <1>1. ChipProofs!TypeOK /\ ChipProofs!TypeOK'
    BY SameTypeOK DEF TInv, TypeOK, ChipProofs!TypeOK, Chip!TypeOK, ChipProofs!Addr,
       Chip!Addr, ChipProofs!Byte, Chip!Byte
  <1>2. wp' = ChipProofs!ClearSequence(wp)
    BY DEF mwrite, Chip!df_write, Chip!ClearSequence, ChipProofs!ClearSequence
  <1>3. ChipProofs!ClearSequence(wp) = IF ChipProofs!WriteAllowed THEN \h88 ELSE 0
    BY <1>1, ChipAssumptions, ChipProofs!ClearMoves
  <1>4. wp' % 8 = 0
    BY <1>2, <1>3, SMT
  <1> QED BY <1>1, <1>4 DEF GuardInv, GuardHeard, Sdp!Full, ChipProofs!Inv,
             ChipProofs!HistoryOK, ChipProofs!AtBase, ChipProofs!SequenceTracked

LEMMA GuardStep ==
  ASSUME TInv, TInv', GuardInv, [HNext]_hall
  PROVE  GuardInv'
  <1>1. CASE UNCHANGED hall
    BY <1>1, GuardStutter DEF hall, vars, hvars, guard
  <1>2. ASSUME NEW a \in Address, mread(a), Heard(a) PROVE GuardInv'
    <2>1. CASE InFlash(a) /\ clean
      BY <1>2, <2>1, CountedRead
    <2>2. CASE ~clean
      BY <1>2, <2>2 DEF GuardInv, Heard
    <2>3. CASE ~InFlash(a)
      <3>1. Device(a) # DF
        BY <2>3, SameDecoding DEF InFlash
      <3> QED BY <1>2, <2>3, <3>1, GuardStutter DEF Heard, mread, guard
    <2> QED BY <2>1, <2>2, <2>3 DEF GuardInv
  <1>3. ASSUME NEW a \in Address, mread(a), Disturbed(a) PROVE GuardInv'
    <2>1. CASE InFlash(a)
      BY <1>3, <2>1 DEF Disturbed, GuardInv
    <2>2. CASE ~InFlash(a)
      <3>1. Device(a) # DF
        BY <2>2, SameDecoding DEF InFlash
      <3> QED BY <1>3, <2>2, <3>1, GuardStutter DEF Disturbed, mread, guard
    <2> QED BY <2>1, <2>2
  <1>4. CASE HRead
    BY <1>2, <1>4, CodeIsAddress DEF HRead, Fetch, Load
  <1>5. CASE HStore
    <2>1. PICK a \in Stores, val \in Val :
            /\ Store(a, val)
            /\ IF InFlash(a)
                 THEN unlockRun' = 0 /\ lockRun' = 0 /\ quiet' = 0 /\ clean' = TRUE
                 ELSE UNCHANGED <<unlockRun, lockRun, quiet, clean>>
      BY <1>5 DEF HStore
    <2>2. a \in Address /\ mwrite(a, val)
      BY <2>1, CodeIsAddress DEF Store
    <2>3. Device(a) = DF <=> InFlash(a)
      BY <2>2, SameDecoding DEF InFlash
    <2>4. CASE InFlash(a)
      BY <2>1, <2>2, <2>3, <2>4, CountedWrite
    <2>5. CASE ~InFlash(a)
      BY <2>1, <2>2, <2>3, <2>5, GuardStutter DEF mwrite, guard
    <2> QED BY <2>4, <2>5
  <1>6. CASE HDebugger
    <2>1. DumpNext => at \in Address /\ mread(at)
      BY DEF DumpNext, TInv, TypeOK, Address
    <2> QED BY <1>3, <1>6, <2>1, CodeIsAddress DEF HDebugger, Disassemble, DisassembleMore, md
  <1>7. CASE HPowerOff
    BY <1>7, GuardStutter DEF HPowerOff, OutPowerOff, guard
  <1>8. CASE HOther
    BY <1>8, GuardStutter DEF HOther, hvars, guard, SliceBegins, InstructionEnds,
       ms_power_on_reset, OutSlot, dump_stack
  <1> QED BY <1>1, <1>4, <1>5, <1>6, <1>7, <1>8 DEF HNext

(* Only a debugger's reads can keep the guard sequence from being heard.   *)
THEOREM GuardAlwaysHeard == HSpec => []GuardHeard
  <1>1. HInit => TInv /\ GuardInv
    BY TInit, GuardInit DEF HInit
  <1>2. TInv /\ GuardInv /\ [HNext]_hall => (TInv /\ GuardInv)'
    BY TStep, GuardStep
  <1>3. GuardInv => GuardHeard
    BY DEF GuardInv, GuardHeard, Sdp!Full
  <1> QED BY <1>1, <1>2, <1>3, PTL DEF HSpec, hall

=============================================================================
