-------------------------- MODULE DataflashProofs --------------------------
(***************************************************************************)
(* Proofs about the data flash, for every set of addresses and bytes.      *)
(***************************************************************************)
EXTENDS DataflashSdp, TLAPS

hall == <<vars, hvars>>

-----------------------------------------------------------------------------
(* Every step of the chip with its bystander is a step of the chip.        *)
LEMMA HistoryOnly == [HNext]_hall => [Next]_vars
  BY DEF hall, HNext, HRead, HWrite, Next, vars

(* Where a well-typed tracking byte can stand.                             *)
LEMMA Position ==
  ASSUME wp \in 0 .. 6 \cup \h88 .. \h8E
  PROVE  /\ wp % 8 \in 0 .. 6
         /\ ~WriteAllowed => wp % 16 = wp % 8 /\ wp = wp % 8
         /\ WriteAllowed => wp % 16 = 8 + (wp % 8) /\ wp = \h88 + (wp % 8)
  BY SMT DEF WriteAllowed

(* What df_read does to the tracking byte, in terms of the position in the *)
(* awaited sequence.                                                       *)
LEMMA ReadMoves ==
  ASSUME TypeOK, NEW a \in ReadAddr, df_read(a)
  PROVE  \/ /\ NextInSequence(a) /\ wp % 8 < 6
            /\ wp' = wp + 1
         \/ /\ NextInSequence(a) /\ wp % 8 = 6
            /\ wp' = IF WriteAllowed THEN 0 ELSE \h88
         \/ /\ ~NextInSequence(a)
            /\ wp' = IF WriteAllowed THEN \h88 ELSE 0
  <1>1. wp \in 0 .. 6 \cup \h88 .. \h8E
    BY DEF TypeOK
  <1>2. CASE NextInSequence(a)
    BY <1>1, <1>2, Position, SMT DEF df_read, Advance, SetWriteAllowed, WriteAllowed
  <1>3. CASE ~NextInSequence(a)
    BY <1>1, <1>3, Position, SMT DEF df_read, ClearSequence, WriteAllowed
  <1> QED BY <1>2, <1>3

LEMMA ClearMoves ==
  ASSUME TypeOK
  PROVE  ClearSequence(wp) = IF WriteAllowed THEN \h88 ELSE 0
  BY Position, SMT DEF TypeOK, ClearSequence, WriteAllowed

(* The array keeps its type under every command.                           *)
LEMMA EffectType ==
  ASSUME TypeOK, NEW a \in WriteAddr, NEW v \in Val
  PROVE  Effect(a, v) \in [Addr -> Byte]
  BY ByteAssumption DEF TypeOK, Effect, Addr, Byte, ErasedByte

-----------------------------------------------------------------------------

LEMMA TypeInit == Init => TypeOK
  BY ByteAssumption DEF Init, TypeOK, Byte

LEMMA TypeStep == TypeOK /\ [Next]_vars => TypeOK'
  <1> SUFFICES ASSUME TypeOK, [Next]_vars PROVE TypeOK'
    OBVIOUS
  <1>1. ASSUME NEW a \in ReadAddr, df_read(a) PROVE TypeOK'
    <2>1. wp' \in 0 .. 6 \cup \h88 .. \h8E
      BY <1>1, ReadMoves, Position, SMT DEF TypeOK
    <2> QED BY <1>1, <2>1 DEF TypeOK, df_read
  <1>2. ASSUME NEW a \in WriteAddr, NEW v \in Val, df_write(a, v) PROVE TypeOK'
    <2>1. wp' \in 0 .. 6 \cup \h88 .. \h8E
      BY <1>2, ClearMoves, SMT DEF df_write
    <2>2. CASE FirstCycle(v)
      BY <1>2, <2>1, <2>2, ByteAssumption DEF TypeOK, FirstCycle, Byte
    <2>3. CASE SecondCycle(a, v)
      BY <2>1, <2>3, EffectType DEF TypeOK, SecondCycle
    <2> QED BY <1>2, <2>2, <2>3 DEF df_write
  <1>3. CASE UNCHANGED vars
    BY <1>3 DEF vars, TypeOK
  <1> QED BY <1>1, <1>2, <1>3 DEF Next

(* Type correctness: the protection bit and the half of the sequence array *)
(* the chip is waiting in agree in every reachable state.                  *)
THEOREM TypeCorrect == HSpec => []TypeOK
  <1>1. HInit => TypeOK
    BY TypeInit DEF HInit
  <1>2. TypeOK /\ [HNext]_hall => TypeOK'
    BY TypeStep, HistoryOnly
  <1> QED BY <1>1, <1>2, PTL DEF HSpec, hall

-----------------------------------------------------------------------------
(* The guard sequence the chip is waiting for.                             *)
Awaited == IF WriteAllowed THEN Sdp!LockSeq ELSE Sdp!UnlockSeq

(* The half of df_unlock_lock_arr the tracking byte points into is the     *)
(* awaited sequence.                                                       *)
LEMMA NextIsAwaited ==
  ASSUME TypeOK, NEW a
  PROVE  NextInSequence(a) <=> a % \h2000 = Awaited[(wp % 8) + 1]
  <1>1. wp % 8 \in 0 .. 6
    BY Position DEF TypeOK
  <1>2. df_unlock_lock_arr[(wp % 16) + 1] = Awaited[(wp % 8) + 1]
    <2>1. CASE WriteAllowed
      <3>1. wp % 16 = 8 + (wp % 8)
        BY <2>1, Position DEF TypeOK
      <3> QED BY <1>1, <2>1, <3>1, SMT DEF Awaited, df_unlock_lock_arr, Sdp!LockSeq
    <2>2. CASE ~WriteAllowed
      <3>1. wp % 16 = wp % 8
        BY <2>2, Position DEF TypeOK
      <3> QED BY <1>1, <2>2, <3>1, SMT DEF Awaited, df_unlock_lock_arr, Sdp!UnlockSeq
    <2> QED BY <2>1, <2>2
  <1> QED BY <1>2 DEF NextInSequence

(* No address occurs twice in a guard sequence.                            *)
LEMMA NoRepeats ==
  ASSUME NEW i \in 1 .. 7, NEW j \in 1 .. 7, Awaited[i] = Awaited[j]
  PROVE  i = j
  <1>1. CASE WriteAllowed
    BY <1>1, SMT DEF Awaited, Sdp!LockSeq
  <1>2. CASE ~WriteAllowed
    BY <1>2, SMT DEF Awaited, Sdp!UnlockSeq
  <1> QED BY <1>1, <1>2

-----------------------------------------------------------------------------
(* SequenceTracked is inductive together with the types of the history and *)
(* the fact that the chip stands at a base position after a write or a     *)
(* change of the lock.                                                     *)
HistoryOK ==
  /\ unlockRun \in 0 .. 7
  /\ lockRun \in 0 .. 7
  /\ quiet \in 0 .. 8

AtBase == quiet = 0 => wp % 8 = 0

Inv == TypeOK /\ HistoryOK /\ AtBase /\ SequenceTracked

LEMMA InvInit == HInit => Inv
  <1> SUFFICES ASSUME HInit PROVE Inv
    OBVIOUS
  <1>1. TypeOK
    BY TypeInit DEF HInit
  <1>2. wp % 8 = 0
    BY SMT DEF HInit, Init
  <1> QED BY <1>1, <1>2, SMT DEF HInit, Inv, HistoryOK, AtBase, SequenceTracked

(* The bystander's counters after a read, in terms of the awaited one.     *)
LEMMA RunMoves ==
  ASSUME TypeOK, HistoryOK, NEW a \in ReadAddr, HRead(a)
  PROVE  /\ HistoryOK'
         /\ (WriteAllowed' <=> WriteAllowed) =>
              Run' = Sdp!Spelled(Awaited, Run, a)
  <1>1. unlockRun' \in 0 .. 7 /\ lockRun' \in 0 .. 7
    BY SMT DEF HRead, HistoryOK, Sdp!Spelled, Sdp!Full
  <1>2. quiet' \in 0 .. 8
    BY SMT DEF HRead, HistoryOK, Sdp!Full
  <1>3. ASSUME WriteAllowed' <=> WriteAllowed
        PROVE  Run' = Sdp!Spelled(Awaited, Run, a)
    <2>1. CASE WriteAllowed
      BY <1>3, <2>1 DEF HRead, Run, Awaited
    <2>2. CASE ~WriteAllowed
      BY <1>3, <2>2 DEF HRead, Run, Awaited
    <2> QED BY <2>1, <2>2
  <1> QED BY <1>1, <1>2, <1>3 DEF HistoryOK

LEMMA ReadKeepsTrack ==
  ASSUME Inv, NEW a \in ReadAddr, HRead(a)
  PROVE  Inv'
  <1> USE DEF Inv
  <1>r. df_read(a)
    BY DEF HRead
  <1>1. TypeOK'
    BY <1>r, TypeStep DEF Next
  <1>2. HistoryOK'
    BY RunMoves
  <1>3. wp % 8 \in 0 .. 6
    BY Position DEF TypeOK
  <1>4. Run \in 0 .. 7
    BY DEF HistoryOK, Run
  <1>5. CASE NextInSequence(a) /\ wp % 8 < 6
    <2>1. wp' = wp + 1 /\ wp' % 8 = (wp % 8) + 1 /\ (WriteAllowed' <=> WriteAllowed)
      BY <1>5, <1>r, ReadMoves, Position, SMT DEF TypeOK, WriteAllowed
    <2>2. a % \h2000 = Awaited[(wp % 8) + 1]
      BY <1>5, NextIsAwaited
    <2>3. Run' = (wp % 8) + 1
      <3>1. Run' = Sdp!Spelled(Awaited, Run, a)
        BY <2>1, RunMoves
      <3>2. CASE wp % 8 > 0
        <4>1. Run = wp % 8
          BY <3>2 DEF SequenceTracked
        <4> QED BY <3>1, <2>2, <4>1, <1>5, SMT DEF Sdp!Spelled, Sdp!Full
      <3>3. CASE wp % 8 = 0
        <4>1. a % \h2000 = Awaited[1]
          BY <2>2, <3>3
        <4>2. Run < 7 /\ a % \h2000 = Awaited[Run + 1] => Run = 0
          <5> SUFFICES ASSUME Run < 7, Awaited[1] = Awaited[Run + 1] PROVE Run = 0
            BY <4>1
          <5>1. Run + 1 \in 1 .. 7
            BY <1>4
          <5>2. 1 \in 1 .. 7
            OBVIOUS
          <5>3. 1 = Run + 1
            BY <5>1, <5>2, NoRepeats
          <5> QED BY <5>3, <1>4
        <4> QED BY <3>1, <3>3, <4>1, <4>2, <1>4, SMT DEF Sdp!Spelled, Sdp!Full
      <3> QED BY <3>2, <3>3, <1>3
    <2>4. quiet' # 0
      BY <2>1, SMT DEF WriteAllowed, HRead, HistoryOK, Sdp!Full
    <2> QED BY <1>1, <1>2, <2>1, <2>3, <2>4 DEF AtBase, SequenceTracked
  <1>6. CASE NextInSequence(a) /\ wp % 8 = 6
    <2>1. wp' % 8 = 0 /\ (WriteAllowed' <=> ~WriteAllowed)
      BY <1>6, <1>r, ReadMoves, SMT DEF WriteAllowed
    <2>2. quiet' = 0
      BY <2>1 DEF HRead
    <2> QED BY <1>1, <1>2, <2>1, <2>2 DEF AtBase, SequenceTracked
  <1>7. CASE ~NextInSequence(a)
    <2>1. wp' % 8 = 0 /\ (WriteAllowed' <=> WriteAllowed)
      BY <1>7, <1>r, ReadMoves, SMT DEF WriteAllowed
    <2>2. a % \h2000 # Awaited[(wp % 8) + 1]
      BY <1>7, NextIsAwaited
    <2>3. ASSUME quiet' \in 1 .. 6, Run' = quiet' PROVE FALSE
      <3>1. quiet' = quiet + 1 /\ quiet \in 0 .. 5
        BY <2>1, <2>3, SMT DEF HRead, HistoryOK, Sdp!Full
      <3>2. Run' = Sdp!Spelled(Awaited, Run, a)
        BY <2>1, RunMoves
      <3>3. CASE Run < 7 /\ a % \h2000 = Awaited[Run + 1]
        <4>1. Run = quiet
          BY <2>3, <3>1, <3>2, <3>3, <1>4, SMT DEF Sdp!Spelled, Sdp!Full
        <4>2. wp % 8 = quiet
          BY <4>1, <3>1 DEF AtBase, SequenceTracked
        <4> QED BY <4>1, <4>2, <2>2, <3>3
      <3>4. CASE ~(Run < 7 /\ a % \h2000 = Awaited[Run + 1])
        <4>1. quiet = 0 /\ a % \h2000 = Awaited[1]
          BY <2>3, <3>1, <3>2, <3>4, SMT DEF Sdp!Spelled, Sdp!Full
        <4>2. wp % 8 = 0
          BY <4>1 DEF AtBase
        <4> QED BY <4>1, <4>2, <2>2
      <3> QED BY <3>3, <3>4
    <2> QED BY <1>1, <1>2, <2>1, <2>3, SMT DEF AtBase, SequenceTracked
  <1> QED BY <1>3, <1>5, <1>6, <1>7

LEMMA WriteKeepsTrack ==
  ASSUME Inv, NEW a \in WriteAddr, NEW v \in Val, HWrite(a, v)
  PROVE  Inv'
  <1> USE DEF Inv
  <1>1. TypeOK'
    BY TypeStep DEF HWrite, Next
  <1>2. wp' % 8 = 0
    BY ClearMoves, SMT DEF HWrite, df_write
  <1> QED BY <1>1, <1>2, SMT DEF HWrite, HistoryOK, AtBase, SequenceTracked

LEMMA InvStep == Inv /\ [HNext]_hall => Inv'
  <1> SUFFICES ASSUME Inv, [HNext]_hall PROVE Inv'
    OBVIOUS
  <1>1. CASE UNCHANGED hall
    <2>1. TypeOK'
      BY <1>1 DEF hall, vars, Inv, TypeOK
    <2> QED BY <1>1, <2>1 DEF hall, vars, hvars, Inv, HistoryOK, AtBase,
             SequenceTracked, Run, WriteAllowed
  <1> QED BY <1>1, ReadKeepsTrack, WriteKeepsTrack DEF HNext

(* A non-zero position is the length of the awaited sequence just read,    *)
(* and a sequence begun from a standstill is never lost track of.          *)
THEOREM Tracked == HSpec => []SequenceTracked
  <1>1. Inv => SequenceTracked
    BY DEF Inv
  <1> QED BY <1>1, InvInit, InvStep, PTL DEF HSpec, hall

-----------------------------------------------------------------------------
(* The refinement: a read of the emulated chip is a read of the promised   *)
(* one, a write is a write.                                                *)
pending == IF cycle = 0 THEN 256 ELSE cmd

LEMMA RefinesInit == HInit => Sdp!Init
  <1> SUFFICES ASSUME HInit PROVE Sdp!Init
    OBVIOUS
  <1>1. WriteAllowed = FALSE
    BY SMT DEF HInit, Init, WriteAllowed
  <1> QED BY <1>1 DEF HInit, Init, Sdp!Init, Sdp!NoCmd, Addr

LEMMA RefinesRead ==
  ASSUME Inv, NEW a \in ReadAddr, HRead(a)
  PROVE  Sdp!Read(a)
  <1> USE DEF Inv
  <1>r. df_read(a)
    BY DEF HRead
  <1>0. WriteAllowed \in BOOLEAN /\ WriteAllowed' \in BOOLEAN
    BY DEF WriteAllowed
  <1>1. wp % 8 \in 0 .. 6 /\ Run \in 0 .. 7
    BY Position DEF TypeOK, HistoryOK, Run
  <1>2. \/ WriteAllowed' = WriteAllowed
        \/ WriteAllowed' = ~WriteAllowed /\ quiet' = 0
    BY <1>0 DEF HRead
  <1>3. ASSUME WriteAllowed' # WriteAllowed
        PROVE  IF WriteAllowed THEN lockRun' = 7 ELSE unlockRun' = 7
    <2>1. wp % 8 = 6 /\ NextInSequence(a)
      BY <1>3, <1>r, ReadMoves, Position, SMT DEF TypeOK, WriteAllowed
    <2>2. Run = 6 /\ a % \h2000 = Awaited[7]
      BY <2>1, NextIsAwaited, SMT DEF SequenceTracked
    <2> QED BY <2>2, SMT DEF HRead, Run, Awaited, Sdp!Spelled, Sdp!Full
  <1>4. ASSUME quiet' = 7
        PROVE  IF WriteAllowed THEN lockRun' # 7 ELSE unlockRun' # 7
    <2>1. WriteAllowed' = WriteAllowed /\ quiet = 6
      BY <1>4, SMT DEF HRead, HistoryOK, Sdp!Full, WriteAllowed
    <2>2. Run' = Sdp!Spelled(Awaited, Run, a)
      BY <2>1, RunMoves
    <2>3. Run' # 7
      <3> SUFFICES ASSUME Run' = 7 PROVE FALSE
        OBVIOUS
      <3>1. Run = 6 /\ a % \h2000 = Awaited[7]
        BY <2>2, <1>1, SMT DEF Sdp!Spelled, Sdp!Full
      <3>2. wp % 8 = 6
        BY <3>1, <2>1 DEF SequenceTracked
      <3>3. NextInSequence(a)
        BY <3>1, <3>2, NextIsAwaited
      <3> QED BY <3>2, <3>3, <2>1, <1>r, ReadMoves, Position, SMT DEF TypeOK, WriteAllowed
    <2> QED BY <2>1, <2>3 DEF Run
  <1>5. UNCHANGED <<df, pending>>
    BY <1>r DEF df_read, pending
  <1>6. \/ WriteAllowed' = WriteAllowed /\ quiet' = IF quiet > Sdp!Full THEN quiet ELSE quiet + 1
        \/ WriteAllowed' = ~WriteAllowed /\ quiet' = 0
    BY <1>2 DEF HRead
  <1>7. unlockRun' = Sdp!Spelled(Sdp!UnlockSeq, unlockRun, a)
        /\ lockRun' = Sdp!Spelled(Sdp!LockSeq, lockRun, a)
    BY DEF HRead
  <1> QED BY <1>0, <1>3, <1>4, <1>5, <1>6, <1>7 DEF Sdp!Read, Sdp!Full, pending

(* Two addresses lie in one sector exactly when Sector says so.            *)
LEMMA SectorBounds ==
  ASSUME NEW a \in Nat
  PROVE  /\ a \div \h100 \in Nat
         /\ a \in \h100 * (a \div \h100) .. \h100 * (a \div \h100) + \hFF
         /\ Sector(a) = \h100 * (a \div \h100) .. \h100 * (a \div \h100) + \hFF
  <1>1. a % \h100 = a - \h100 * (a \div \h100) /\ a % \h100 \in 0 .. \hFF
    BY SMT
  <1>2. a \div \h100 \in Nat
    BY SMT
  <1>3. a - (a % \h100) = \h100 * (a \div \h100)
    BY <1>1, <1>2, SMT
  <1> QED BY <1>1, <1>2, <1>3, SMT DEF Sector

LEMMA SameSector ==
  ASSUME NEW a \in Nat, NEW b \in Nat
  PROVE  b \in Sector(a) <=> b \div \h100 = a \div \h100
  <1>1. ASSUME NEW x \in Nat, NEW y \in Nat, b \in \h100 * y .. \h100 * y + \hFF
        PROVE  b \in \h100 * x .. \h100 * x + \hFF <=> y = x
    BY <1>1, SMT
  <1>2. PICK x \in Nat : x = a \div \h100 /\ Sector(a) = \h100 * x .. \h100 * x + \hFF
    BY SectorBounds
  <1>3. PICK y \in Nat : y = b \div \h100 /\ b \in \h100 * y .. \h100 * y + \hFF
    BY SectorBounds
  <1> QED BY <1>1, <1>2, <1>3

(* Effect, command by command.                                             *)
LEMMA EffectCases ==
  ASSUME NEW a, NEW v
  PROVE  /\ cmd = SectorErase /\ v = EraseConfirm => Effect(a, v) =
              [b \in Addr |-> IF b \in Sector(a) THEN ErasedByte ELSE df[b]]
         /\ cmd = ByteProgram => Effect(a, v) = [df EXCEPT ![a] = v]
         /\ cmd = ChipErase /\ v = ChipErase =>
              Effect(a, v) = [b \in Addr |-> ErasedByte]
         /\ ~ \/ cmd = SectorErase /\ v = EraseConfirm
              \/ cmd = ByteProgram
              \/ cmd = ChipErase /\ v = ChipErase
            => Effect(a, v) = df
  <1>1. SectorErase # ByteProgram /\ SectorErase # ChipErase /\ ByteProgram # ChipErase
    BY SMT DEF SectorErase, ByteProgram, ChipErase
  <1>2. ASSUME cmd = SectorErase, v = EraseConfirm
        PROVE  Effect(a, v) = [b \in Addr |-> IF b \in Sector(a) THEN ErasedByte ELSE df[b]]
    BY <1>1, <1>2, Zenon DEF Effect
  <1>3. ASSUME cmd = ByteProgram
        PROVE  Effect(a, v) = [df EXCEPT ![a] = v]
    BY <1>1, <1>3, Zenon DEF Effect
  <1>4. ASSUME cmd = ChipErase, v = ChipErase
        PROVE  Effect(a, v) = [b \in Addr |-> ErasedByte]
    BY <1>1, <1>4, Zenon DEF Effect
  <1>5. ASSUME ~(cmd = SectorErase /\ v = EraseConfirm), cmd # ByteProgram,
               ~(cmd = ChipErase /\ v = ChipErase)
        PROVE  Effect(a, v) = df
    BY <1>5, Zenon DEF Effect
  <1> QED BY <1>2, <1>3, <1>4, <1>5

(* What a completed command does to the array is within its reach.         *)
LEMMA EffectIsOutcome ==
  ASSUME TypeOK, NEW a \in WriteAddr, NEW v \in Val
  PROVE  Effect(a, v) = [b \in Addr |->
           IF Sdp!Touches(cmd, a, v, b) THEN Sdp!Outcome(cmd, v) ELSE df[b]]
  <1>1. \A b \in Addr : b \in Sector(a) <=> b \div \h100 = a \div \h100
    BY SameSector, AddrAssumption, SMT DEF Addr
  <1>2. df = [b \in Addr |-> df[b]] /\ a \in Addr
    BY DEF TypeOK, Addr
  <1>3. CASE cmd = SectorErase /\ v = EraseConfirm
    <2>1. \A b \in Addr : Sdp!Touches(cmd, a, v, b) <=> b \in Sector(a)
      BY <1>1, <1>3, SMT DEF Sdp!Touches, SectorErase, EraseConfirm
    <2>2. Sdp!Outcome(cmd, v) = ErasedByte
      BY <1>3, SMT DEF Sdp!Outcome, SectorErase, ErasedByte
    <2>3. Effect(a, v) = [b \in Addr |-> IF b \in Sector(a) THEN ErasedByte ELSE df[b]]
      BY <1>3, EffectCases
    <2> QED BY <2>1, <2>2, <2>3
  <1>4. CASE cmd = ByteProgram
    <2>1. \A b \in Addr : Sdp!Touches(cmd, a, v, b) <=> b = a
      BY <1>4, SMT DEF Sdp!Touches, ByteProgram
    <2>2. Sdp!Outcome(cmd, v) = v
      BY <1>4, SMT DEF Sdp!Outcome, ByteProgram
    <2>3. Effect(a, v) = [df EXCEPT ![a] = v]
      BY <1>4, EffectCases
    <2> QED BY <1>2, <2>1, <2>2, <2>3
  <1>5. CASE cmd = ChipErase /\ v = ChipErase
    <2>1. \A b \in Addr : Sdp!Touches(cmd, a, v, b)
      BY <1>5, SMT DEF Sdp!Touches, ChipErase
    <2>2. Sdp!Outcome(cmd, v) = ErasedByte
      BY <1>5, SMT DEF Sdp!Outcome, ChipErase, ErasedByte
    <2>3. Effect(a, v) = [b \in Addr |-> ErasedByte]
      BY <1>5, EffectCases
    <2> QED BY <2>1, <2>2, <2>3
  <1>6. CASE ~ \/ cmd = SectorErase /\ v = EraseConfirm
               \/ cmd = ByteProgram
               \/ cmd = ChipErase /\ v = ChipErase
    <2>1. \A b \in Addr : ~Sdp!Touches(cmd, a, v, b)
      BY <1>6, SMT DEF Sdp!Touches, SectorErase, EraseConfirm, ByteProgram, ChipErase
    <2>2. Effect(a, v) = df
      BY <1>6, EffectCases
    <2> QED BY <1>2, <2>1, <2>2
  <1> QED BY <1>3, <1>4, <1>5, <1>6

LEMMA RefinesWrite ==
  ASSUME Inv, NEW a \in WriteAddr, NEW v \in Val, HWrite(a, v)
  PROVE  Sdp!Write(a, v)
  <1> USE DEF Inv
  <1>w. df_write(a, v)
    BY DEF HWrite
  <1>1. UNCHANGED WriteAllowed
    BY <1>w, ClearMoves, SMT DEF df_write, WriteAllowed
  <1>2. v \in Byte
    BY ByteAssumption
  <1>3. CASE FirstCycle(v)
    <2>1. pending = 256 /\ pending' \in {256, v} /\ UNCHANGED df
      BY <1>3 DEF FirstCycle, pending
    <2> QED BY <1>1, <2>1 DEF HWrite, Sdp!Write, Sdp!NoCmd, pending
  <1>4. CASE SecondCycle(a, v)
    <2>1. pending # 256 /\ pending = cmd /\ pending' = 256
      BY <1>4, SMT DEF SecondCycle, pending, TypeOK, Byte
    <2>2. df' = [b \in ReadAddr \cup WriteAddr |->
             IF WriteAllowed /\ Sdp!Touches(cmd, a, v, b)
             THEN Sdp!Outcome(cmd, v) ELSE df[b]]
      <3>1. CASE WriteAllowed
        <4>1. df' = Effect(a, v)
          BY <1>4, <3>1 DEF SecondCycle
        <4>2. Effect(a, v) = [b \in ReadAddr \cup WriteAddr |->
                IF Sdp!Touches(cmd, a, v, b) THEN Sdp!Outcome(cmd, v) ELSE df[b]]
          BY EffectIsOutcome DEF Addr
        <4> QED BY <3>1, <4>1, <4>2
      <3>2. CASE ~WriteAllowed
        BY <1>4, <3>2 DEF SecondCycle, TypeOK, Addr
      <3> QED BY <3>1, <3>2
    <2> QED BY <1>1, <2>1, <2>2 DEF HWrite, Sdp!Write, Sdp!NoCmd, pending
  <1> QED BY <1>w, <1>3, <1>4 DEF df_write

LEMMA RefinesStep == Inv /\ [HNext]_hall => [Sdp!Next]_(Sdp!vars)
  <1> SUFFICES ASSUME Inv, [HNext]_hall PROVE [Sdp!Next]_(Sdp!vars)
    OBVIOUS
  <1>1. CASE HNext
    BY <1>1, RefinesRead, RefinesWrite DEF HNext, Sdp!Next
  <1>2. CASE UNCHANGED hall
    BY <1>2 DEF hall, vars, hvars, Sdp!vars, WriteAllowed
  <1> QED BY <1>1, <1>2

(* The emulated flash keeps the software-data-protection promise.          *)
THEOREM Refinement == HSpec => KeepsPromise
  <1> QED BY InvInit, InvStep, RefinesInit, RefinesStep, PTL
          DEF HSpec, hall, KeepsPromise, Sdp!Spec

=============================================================================
