---------------------------- MODULE PortsProofs ----------------------------
(***************************************************************************)
(* Proofs about the I/O space, for every set of ports, bytes and moments,  *)
(* and about the machine around it, for every program, clock and table of  *)
(* keys: its parts are the ones that RunLoop, Ports and KeyboardScan tell. *)
(***************************************************************************)
EXTENDS Machine, SequenceTheorems, TLAPS

pall == <<vars, last>>

-----------------------------------------------------------------------------
(* Type correctness and pending interrupts                                 *)

\* Where the port buffer is accessed.
LEMMA DecodedIsCell == \A p \in Port : Decoded(p) \in Cells /\ Decoded(p) = p % 256
  BY DEF Cells, Decoded

LEMMA SpecialCells == IRQ_MASK \in Cells /\ MISC9 \in Cells
  BY DEF Cells

\* What is raised is enabled, and an invariant on its own.
PInv == TypeOK /\ PendingIsEnabled

LEMMA PInvInit == Init => PInv
  <1> SUFFICES ASSUME Init PROVE PInv
    OBVIOUS
  <1>1. io \in [Cells -> SUBSET Bits]
    BY DEF Init
  <1>2. io[IRQ_MASK] = {}
    BY SpecialCells DEF Init
  <1> QED BY <1>1, <1>2 DEF Init, PInv, TypeOK, PendingIsEnabled

LEMMA PInvWrite ==
  ASSUME PInv, NEW port \in Port, NEW val \in Val, z80ex_pwrite(port, val)
  PROVE  PInv'
  <1> USE DEF PInv
  <1>1. val \in SUBSET Bits
    BY ValAssumption
  <1>2. io' = [io EXCEPT ![Decoded(port)] = val] /\ Decoded(port) \in Cells
    BY DecodedIsCell DEF z80ex_pwrite
  <1>3. io' \in [Cells -> SUBSET Bits]
    BY <1>1, <1>2 DEF TypeOK
  <1>4. interrupt_mask' \subseteq {1, 4} /\ interrupt_mask' \subseteq io'[IRQ_MASK]
    <2>1. CASE Decoded(port) = IRQ_MASK
      <3>1. interrupt_mask' = interrupt_mask \cap val
        BY <2>1 DEF z80ex_pwrite, Acknowledged
      <3>2. io'[IRQ_MASK] = val
        BY <1>2, <2>1 DEF TypeOK
      <3> QED BY <3>1, <3>2 DEF TypeOK
    <2>2. CASE Decoded(port) # IRQ_MASK
      <3>1. interrupt_mask' = interrupt_mask
        BY <2>2 DEF z80ex_pwrite
      <3>2. io'[IRQ_MASK] = io[IRQ_MASK]
        BY <1>2, <2>2, SpecialCells DEF TypeOK
      <3> QED BY <3>1, <3>2 DEF TypeOK, PendingIsEnabled
    <2> QED BY <2>1, <2>2
  <1>5. led' \in BOOLEAN /\ power_state' \in {"on", "off"}
    <2>0. led \in BOOLEAN
      BY DEF TypeOK
    <2>1. ASSUME Decoded(port) = MISC2 PROVE led' \in BOOLEAN
      <3>1. led' = (4 \in val)
        BY <2>1, Zenon DEF z80ex_pwrite
      <3> QED BY <2>1, <3>1
    <2>2. ASSUME Decoded(port) # MISC2 PROVE led' \in BOOLEAN
      <3>1. led' = led
        BY <2>2, Zenon DEF z80ex_pwrite
      <3> QED BY <2>0, <3>1
    <2>3. power_state' \in {"on", "off"}
      BY DEF z80ex_pwrite, TypeOK
    <2>4. led' \in BOOLEAN
      BY <2>1, <2>2
    <2> QED BY <2>3, <2>4
  <1>6. UNCHANGED <<ac_status, batt_status, power_button_n, now>>
    BY DEF z80ex_pwrite, hardware
  <1> QED BY <1>3, <1>4, <1>5, <1>6 DEF TypeOK, PendingIsEnabled

LEMMA PInvRest ==
  ASSUME PInv, \/ Raise(1) \/ Raise(4) \/ ms_power_on_reset
               \/ HardwareChanges \/ ClockMoves \/ UNCHANGED vars
  PROVE  PInv'
  <1> USE DEF PInv
  <1>1. ASSUME NEW bit \in {1, 4}, Raise(bit) PROVE PInv'
    BY <1>1 DEF Raise, hardware, TypeOK, PendingIsEnabled
  <1>2. CASE ms_power_on_reset
    BY <1>2, SpecialCells DEF ms_power_on_reset, ClearPending, hardware, TypeOK, PendingIsEnabled
  <1>3. CASE HardwareChanges
    <2>1. ac_status' \in {0, 1} /\ batt_status' \in 0 .. 2 /\ power_button_n' \in {0, 1}
      <3>1. ac_status' \in {0, 1}
        BY <1>3 DEF HardwareChanges, TypeOK
      <3>2. batt_status' \in 0 .. 2
        BY <1>3, SMT DEF HardwareChanges, TypeOK
      <3>3. power_button_n' \in {0, 1}
        BY <1>3, SMT DEF HardwareChanges, TypeOK
      <3> QED BY <3>1, <3>2, <3>3
    <2> QED BY <1>3, <2>1 DEF HardwareChanges, TypeOK, PendingIsEnabled
  <1>4. CASE ClockMoves
    BY <1>4 DEF ClockMoves, TimePasses, hardware, TypeOK, PendingIsEnabled
  <1>5. CASE UNCHANGED vars
    BY <1>5 DEF vars, hardware, TypeOK, PendingIsEnabled
  <1> QED BY <1>1, <1>2, <1>3, <1>4, <1>5

LEMMA PInvStep == PInv /\ [Next]_vars => PInv'
  BY PInvWrite, PInvRest DEF Next

(* Every variable keeps its type, and only real interrupts pend.           *)
THEOREM TypeCorrect == Spec => []TypeOK
  <1>1. PInv => TypeOK
    BY DEF PInv
  <1> QED BY <1>1, PInvInit, PInvStep, PTL DEF Spec

(* No interrupt pends that is not enabled.                                 *)
THEOREM Pending == Spec => []PendingIsEnabled
  <1>1. PInv => PendingIsEnabled
    BY DEF PInv
  <1> QED BY <1>1, PInvInit, PInvStep, PTL DEF Spec

-----------------------------------------------------------------------------
(* What the firmware reads                                                 *)

\* The port buffer is what was written last.
BufferIsLast == \A c \in Used : io[c] = last[c]

RInv == TypeOK /\ PendingIsEnabled /\ last \in [Used -> SUBSET Bits] /\ BufferIsLast

LEMMA UsedAreCells == Used \subseteq Cells
  BY DEF Used, Cells, Decoded

LEMMA HistoryOnly == [PNext]_pall => [Next]_vars
  BY DEF pall, PNext, PWrite, PReset, POther, Next

LEMMA RInvInit == PInit => RInv
  <1> SUFFICES ASSUME PInit PROVE RInv
    OBVIOUS
  <1>1. TypeOK /\ PendingIsEnabled
    BY PInvInit DEF PInit, PInv
  <1>2. last \in [Used -> SUBSET Bits] /\ BufferIsLast
    BY UsedAreCells DEF PInit, Init, BufferIsLast
  <1> QED BY <1>1, <1>2 DEF RInv

LEMMA RInvStep == RInv /\ [PNext]_pall => RInv'
  <1> SUFFICES ASSUME RInv, [PNext]_pall PROVE RInv'
    OBVIOUS
  <1> USE DEF RInv
  <1>1. TypeOK' /\ PendingIsEnabled'
    BY HistoryOnly, PInvStep DEF PInv
  <1>2. CASE PWrite
    <2> PICK port \in Port, val \in Val :
          z80ex_pwrite(port, val) /\ last' = [last EXCEPT ![port % 256] = val]
      BY <1>2 DEF PWrite
    <2>1. io' = [io EXCEPT ![port % 256] = val]
      BY DEF z80ex_pwrite, Decoded
    <2>2. port % 256 \in Used /\ val \in SUBSET Bits
      BY ValAssumption DEF Used
    <2>3. last' \in [Used -> SUBSET Bits]
      BY <2>2
    <2>4. BufferIsLast'
      BY <2>1, <2>2, UsedAreCells DEF TypeOK, BufferIsLast, Used
    <2> QED BY <1>1, <2>3, <2>4
  <1>3. CASE PReset
    <2>1. last' = [c \in Used |-> {}] /\ io' = [c \in Cells |-> {}]
      BY <1>3 DEF PReset, ms_power_on_reset
    <2>2. last' \in [Used -> SUBSET Bits]
      BY <2>1
    <2>3. BufferIsLast'
      BY <2>1, UsedAreCells DEF BufferIsLast, Used
    <2> QED BY <1>1, <2>2, <2>3
  <1>4. CASE POther \/ UNCHANGED pall
    <2>1. UNCHANGED <<io, last>>
      BY <1>4 DEF POther, pall, vars, Raise, HardwareChanges, ClockMoves
    <2> QED BY <1>1, <2>1 DEF BufferIsLast, Used
  <1> QED BY <1>2, <1>3, <1>4 DEF PNext

(* A plain port reads back what was written to it last.                    *)
THEOREM PlainReadsBack == PSpec => []ReadsBack
  <1>1. RInv => ReadsBack
    <2> SUFFICES ASSUME RInv, NEW p \in Port,
                        p % 256 \notin {KEYBOARD, IRQ_MASK, MISC9} \cup ClockPorts
                 PROVE  z80ex_pread(p) = last[p % 256]
      BY DEF ReadsBack
    <2>1. z80ex_pread(p) = io[p % 256]
      BY DEF z80ex_pread, Decoded
    <2> QED BY <2>1 DEF RInv, BufferIsLast, Used
  <1> QED BY <1>1, RInvInit, RInvStep, PTL DEF PSpec, pall

(* MISC9 is the hardware's above and the firmware's below.                 *)
THEOREM PowerBitsDriven == PSpec => []Misc9IsShared
  <1>1. RInv => Misc9IsShared
    <2> SUFFICES ASSUME RInv, NEW p \in Port, p % 256 = MISC9
                 PROVE  z80ex_pread(p) = (last[MISC9] \cap 0 .. 3) \cup
                          {b \in 4 .. 7 : \/ b = 7 /\ ac_status = 1
                                          \/ b = 6 /\ batt_status = 2
                                          \/ b = 5 /\ batt_status # 0
                                          \/ b = 4 /\ power_button_n = 1}
      BY Zenon DEF Misc9IsShared
    <2>1. z80ex_pread(p) = PowerBits \cup StoredLow(io[MISC9])
      BY SMT DEF z80ex_pread, Decoded, MISC9, IRQ_MASK, ClockPorts, RTC_SEC, RTC_10YR
    <2>2. io[MISC9] = last[MISC9]
      BY DEF RInv, BufferIsLast, Used
    <2>3. batt_status \in {0, 1, 2}
      BY SMT DEF RInv, TypeOK
    <2>4. PowerBits \subseteq 4 .. 7
      BY SMT DEF PowerBits
    <2>5. \A b : b \in PowerBits <=> \/ b = 7 /\ ac_status = 1
                                     \/ b = 6 /\ batt_status = 2
                                     \/ b = 5 /\ batt_status # 0
                                     \/ b = 4 /\ power_button_n = 1
      BY <2>3, SMT DEF PowerBits
    <2> DEFINE Driven == {b \in 4 .. 7 : \/ b = 7 /\ ac_status = 1
                                         \/ b = 6 /\ batt_status = 2
                                         \/ b = 5 /\ batt_status # 0
                                         \/ b = 4 /\ power_button_n = 1}
    <2>6. PowerBits = Driven
      BY <2>4, <2>5, Zenon
    <2> QED BY <2>1, <2>2, <2>6, Zenon DEF StoredLow
  <1> QED BY <1>1, RInvInit, RInvStep, PTL DEF PSpec, pall

-----------------------------------------------------------------------------
(* The clock                                                               *)

\* What the two digits of a byte are, and that the year's hundreds drop out.
LEMMA Digits ==
  ASSUME NEW x \in 0 .. 255
  PROVE  /\ x < 100 => (hex2bcd(x) \div 16) * 10 + (hex2bcd(x) % 16) = x
         /\ x >= 160 => (hex2bcd(x) \div 16) * 10 + (hex2bcd(x) % 16) = x - 160
  BY SMTT(60) DEF hex2bcd

\* Which digit of which field a clock port holds.
LEMMA PortsOfField ==
  ASSUME NEW field \in Fields
  PROVE  /\ ClockDigit(OnesPort(field)) = Ones(field)
         /\ ClockDigit(OnesPort(field) + 1) = Tens(field)
         /\ OnesPort(field) \in ClockPorts /\ OnesPort(field) + 1 \in ClockPorts
         /\ OnesPort(field) % 256 = OnesPort(field)
         /\ (OnesPort(field) + 1) % 256 = OnesPort(field) + 1
  <1> DEFINE P(f) == OnesPort(f)
  <1>1. \A f \in Fields : P(f) \in {16, 18, 20, 23, 25, 27}
    BY DEF OnesPort, RTC_SEC, RTC_MIN, RTC_HR, RTC_DOM, RTC_MON, RTC_YR
  <1>2. \A f, g \in Fields : P(f) = P(g) => f = g
    BY DEF Fields, OnesPort, RTC_SEC, RTC_MIN, RTC_HR, RTC_DOM, RTC_MON, RTC_YR
  <1> HIDE DEF P
  <1>3. \A f, g \in Fields : P(f) \in P(g) .. P(g) + 1 \/ P(f) + 1 \in P(g) .. P(g) + 1 => f = g
    BY <1>1, <1>2, SMT
  <1>4. P(field) \in P(field) .. P(field) + 1 /\ P(field) + 1 \in P(field) .. P(field) + 1
        /\ P(field) # P(field) + 1 /\ P(field) # 22 /\ P(field) + 1 # 22
        /\ P(field) \in 16 .. 28 /\ P(field) + 1 \in 16 .. 28
        /\ P(field) % 256 = P(field) /\ (P(field) + 1) % 256 = P(field) + 1
    BY <1>1, SMT
  <1>5. (CHOOSE f \in Fields : P(field) \in P(f) .. P(f) + 1) = field
    BY <1>3, <1>4
  <1>6. (CHOOSE f \in Fields : P(field) + 1 \in P(f) .. P(f) + 1) = field
    BY <1>3, <1>4
  <1> QED BY <1>4, <1>5, <1>6 DEF P, ClockDigit, RTC_DOW, ClockPorts, RTC_SEC, RTC_10YR

(* The clock ports spell the host's clock in decimal, 1980 to 2075.        *)
THEOREM ClockSpells == Spec => []DigitsSpellTime
  <1>1. TypeOK => DigitsSpellTime
    <2> SUFFICES ASSUME TypeOK, NEW field \in Fields
                 PROVE  z80ex_pread(OnesPort(field) + 1) * 10 + z80ex_pread(OnesPort(field))
                          = IF field = "mon" THEN now.mon + 1
                            ELSE IF field = "year" THEN now.year - 1980
                            ELSE now[field]
      BY DEF DigitsSpellTime
    <2>1. now \in Moment
      BY TimesAssumption DEF TypeOK
    <2>2. /\ z80ex_pread(OnesPort(field)) = hex2bcd(Passed(field)) % 16
          /\ z80ex_pread(OnesPort(field) + 1) = hex2bcd(Passed(field)) \div 16
      <3>1. IRQ_MASK \notin ClockPorts
        BY SMT DEF IRQ_MASK, ClockPorts, RTC_SEC, RTC_10YR
      <3> QED BY <3>1, PortsOfField DEF z80ex_pread, Decoded, Ones, Tens
    <2>3. CASE field = "year"
      <3>1. now.year \in 1980 .. 2075 /\ Passed(field) = (now.year - 1900) + 80
        BY <2>1, <2>3 DEF Moment, Passed
      <3>2. Passed(field) \in 0 .. 255 /\ Passed(field) >= 160
            /\ Passed(field) - 160 = now.year - 1980
        BY <3>1, SMT
      <3> QED BY <2>2, <2>3, <3>2, Digits
    <2>4. CASE field # "year"
      <3>1. Passed(field) \in 0 .. 99
            /\ Passed(field) = IF field = "mon" THEN now.mon + 1 ELSE now[field]
        <4>1. /\ now.sec \in 0 .. 60 /\ now.min \in 0 .. 59 /\ now.hour \in 0 .. 23
              /\ now.mday \in 1 .. 31 /\ now.mon \in 0 .. 11
          BY <2>1 DEF Moment
        <4> QED BY <2>4, <4>1, SMT DEF Passed, Fields
      <3>2. Passed(field) \in 0 .. 255 /\ Passed(field) < 100
        BY <3>1, SMT
      <3> QED BY <2>2, <2>4, <3>1, <3>2, Digits
    <2> QED BY <2>3, <2>4
  <1> QED BY <1>1, TypeCorrect, PTL

-----------------------------------------------------------------------------
(* The machine around the ports                                            *)

KeyProofs == INSTANCE KeyboardProofs WITH
               draining <- pc = "ui", KbAddr <- SUBSET (0 .. 9)

(* The assumptions the proofs about the keyboard rest on.                  *)
LEMMA KeyAssumptions ==
  /\ DOMAIN LUT \subseteq Key
  /\ {KeyProofs!RCTRL, KeyProofs!F12, KeyProofs!ESCAPE} \cap DOMAIN LUT = {}
  /\ \A k \in DOMAIN LUT : LUT[k] \in KeyProofs!Matrix
  /\ \A k, l \in DOMAIN LUT : LUT[k] = LUT[l] => k = l
  /\ MaxQueue \in Nat \ {0}
  /\ SUBSET (0 .. 9) \subseteq SUBSET (0 .. 9)
  BY KeyAssumption DEF KeyProofs!RCTRL, KeyProofs!F12, KeyProofs!ESCAPE, KeyProofs!Matrix

\* What holds of the three parts together.
MInv ==
  /\ RInv
  /\ KeyProofs!SInv
  /\ exited => pc = "exit"

\* Where a step of the loop leads, and what it does to the registers.
LEMMA LoopMovesOn ==
  ASSUME MLoop \/ MTerminal
  PROVE  /\ pc # "exit"
         /\ pc = "ui" => pc' = "ui"
         /\ UNCHANGED <<power_state, power_button_n>>
         /\ \/ UNCHANGED interrupt_mask
            \/ \E bit \in {1, 4} : /\ bit \in io[IRQ_MASK] \ interrupt_mask
                                  /\ interrupt_mask' = interrupt_mask \cup {bit}
  <1>1. CASE Run!LoopTop
    BY <1>1 DEF Run!LoopTop, Run!power, Run!irqs
  <1>2. CASE Run!SliceDone
    BY <1>2 DEF Run!SliceDone, Run!power, Run!irqs
  <1>3. CASE Run!Prompt
    BY <1>3 DEF Run!Prompt, Run!quit, Run!continue, Run!single_step, Run!set_bp,
                Run!md, Run!dump_stack, Run!Command, Run!power, Run!irqs
  <1>4. CASE Run!sigint
    BY <1>4 DEF Run!sigint, Run!power, Run!irqs
  <1>5. ASSUME NEW delta \in Deltas, Run!Gate(delta)
        PROVE  pc = "gate" /\ UNCHANGED <<power_state, power_button_n, interrupt_mask>>
    BY <1>5 DEF Run!Gate, Run!power, Run!irqs
  <1>6. ASSUME NEW t \in Tstates, NEW next \in Code, NEW can \in BOOLEAN,
               Run!Access(t, next, can)
        PROVE  pc = "slice" /\ UNCHANGED <<power_state, power_button_n, interrupt_mask>>
    BY <1>6 DEF Run!Access, Run!Step, Run!power, Run!irqs
  <1>7. ASSUME NEW t \in IntTstates, Run!Timer(t)
        PROVE  /\ pc = "int" /\ UNCHANGED <<power_state, power_button_n>>
               /\ \/ UNCHANGED interrupt_mask
                  \/ \E bit \in {1, 4} : /\ bit \in io[IRQ_MASK] \ interrupt_mask
                                        /\ interrupt_mask' = interrupt_mask \cup {bit}
    <2>1. pc = "int" /\ UNCHANGED <<power_state, power_button_n>>
      BY <1>7 DEF Run!Timer, Run!power
    <2>2. UNCHANGED interrupt_mask \/ Run!RaisePending
      BY <1>7 DEF Run!Timer, Run!process_interrupts
    <2>3. ASSUME Run!RaisePending
          PROVE  \/ UNCHANGED interrupt_mask
                 \/ Run!Raise(1) \/ Run!Raise(4)
      BY <2>3 DEF Run!RaisePending, Run!KBD, Run!TIME16
    <2> QED BY <2>1, <2>2, <2>3 DEF Run!Raise
  <1> QED BY <1>1, <1>2, <1>3, <1>4, <1>5, <1>6, <1>7 DEF MLoop, MTerminal

\* The events of the queue: what of them the handlers look at.
LEMMA EventOf ==
  ASSUME MInv, MEvent
  PROVE  /\ ~exited /\ pc = "ui"
         /\ Head(queue) = queue[1] /\ 1 \in 1 .. Len(queue)
         /\ Head(queue).type \in {"down", "up"}
  <1>1. queue \in Seq(KeyProofs!EventType) /\ queue # << >>
    BY DEF MInv, KeyProofs!SInv, KeyProofs!Inv, KeyProofs!TypeOK, KeyProofs!EventType, MEvent
  <1>2. Len(queue) \in Nat \ {0} /\ Head(queue) = queue[1]
    BY <1>1, EmptySeq, HeadTailProperties
  <1>3. queue[1] \in KeyProofs!EventType /\ 1 \in 1 .. Len(queue)
    BY <1>1, <1>2, ElementOfSeq, SMT
  <1> QED BY <1>2, <1>3 DEF MInv, MEvent, KeyProofs!EventType

\* An event that does not reset the machine moves the power button or the
\* supply, one at a time, and never the power.
LEMMA QuietEvent ==
  ASSUME MInv, MEvent, ~Resets(Head(queue))
  PROVE  /\ UNCHANGED <<io, interrupt_mask, led, now, last, power_state>>
         /\ HardwareChanges \/ UNCHANGED hardware
  <1> DEFINE e == Head(queue)
  <1>1. e.type \in {"down", "up"}
    BY EventOf
  <1>2. UNCHANGED <<io, interrupt_mask, led, now, last>>
    BY DEF MEvent
  <1>3. power_button_n \in {0, 1} /\ ac_status \in {0, 1} /\ batt_status \in 0 .. 2
    BY DEF MInv, RInv, TypeOK
  <1>4. CASE Keys!Escape(e)
    <2>1. UNCHANGED <<power_state, hardware>>
      BY <1>4 DEF MEvent, Keys!SHandle, Keys!HandleEvent, Keys!Remaining, Keys!power, Keys!supply, hardware
    <2> QED BY <1>2, <2>1
  <1>5. CASE ~Keys!Escape(e)
    <2>1. Keys!HotKey(e) \/ Keys!PlainKey(e)
      BY <1>5 DEF MEvent, Keys!SHandle, Keys!HandleEvent, Keys!Remaining
    <2>2. ~(e.rctrl /\ e.type = "down" /\ e.sym = Keys!KeyR)
      BY DEF Resets
    <2>3. Keys!PowerButton(e)
      BY <2>1, <2>2 DEF Keys!HotKey, Keys!PlainKey
    <2>4. UNCHANGED Keys!supply \/ Keys!ToggleAc \/ Keys!CycleBattery
      BY <2>1 DEF Keys!HotKey, Keys!PlainKey
    <2>5. UNCHANGED Keys!supply \/ e.sym # Keys!F12
      BY <2>1 DEF Keys!HotKey, Keys!PlainKey, Keys!F12, Keys!KeyA, Keys!KeyB
    <2> HIDE DEF e
    <2>6. CASE e.sym = Keys!F12
      <3>1. UNCHANGED <<ac_status, batt_status>>
        BY <2>5, <2>6 DEF Keys!supply
      <3>2. /\ power_button_n' = IF e.type = "down" THEN 0 ELSE 1
            /\ IF power_state = "off" /\ power_button_n' = 0
                 THEN Keys!ms_power_on_reset ELSE UNCHANGED power_state
        BY <2>3, <2>6 DEF Keys!PowerButton, Keys!Handled
      <3>3. UNCHANGED power_state
        BY <1>1, <2>6, <3>2 DEF Resets, e
      <3>4. power_button_n' = power_button_n \/ power_button_n' = 1 - power_button_n
        BY <1>3, <3>2
      <3> QED BY <1>2, <3>1, <3>3, <3>4 DEF HardwareChanges, hardware
    <2>7. CASE e.sym # Keys!F12
      <3>1. UNCHANGED <<power_state, power_button_n>>
        BY <2>3, <2>7 DEF Keys!PowerButton, Keys!power
      <3>2. CASE UNCHANGED Keys!supply
        BY <1>2, <3>1, <3>2 DEF Keys!supply, hardware
      <3>3. CASE Keys!ToggleAc
        BY <1>2, <3>1, <3>3 DEF Keys!ToggleAc, HardwareChanges, hardware
      <3>4. CASE Keys!CycleBattery
        <4>1. batt_status' = (batt_status + 1) % 3
          BY <1>3, <3>4, SMT DEF Keys!CycleBattery, Keys!Cycled, Keys!BATT_CYCLE
        <4> QED BY <1>2, <3>1, <3>4, <4>1 DEF Keys!CycleBattery, HardwareChanges, hardware
      <3> QED BY <1>2, <2>4, <3>1, <3>2, <3>3, <3>4
    <2> QED BY <2>6, <2>7
  <1> QED BY <1>4, <1>5

(* The registers see of the loop and the keys what Ports lets them see.    *)
LEMMA PortsStep == MInv /\ [MNext]_mvars => [PNext]_pall
  <1> SUFFICES ASSUME MInv, [MNext]_mvars PROVE [PNext]_pall
    OBVIOUS
  <1>1. CASE MLoop \/ MTerminal
    <2>1. UNCHANGED <<io, led, now, last, power_state, hardware>>
      BY <1>1, LoopMovesOn DEF MLoop, MTerminal, registers, hardware
    <2>2. UNCHANGED interrupt_mask \/ Raise(1) \/ Raise(4)
      BY <1>1, <2>1, LoopMovesOn DEF Raise
    <2> QED BY <2>1, <2>2 DEF PNext, POther, pall, vars
  <1>2. ASSUME NEW port \in Port, NEW val \in Val, MWrite(port, val) PROVE PNext
    BY <1>2 DEF MWrite, PNext, PWrite
  <1>3. CASE MUser
    BY <1>3 DEF MUser, registers, Keys!Press, Keys!Release, Keys!power, pall, vars, hardware
  <1>4. CASE MEvent
    <2>1. CASE Resets(Head(queue))
      BY <1>4, <2>1 DEF MEvent, PNext, PReset
    <2>2. CASE ~Resets(Head(queue))
      BY <1>4, <2>2, QuietEvent DEF PNext, POther, pall, vars, HardwareChanges
    <2> QED BY <2>1, <2>2
  <1>5. CASE MDrained
    BY <1>5 DEF MDrained, registers, Keys!Drained, Keys!power, pall, vars, hardware
  <1>6. CASE MClock
    BY <1>6 DEF MClock, PNext, POther
  <1>7. CASE MTerminated \/ UNCHANGED mvars
    BY <1>7 DEF MTerminated, mvars, pall
  <1> QED BY <1>1, <1>2, <1>3, <1>4, <1>5, <1>6, <1>7 DEF MNext, MStep

(* The keyboard sees of the loop and the ports what Keyboard lets it see.  *)
LEMMA KeysStep == MInv /\ [MNext]_mvars => [Keys!SNext]_<<Keys!vars, hidden>>
  <1> SUFFICES ASSUME MInv, [MNext]_mvars PROVE [Keys!SNext]_<<Keys!vars, hidden>>
    OBVIOUS
  <1>0. pc # "exit" => ~exited
    BY DEF MInv
  <1>1. CASE MLoop \/ MTerminal
    <2>1. UNCHANGED <<held, queue, exited, low, Keys!power, Keys!supply, hidden>>
      BY <1>1, LoopMovesOn DEF MLoop, MTerminal, registers, window, Keys!power, Keys!supply
    <2>2. CASE pc = "ui" <=> pc' = "ui"
      BY <2>1, <2>2 DEF Keys!vars
    <2>3. CASE pc # "ui" /\ pc' = "ui"
      BY <1>0, <1>1, <2>1, <2>3, LoopMovesOn DEF Keys!SNext, Keys!SOther, Keys!Drain
    <2> QED BY <1>1, <2>2, <2>3, LoopMovesOn
  <1>2. ASSUME NEW port \in Port, NEW val \in Val, MWrite(port, val)
        PROVE  [Keys!SNext]_<<Keys!vars, hidden>>
    <2>1. /\ pc = "slice" /\ pc' \in {"int", "slice"}
          /\ UNCHANGED <<held, queue, exited, low, power_button_n, Keys!supply, hidden>>
      BY <1>2 DEF MWrite, Run!Step, z80ex_pwrite, hardware, window, Keys!supply
    <2>2. power_state' = power_state \/ power_state' = "off"
      BY <1>2 DEF MWrite, z80ex_pwrite
    <2>3. CASE power_state' = power_state
      BY <2>1, <2>3 DEF Keys!vars, Keys!power
    <2>4. CASE power_state' = "off" /\ power_state # "off"
      <3>1. power_state = "on"
        BY <2>4 DEF MInv, RInv, TypeOK
      <3> QED BY <1>0, <2>1, <2>4, <3>1 DEF Keys!SNext, Keys!SOther, Keys!PowerOff
    <2> QED BY <2>2, <2>3, <2>4
  <1>3. CASE MUser
    BY <1>3 DEF MUser, Keys!SNext, Keys!SOther
  <1>4. CASE MEvent
    BY <1>4 DEF MEvent, Keys!SNext
  <1>5. CASE MDrained
    BY <1>5 DEF MDrained, Keys!SNext, Keys!SOther
  <1>6. CASE MClock
    BY <1>6 DEF MClock, ClockMoves, hardware, loop, window, Keys!vars, Keys!power, Keys!supply
  <1>7. CASE MTerminated \/ UNCHANGED mvars
    BY <1>7 DEF MTerminated, mvars, vars, hardware, loop, window, Keys!vars, Keys!power,
                Keys!supply
  <1> QED BY <1>1, <1>2, <1>3, <1>4, <1>5, <1>6, <1>7 DEF MNext, MStep

\* The instance of the keyboard's proofs speaks of the same steps.
LEMMA SameKeys == [Keys!SNext]_<<Keys!vars, hidden>> => [KeyProofs!SNext]_<<KeyProofs!vars, hidden>>
  <1>1. Keys!vars = KeyProofs!vars /\ Keys!vars' = KeyProofs!vars'
    BY DEF Keys!vars, KeyProofs!vars, Keys!power, KeyProofs!power, Keys!supply, KeyProofs!supply
  <1>2. \A e : Keys!Escape(e) <=> KeyProofs!Escape(e)
    BY DEF Keys!Escape, KeyProofs!Escape, Keys!ESCAPE, KeyProofs!ESCAPE
  <1>3. \A k : Keys!Press(k) <=> KeyProofs!Press(k)
    BY DEF Keys!Press, KeyProofs!Press, Keys!Event, KeyProofs!Event, Keys!RCTRL, KeyProofs!RCTRL,
           Keys!power, KeyProofs!power, Keys!supply, KeyProofs!supply
  <1>4. \A k : Keys!Release(k) <=> KeyProofs!Release(k)
    BY DEF Keys!Release, KeyProofs!Release, Keys!Event, KeyProofs!Event, Keys!RCTRL, KeyProofs!RCTRL,
           Keys!power, KeyProofs!power, Keys!supply, KeyProofs!supply
  <1>5. Keys!ToggleAc <=> KeyProofs!ToggleAc
    BY DEF Keys!ToggleAc, KeyProofs!ToggleAc
  <1>6. Keys!CycleBattery <=> KeyProofs!CycleBattery
    BY DEF Keys!CycleBattery, KeyProofs!CycleBattery, Keys!Cycled, KeyProofs!Cycled,
           Keys!BATT_CYCLE, KeyProofs!BATT_CYCLE
  <1>7. \A e : Keys!PowerButton(e) <=> KeyProofs!PowerButton(e)
    BY DEF Keys!PowerButton, KeyProofs!PowerButton, Keys!F12, KeyProofs!F12, Keys!Handled,
           KeyProofs!Handled, Keys!ms_power_on_reset, KeyProofs!ms_power_on_reset,
           Keys!power, KeyProofs!power
  <1>8. \A e : Keys!HotKey(e) <=> KeyProofs!HotKey(e)
    BY <1>5, <1>6, <1>7 DEF Keys!HotKey, KeyProofs!HotKey, Keys!KeyR, KeyProofs!KeyR, Keys!KeyA,
           KeyProofs!KeyA, Keys!KeyB, KeyProofs!KeyB, Keys!ResetMatrix, KeyProofs!ResetMatrix,
           Keys!ms_power_on_reset, KeyProofs!ms_power_on_reset, Keys!supply, KeyProofs!supply
  <1>9. \A e : Keys!PlainKey(e) <=> KeyProofs!PlainKey(e)
    BY <1>7 DEF Keys!PlainKey, KeyProofs!PlainKey, Keys!ui_set_ms_kbd, KeyProofs!ui_set_ms_kbd,
           Keys!supply, KeyProofs!supply
  <1>10. Keys!SHandle <=> KeyProofs!SHandle
    BY <1>2, <1>8, <1>9 DEF Keys!SHandle, KeyProofs!SHandle, Keys!HandleEvent, Keys!Remaining, KeyProofs!HandleEvent, KeyProofs!Remaining,
           Keys!power, KeyProofs!power, Keys!supply, KeyProofs!supply
  <1>11. Keys!SOther <=> KeyProofs!SOther
    BY <1>1, <1>3, <1>4 DEF Keys!SOther, KeyProofs!SOther, Keys!Drain, KeyProofs!Drain,
           Keys!Drained, KeyProofs!Drained, Keys!PowerOff, KeyProofs!PowerOff,
           Keys!Exited, KeyProofs!Exited, Keys!power, KeyProofs!power, Keys!supply, KeyProofs!supply
  <1> QED BY <1>1, <1>10, <1>11 DEF Keys!SNext, KeyProofs!SNext

LEMMA MInvInit == MInit => MInv
  <1> SUFFICES ASSUME MInit PROVE MInv
    OBVIOUS
  <1>1. RInv
    BY RInvInit DEF MInit
  <1>2. KeyProofs!SInit
    BY DEF MInit, Keys!SInit, Keys!Init, KeyProofs!SInit, KeyProofs!Init, Keys!BATT_CYCLE,
           KeyProofs!BATT_CYCLE
  <1>3. KeyProofs!SInv
    BY <1>2, KeyAssumptions, KeyProofs!SInitInv
  <1>4. exited = FALSE
    BY DEF MInit, Keys!SInit, Keys!Init
  <1> QED BY <1>1, <1>3, <1>4 DEF MInv

LEMMA MInvStep == MInv /\ [MNext]_mvars => MInv'
  <1> SUFFICES ASSUME MInv, [MNext]_mvars PROVE MInv'
    OBVIOUS
  <1>1. RInv'
    BY PortsStep, RInvStep DEF MInv
  <1>2. KeyProofs!SInv'
    BY KeysStep, SameKeys, KeyAssumptions, KeyProofs!SNextKeepsInv DEF MInv
  <1>3. exited' => pc' = "exit"
    <2>1. CASE MLoop \/ MTerminal
      BY <2>1, LoopMovesOn DEF MLoop, MTerminal, window, MInv
    <2>2. ASSUME NEW port \in Port, NEW val \in Val, MWrite(port, val) PROVE ~exited'
      BY <2>2 DEF MWrite, window, Run!Step, MInv
    <2>3. CASE MUser
      BY <2>3 DEF MUser, loop, Keys!Press, Keys!Release, MInv
    <2>4. CASE MEvent
      BY <2>4, EventOf DEF MEvent, Keys!SHandle, Keys!HandleEvent, Keys!Remaining
    <2>5. CASE MDrained
      BY <2>5 DEF MDrained, Keys!Drained, MInv
    <2>6. CASE MClock \/ MTerminated \/ UNCHANGED mvars
      BY <2>6 DEF MClock, MTerminated, mvars, loop, window, MInv
    <2> QED BY <2>1, <2>2, <2>3, <2>4, <2>5, <2>6 DEF MNext, MStep
  <1> QED BY <1>1, <1>2, <1>3 DEF MInv

(* The machine's registers are those of Ports.                             *)
THEOREM MachineIsPorts == MSpec => RegistersArePorts
  <1>1. MInit => PInit
    BY DEF MInit
  <1> QED BY <1>1, MInvInit, MInvStep, PortsStep, PTL DEF MSpec, RegistersArePorts, PSpec, pall

(* The machine's keyboard is that of KeyboardScan.                         *)
THEOREM MachineIsKeyboard == MSpec => KeysAreKeyboard
  <1>1. MInit => Keys!SInit
    BY DEF MInit
  <1> QED BY <1>1, MInvInit, MInvStep, KeysStep, PTL DEF MSpec, KeysAreKeyboard, Keys!SSpec

\* What an event does to the Escape that waits.
LEMMA EscapeComes ==
  ASSUME MInv, MUser
  PROVE  UNCHANGED Escaping \/ (Escaping' <=> TRUE)
  <1>1. PICK e : queue' = Append(queue, e)
    BY DEF MUser, Keys!Press, Keys!Release
  <1>2. queue \in Seq(KeyProofs!EventType)
    BY DEF MInv, KeyProofs!SInv, KeyProofs!Inv, KeyProofs!TypeOK, KeyProofs!EventType
  <1>3. /\ Len(queue) \in Nat /\ Len(queue') = Len(queue) + 1
        /\ \A i \in 1 .. Len(queue) : queue'[i] = queue[i]
        /\ queue'[Len(queue) + 1] = e
    BY <1>1, <1>2, AppendProperties, LenProperties
  <1>4. exited' = exited
    BY DEF MUser, Keys!Press, Keys!Release
  <1>5. CASE Keys!Escape(e)
    <2>1. Len(queue) + 1 \in 1 .. Len(queue')
      BY <1>3
    <2> QED BY <1>3, <1>5, <2>1 DEF Escaping, Keys!Escape
  <1>6. CASE ~Keys!Escape(e)
    <2>1. \A i \in 1 .. Len(queue') : i \in 1 .. Len(queue) \/ queue'[i] = e
      BY <1>3
    <2>2. \A i \in 1 .. Len(queue) : i \in 1 .. Len(queue')
      BY <1>3
    <2>3. (\E i \in 1 .. Len(queue') : Keys!Escape(queue'[i]))
            <=> \E i \in 1 .. Len(queue) : Keys!Escape(queue[i])
      BY <1>3, <1>6, <2>1, <2>2
    <2> QED BY <1>4, <2>3 DEF Escaping, Keys!Escape
  <1> QED BY <1>5, <1>6

LEMMA EscapeStays ==
  ASSUME MInv, MEvent
  PROVE  /\ Escaping' <=> Escaping
         /\ Keys!Escape(Head(queue)) => Escaping
  <1>1. queue \in Seq(KeyProofs!EventType) /\ queue # << >>
    BY DEF MInv, KeyProofs!SInv, KeyProofs!Inv, KeyProofs!TypeOK, KeyProofs!EventType, MEvent
  <1>2. queue' = Tail(queue)
    BY DEF MEvent, Keys!SHandle, Keys!HandleEvent, Keys!Remaining
  <1>3. /\ Len(queue) \in Nat /\ Len(queue') = Len(queue) - 1
        /\ \A i \in 1 .. Len(queue) - 1 : queue'[i] = queue[i + 1]
    BY <1>1, <1>2, HeadTailProperties, LenProperties
  <1>4. CASE Keys!Escape(Head(queue))
    <2>1. Escaping
      BY <1>4, EventOf DEF Escaping
    <2>2. exited'
      BY <1>4 DEF MEvent, Keys!SHandle, Keys!HandleEvent, Keys!Remaining
    <2> QED BY <2>1, <2>2 DEF Escaping
  <1>5. CASE ~Keys!Escape(Head(queue))
    <2>1. exited' = exited
      BY <1>5 DEF MEvent, Keys!SHandle, Keys!HandleEvent, Keys!Remaining
    <2>2. ~Keys!Escape(queue[1])
      BY <1>5, EventOf
    <2>3. ASSUME NEW i \in 1 .. Len(queue), Keys!Escape(queue[i])
          PROVE  \E j \in 1 .. Len(queue') : Keys!Escape(queue'[j])
      <3>1. i # 1
        BY <2>2, <2>3
      <3>2. i - 1 \in 1 .. Len(queue') /\ i - 1 \in 1 .. Len(queue) - 1
        BY <1>3, <3>1
      <3>3. queue'[i - 1] = queue[i]
        BY <1>3, <3>2
      <3> QED BY <2>3, <3>2, <3>3
    <2>4. ASSUME NEW j \in 1 .. Len(queue'), Keys!Escape(queue'[j])
          PROVE  \E i \in 1 .. Len(queue) : Keys!Escape(queue[i])
      <3>1. j + 1 \in 1 .. Len(queue) /\ j \in 1 .. Len(queue) - 1
        BY <1>3
      <3>2. queue'[j] = queue[j + 1]
        BY <1>3, <3>1
      <3> QED BY <2>4, <3>1, <3>2
    <2> QED BY <1>5, <2>1, <2>3, <2>4 DEF Escaping, Keys!Escape
  <1> QED BY <1>4, <1>5

\* An OUT is an instruction of RunLoop: it enables interrupts, cuts the power,
\* or does nothing the loop would notice.
LEMMA WriteIsInstruction ==
  ASSUME MInv, NEW port \in Port, NEW val \in Val, MWrite(port, val)
  PROVE  Run!Instruction
  <1> PICK t \in Tstates, next \in Code, can \in BOOLEAN :
        /\ Run!Step(t, next, can, {}, {})
        /\ IF Decoded(port) = POWER /\ 0 \in val THEN Run!ms_power_off
           ELSE UNCHANGED <<splashscreen_show, ram>>
    BY DEF MWrite
  <1>1. /\ io' = [io EXCEPT ![Decoded(port)] = val]
        /\ interrupt_mask' = IF Decoded(port) = IRQ_MASK THEN interrupt_mask \cap val
                             ELSE interrupt_mask
        /\ power_state' = IF Decoded(port) = POWER /\ 0 \in val THEN "off" ELSE power_state
    BY DEF MWrite, z80ex_pwrite, Acknowledged
  <1>2. /\ io \in [Cells -> SUBSET Bits] /\ IRQ_MASK \in Cells
        /\ interrupt_mask \subseteq {1, 4}
    BY SpecialCells DEF MInv, RInv, TypeOK
  <1>3. POWER # IRQ_MASK
    BY DEF POWER, IRQ_MASK
  <1>4. CASE Decoded(port) = IRQ_MASK
    <2>1. io'[IRQ_MASK] = val
      BY <1>1, <1>2, <1>4
    <2>2. val \cap {1, 4} \in SUBSET {1, 4}
      OBVIOUS
    <2>3. interrupt_mask' = interrupt_mask \cap (val \cap {1, 4})
      BY <1>1, <1>2, <1>4
    <2>4. UNCHANGED <<power_state, splashscreen_show, ram>>
      BY <1>1, <1>3, <1>4
    <2> QED BY <2>1, <2>2, <2>3, <2>4 DEF Run!Instruction, Run!OutIrqMask, Run!power
  <1>5. CASE Decoded(port) # IRQ_MASK
    <2>1. io'[IRQ_MASK] = io[IRQ_MASK] /\ interrupt_mask' = interrupt_mask
      BY <1>1, <1>2, <1>5
    <2>2. CASE Decoded(port) = POWER /\ 0 \in val
      BY <2>1, <2>2 DEF Run!Instruction, Run!OutPowerOff, Run!irqs
    <2>3. CASE ~(Decoded(port) = POWER /\ 0 \in val)
      <3>1. UNCHANGED <<power_state, splashscreen_show, ram>>
        BY <1>1, <2>3
      <3>2. {} \in SUBSET Data
        OBVIOUS
      <3> QED BY <2>1, <3>1, <3>2 DEF Run!Instruction, Run!Access, Run!power, Run!irqs
    <2> QED BY <2>2, <2>3
  <1> QED BY <1>4, <1>5

\* An event is one of RunLoop's: the loop ends, the button moves, the machine
\* is reset, or nothing the loop would notice.
LEMMA EventIsEnvironment == ASSUME MInv, MEvent PROVE [Run!Next]_Run!vars
  <1> DEFINE e == Head(queue)
  <1>1. e.type \in {"down", "up"} /\ pc = "ui"
    BY EventOf
  <1>2. /\ pc' = IF Keys!Escape(e) THEN "exit" ELSE pc
        /\ UNCHANGED <<execute_counter, tstate_counter, icount, ram, bp, hits>>
    BY DEF MEvent
  <1>3. (Escaping' <=> Escaping) /\ (Keys!Escape(e) => Escaping)
    BY EscapeStays
  <1>4. UNCHANGED Escaping
    BY <1>3 DEF Escaping
  <1>5. CASE Keys!Escape(e)
    <2>1. ~Resets(e)
      BY <1>5 DEF Resets, Keys!Escape, Keys!ESCAPE, Keys!F12, Keys!KeyR
    <2>2. UNCHANGED <<power_state, power_button_n>>
      BY <1>5 DEF MEvent, Keys!SHandle, Keys!HandleEvent, Keys!Remaining, Keys!power
    <2>3. UNCHANGED <<io, interrupt_mask, cpu, splashscreen_show>>
      BY <2>1 DEF MEvent
    <2>4. Run!UiDone
      BY <1>1, <1>2, <1>3, <1>4, <1>5, <2>2, <2>3
         DEF Run!UiDone, Run!Quits, Run!power, Run!irqs, Run!counters, Run!cpu, Run!debug, cpu
    <2> QED BY <2>4 DEF Run!Next, Run!Loop
  <1>6. CASE ~Keys!Escape(e)
    <2>1. Keys!HotKey(e) \/ Keys!PlainKey(e)
      BY <1>6 DEF MEvent, Keys!SHandle, Keys!HandleEvent, Keys!Remaining
    <2>2. CASE Resets(e)
      <3>1. /\ power_state' = "on" /\ splashscreen_show' = FALSE
            /\ io'[IRQ_MASK] \cap {1, 4} = {} /\ interrupt_mask' = {}
            /\ regPC' = 0 /\ int_possible' = FALSE
        BY <2>2, SpecialCells DEF MEvent, ms_power_on_reset, ClearPending
      <3>2. Run!ms_power_on_reset
        BY <3>1 DEF Run!ms_power_on_reset, Run!ON
      <3>3. CASE e.sym = Keys!F12
        <4>1. Keys!PowerButton(e)
          BY <2>1, <3>3 DEF Keys!HotKey, Keys!PlainKey, Keys!F12, Keys!KeyR
        <4>2. power_button_n' = 0 /\ power_state = "off" /\ e.type = "down"
          BY <2>2, <3>3, <4>1 DEF Keys!PowerButton, Keys!Handled, Resets, Keys!F12, Keys!KeyR
        <4>3. Run!F12("down")
          BY <1>1, <1>2, <1>4, <1>6, <3>2, <4>2 DEF Run!F12, Run!OFF, Run!counters, Run!debug
        <4> QED BY <4>3 DEF Run!Next, Run!Environment
      <3>4. CASE e.sym # Keys!F12
        <4>1. e.rctrl /\ e.type = "down" /\ e.sym = Keys!KeyR
          BY <2>2, <3>4 DEF Resets
        <4>2. power_button_n' = power_button_n
          BY <2>1, <4>1 DEF Keys!HotKey, Keys!PlainKey
        <4>3. Run!HardReset
          BY <1>1, <1>2, <1>4, <1>6, <3>2, <4>2 DEF Run!HardReset, Run!counters, Run!debug
        <4> QED BY <4>3 DEF Run!Next, Run!Environment
      <3> QED BY <3>3, <3>4
    <2>3. CASE ~Resets(e)
      <3>1. UNCHANGED <<io, interrupt_mask, power_state>>
        BY <2>3, QuietEvent
      <3>2. UNCHANGED <<regPC, int_possible, splashscreen_show>>
        BY <2>3 DEF MEvent, cpu
      <3>3. ~(e.rctrl /\ e.type = "down" /\ e.sym = Keys!KeyR)
        BY <2>3 DEF Resets
      <3>4. Keys!PowerButton(e)
        BY <2>1, <3>3 DEF Keys!HotKey, Keys!PlainKey
      <3>5. CASE e.sym = Keys!F12
        <4>1. /\ power_button_n' = IF e.type = "down" THEN 0 ELSE 1
              /\ ~(power_state = "off" /\ power_button_n' = 0)
          BY <1>1, <2>3, <3>4, <3>5 DEF Keys!PowerButton, Keys!Handled, Resets
        <4>2. Run!F12(e.type)
          BY <1>1, <1>2, <1>4, <1>6, <3>1, <3>2, <4>1
             DEF Run!F12, Run!OFF, Run!power, Run!irqs, Run!cpu, Run!counters, Run!debug
        <4> QED BY <1>1, <4>2 DEF Run!Next, Run!Environment
      <3>6. CASE e.sym # Keys!F12
        <4>1. UNCHANGED power_button_n
          BY <3>4, <3>6 DEF Keys!PowerButton, Keys!power
        <4> QED BY <1>1, <1>2, <1>4, <1>6, <3>1, <3>2, <4>1
                DEF Run!vars, Run!power, Run!irqs, Run!counters, Run!cpu, Run!debug
      <3> QED BY <3>5, <3>6
    <2> QED BY <2>2, <2>3
  <1> QED BY <1>5, <1>6

(* The loop sees of the ports and the keys what RunLoop lets it see.       *)
LEMMA RunStep == MInv /\ [MNext]_mvars => [Run!Next]_Run!vars
  <1> SUFFICES ASSUME MInv, [MNext]_mvars PROVE [Run!Next]_Run!vars
    OBVIOUS
  <1>1. CASE MLoop \/ MTerminal
    <2>1. CASE Run!LoopTop \/ Run!SliceDone \/ Run!Prompt \/ Run!sigint
      BY <2>1 DEF Run!Next, Run!Loop, Run!Environment
    <2>2. ASSUME NEW delta \in Deltas, Run!Gate(delta) PROVE Run!Next
      BY <2>2 DEF Run!Next, Run!Loop
    <2>3. ASSUME NEW t \in Tstates, NEW next \in Code, NEW can \in BOOLEAN,
                 Run!Access(t, next, can)
          PROVE  Run!Next
      BY <2>3 DEF Run!Next, Run!Loop, Run!Instruction
    <2>4. ASSUME NEW t \in IntTstates, Run!Timer(t) PROVE Run!Next
      BY <2>4 DEF Run!Next, Run!Loop
    <2> QED BY <1>1, <2>1, <2>2, <2>3, <2>4 DEF MLoop, MTerminal
  <1>2. ASSUME NEW port \in Port, NEW val \in Val, MWrite(port, val) PROVE Run!Next
    BY <1>2, WriteIsInstruction DEF Run!Next, Run!Loop
  <1>3. CASE MUser
    <2>1. /\ UNCHANGED <<power_state, power_button_n, io, interrupt_mask>>
          /\ UNCHANGED loop
      BY <1>3 DEF MUser, registers, Keys!Press, Keys!Release, Keys!power
    <2>2. CASE UNCHANGED Escaping
      BY <2>1, <2>2
         DEF loop, cpu, Run!vars, Run!power, Run!irqs, Run!counters, Run!cpu, Run!debug
    <2>3. CASE ~UNCHANGED Escaping
      <3>1. Escaping' = TRUE /\ pc # "exit"
        BY <1>3, <2>3, EscapeComes DEF MUser, Escaping
      <3>2. Run!EscPressed
        BY <2>1, <3>1 DEF loop, cpu, Run!EscPressed, Run!power, Run!irqs, Run!counters,
                          Run!cpu, Run!debug
      <3> QED BY <3>2 DEF Run!Next, Run!Environment
    <2> QED BY <2>2, <2>3
  <1>4. CASE MEvent
    BY <1>4, EventIsEnvironment
  <1>5. CASE MDrained
    <2>1. /\ UNCHANGED <<power_state, power_button_n, io, interrupt_mask, queue, exited>>
          /\ queue = << >>
      BY <1>5 DEF MDrained, registers, Keys!Drained, Keys!power
    <2>2. ~Escaping /\ UNCHANGED Escaping
      <3>1. ~exited
        BY <1>5 DEF MDrained, MInv
      <3>2. Len(queue) = 0
        BY <2>1, EmptySeq
      <3> QED BY <2>1, <3>1, <3>2 DEF Escaping
    <2>3. Run!UiDone
      BY <1>5, <2>1, <2>2
         DEF MDrained, cpu, Run!UiDone, Run!Quits, Run!power, Run!irqs, Run!counters,
             Run!cpu, Run!debug
    <2> QED BY <2>3 DEF Run!Next, Run!Loop
  <1>6. CASE MClock \/ MTerminated \/ UNCHANGED mvars
    BY <1>6 DEF MClock, MTerminated, ClockMoves, mvars, vars, hardware, loop, window, cpu,
                Escaping, Run!vars, Run!power, Run!irqs, Run!counters, Run!cpu, Run!debug
  <1> QED BY <1>1, <1>2, <1>3, <1>4, <1>5, <1>6 DEF MNext, MStep

(* The machine's loop is that of RunLoop.                                  *)
THEOREM MachineIsRunLoop == MSpec => LoopIsRunLoop
  <1>1. MInit => Run!Init
    BY DEF MInit
  <1> QED BY <1>1, MInvInit, MInvStep, RunStep, PTL DEF MSpec, LoopIsRunLoop, Run!Spec

\* Once the events are handled, the proofs of the keyboard apply.
LEMMA SettledKeys ==
  ASSUME MInv, Settled
  PROVE  KeyProofs!Settled /\ ~exited
  BY DEF MInv, Settled, KeyProofs!Settled

(* The firmware's view of the power button is the user's finger.           *)
THEOREM ButtonReachesFirmware == MSpec => []ButtonIsSeen
  <1>1. MInv => ButtonIsSeen
    <2> SUFFICES ASSUME MInv, Settled
                 PROVE  4 \notin pread(MISC9) <=> Keys!F12 \in held
      BY DEF ButtonIsSeen
    <2>1. power_button_n = 0 <=> Keys!F12 \in held
      BY SettledKeys, KeyAssumptions, KeyProofs!SettledIsQuiet
         DEF MInv, KeyProofs!SInv, KeyProofs!Inv, KeyProofs!ButtonUpToDate, Keys!F12, KeyProofs!F12
    <2>2. pread(MISC9) = PowerBits \cup StoredLow(io[MISC9])
      BY SMT DEF pread, z80ex_pread, Decoded, KEYBOARD, MISC9, IRQ_MASK, ClockPorts, RTC_SEC, RTC_10YR
    <2>3. 4 \notin StoredLow(io[MISC9])
      BY SMT DEF StoredLow
    <2>4. 4 \in PowerBits <=> power_button_n = 1
      BY SMT DEF PowerBits
    <2>5. power_button_n \in {0, 1}
      BY DEF MInv, RInv, TypeOK
    <2> QED BY <2>1, <2>2, <2>3, <2>4, <2>5
  <1> QED BY <1>1, MInvInit, MInvStep, PTL DEF MSpec

\* The rows the code computes are those the firmware's writes select.
LEMMA RowsAreSelected ==
  ASSUME MInv, NEW i \in 0 .. 9
  PROVE  i \notin kbaddr <=> i \in Selected
  <1>1. KEYBOARD \in Used /\ MISC2 \in Used
    BY RowPortsAssumption, SMT DEF Used, KEYBOARD, MISC2
  <1>2. io[KEYBOARD] = last[KEYBOARD] /\ io[MISC2] = last[MISC2]
    BY <1>1 DEF MInv, RInv, BufferIsLast
  <1>3. io[KEYBOARD] \subseteq 0 .. 7
    BY <1>1, UsedAreCells DEF MInv, RInv, TypeOK, Bits
  <1>4. CASE i < 8
    <2>1. i \in kbaddr <=> i \in io[KEYBOARD]
      BY <1>4 DEF kbaddr
    <2> QED BY <1>2, <1>4, <2>1 DEF Selected
  <1>5. CASE i >= 8
    <2>1. i \notin io[KEYBOARD] /\ i - 8 \in {0, 1} /\ (i - 8) + 8 = i
      BY <1>3, <1>5
    <2>2. \A b \in {0, 1} : b + 8 = i => b = i - 8
      BY <1>5
    <2>3. i \in kbaddr <=> i - 8 \in io[MISC2]
      BY <2>1, <2>2 DEF kbaddr
    <2> QED BY <1>2, <1>5, <2>3 DEF Selected
  <1> QED BY <1>4, <1>5

(* The firmware's view of the keys is the user's hand, in the rows it has  *)
(* selected at two ports, one of them shared with the LED.                 *)
THEOREM KeysReachFirmware == MSpec => []KeysAreSeen
  <1>1. MInv => KeysAreSeen
    <2> DEFINE Held(keys) ==
                 {LUT[k][2] : k \in {l \in keys \cap DOMAIN LUT : LUT[l][1] \in Selected}}
               seen == Bits \ pread(KEYBOARD)
    <2> SUFFICES ASSUME MInv, Settled
                 PROVE  Held(held \ hidden) \subseteq seen /\ seen \subseteq Held(held \cup hidden)
      BY DEF KeysAreSeen
    <2>1. \A keys : Held(keys) = KeyProofs!Columns(keys, kbaddr)
      <3>1. \A k \in DOMAIN LUT : LUT[k][1] \in Selected <=> LUT[k][1] \notin kbaddr
        BY RowsAreSelected, KeyAssumption
      <3> QED BY <3>1 DEF KeyProofs!Columns
    <2>2. /\ KeyProofs!Columns(held \ hidden, kbaddr) \subseteq KeyProofs!kbresult(kbaddr)
          /\ KeyProofs!kbresult(kbaddr) \subseteq KeyProofs!Columns(held \cup hidden, kbaddr)
      BY SettledKeys, KeyAssumptions, KeyProofs!HeldIsSeen DEF MInv
    <2>3. seen = KeyProofs!kbresult(kbaddr)
      <3>1. Keys!kbresult(kbaddr) = KeyProofs!kbresult(kbaddr)
        BY DEF Keys!kbresult, KeyProofs!kbresult, Keys!RowsScanned, KeyProofs!RowsScanned
      <3>2. Keys!kbresult(kbaddr) \subseteq Bits
        BY DEF Keys!kbresult, Bits
      <3>3. pread(KEYBOARD) = Bits \ Keys!kbresult(kbaddr)
        BY SMT DEF pread, Decoded, KEYBOARD
      <3> QED BY <3>1, <3>2, <3>3
    <2> QED BY <2>1, <2>2, <2>3
  <1> QED BY <1>1, MInvInit, MInvStep, PTL DEF MSpec

=============================================================================
