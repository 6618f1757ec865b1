--------------------------- MODULE RunLoopProofs ---------------------------
(***************************************************************************)
(* Proofs about the run loop, its debugger and its clock, for every period *)
(* and every instruction set.                                              *)
(***************************************************************************)
EXTENDS DebugCommands, RunLoopScreen, TLAPS

-----------------------------------------------------------------------------
(* Type correctness                                                        *)

\* What n % p is for the only n there are.
LEMMA Reduced ==
  ASSUME NEW p \in Nat \ {0}, NEW n \in Nat
  PROVE  /\ n % p \in 0 .. p - 1
         /\ n < p => n % p = n /\ n \div p = 0
         /\ n >= p /\ n < 2 * p => n % p = n - p /\ n \div p = 1
  <1>1. n % p \in 0 .. p - 1
    BY SMT
  <1>2. ASSUME n < p PROVE n % p = n /\ n \div p = 0
    BY <1>2, SMT
  <1>3. ASSUME n >= p, n < 2 * p PROVE n % p = n - p /\ n \div p = 1
    BY <1>3, SMT
  <1> QED BY <1>1, <1>2, <1>3

LEMMA TypeInit == Init => TypeOK
  <1> SUFFICES ASSUME Init PROVE TypeOK
    OBVIOUS
  <1>1. tstate_counter \in Nat /\ tstate_counter < interrupt_period
        /\ execute_counter \in 0 .. 15 /\ icount \in 0 .. Hertz
    BY PeriodAssumption, TimeAssumption, SMT DEF Init
  <1>2. bp \in [{"pc", "mr", "mw"} -> BpAddr \cup {-1}]
    BY DEF Init
  <1>3. irq_port \subseteq {KBD, TIME16} /\ interrupt_mask \subseteq {KBD, TIME16}
    BY DEF Init
  <1>4. regPC \in Code
    BY AddressAssumption DEF Init
  <1>5. power_state \in {ON, OFF} /\ power_button_n \in {0, 1}
    BY DEF Init
  <1>6. splashscreen_show \in BOOLEAN /\ int_possible \in BOOLEAN
        /\ hits \in BOOLEAN /\ esc \in BOOLEAN
    BY DEF Init
  <1> QED BY <1>1, <1>2, <1>3, <1>4, <1>5, <1>6 DEF Init, TypeOK

LEMMA TypeInstruction == TypeOK /\ Instruction => TypeOK'
  <1> SUFFICES ASSUME TypeOK, NEW t \in Tstates, NEW next \in Code, NEW can \in BOOLEAN,
                      Access(t, next, can) \/ OutIrqMask(t, next, can) \/ OutPowerOff(t, next, can)
               PROVE  TypeOK'
    BY DEF Instruction
  <1>1. t \in Nat /\ interrupt_period \in Nat
    BY TimeAssumption, PeriodAssumption
  <1>2. ASSUME NEW reads, NEW writes, Step(t, next, can, reads, writes)
        PROVE  /\ pc' \in {"slice", "int"} /\ tstate_counter' \in Nat
               /\ regPC' \in Code /\ int_possible' \in BOOLEAN /\ hits' \in BOOLEAN
               /\ UNCHANGED <<power_button_n, execute_counter, icount, bp, esc>>
    <2>1. hits' \in BOOLEAN
      BY <1>2 DEF Step, TypeOK, Watched, Reaches
    <2> QED BY <1>1, <1>2, <2>1, SMT DEF Step, Counted, TypeOK
  <1>3. CASE Access(t, next, can)
    <2>1. PICK reads \in SUBSET Data, writes \in SUBSET Data :
            Step(t, next, can, reads, writes)
            /\ ram' = (IF writes = {} THEN ram ELSE "used") /\ UNCHANGED <<power, irqs>>
      BY <1>3 DEF Access
    <2> QED BY <1>2, <2>1 DEF TypeOK, power, irqs
  <1>4. CASE OutIrqMask(t, next, can)
    <2>1. PICK val \in PortVals :
            Step(t, next, can, {}, {}) /\ interrupt_mask' = interrupt_mask \cap val
            /\ irq_port' = val /\ UNCHANGED <<power, ram>>
      BY <1>4 DEF OutIrqMask
    <2> QED BY <1>2, <2>1, PortAssumption DEF TypeOK, power
  <1>5. CASE OutPowerOff(t, next, can)
    BY <1>2, <1>5 DEF OutPowerOff, ms_power_off, TypeOK, irqs
  <1> QED BY <1>3, <1>4, <1>5

LEMMA TypeTimer == TypeOK /\ (\E t \in IntTstates : Timer(t)) => TypeOK'
  <1> SUFFICES ASSUME TypeOK, NEW t \in IntTstates, Timer(t) PROVE TypeOK'
    OBVIOUS
  <1>1. t \in Nat /\ interrupt_period \in Nat \ {0} /\ tstate_counter \in Nat
        /\ tstate_counter + t \in Nat
    BY TimeAssumption, PeriodAssumption, SMT DEF TypeOK
  <1>2. \A n \in Nat : Remainder(n) \in Nat /\ Remainder(n) < interrupt_period
    BY <1>1, Reduced, SMT DEF Remainder
  <1>u. pc' = "ui" /\ UNCHANGED <<execute_counter, power, power_button_n, irq_port, esc>>
    BY DEF Timer
  <1>3. CASE tstate_counter < interrupt_period
    BY <1>1, <1>3, SMT DEF Timer, TypeOK, power, cpu, debug
  <1>4. CASE tstate_counter >= interrupt_period /\ ~int_possible
    <2>1. tstate_counter' = Remainder(tstate_counter)
          /\ UNCHANGED <<icount, interrupt_mask, cpu, debug, ram>>
      BY <1>4 DEF Timer, process_interrupts
    <2> QED BY <1>1, <1>2, <1>u, <2>1 DEF TypeOK, power, cpu, debug
  <1>5. CASE tstate_counter >= interrupt_period /\ int_possible
    <2>0. icount' = (IF second THEN 0 ELSE icount + 1) /\ RaisePending /\ z80ex_int(t)
      BY <1>5 DEF Timer, process_interrupts
    <2>1. icount' \in 0 .. Hertz
      BY <2>0, TimeAssumption, SMT DEF second, TypeOK
    <2>2. interrupt_mask' \subseteq {KBD, TIME16}
      BY <2>0 DEF RaisePending, Raise, TypeOK
    <2>3. regPC' \in Code /\ int_possible' \in BOOLEAN /\ ram' = "used" /\ UNCHANGED bp
          /\ tstate_counter' = Remainder(tstate_counter + t)
      <3>1. PICK entry \in Vector : regPC' = entry
        BY <2>0 DEF z80ex_int
      <3>2. Vector \subseteq Code
        BY AddressAssumption
      <3> QED BY <2>0, <3>1, <3>2 DEF z80ex_int
    <2>4. hits' \in BOOLEAN
      BY <2>0 DEF z80ex_int, Watched, TypeOK
    <2> QED BY <1>1, <1>2, <1>u, <2>1, <2>2, <2>3, <2>4 DEF TypeOK, power
  <1>6. tstate_counter < interrupt_period \/ tstate_counter >= interrupt_period
    BY <1>1, SMT
  <1> QED BY <1>3, <1>4, <1>5, <1>6

LEMMA TypeReset == ASSUME TypeOK, ms_power_on_reset
                   PROVE  /\ power_state' \in {ON, OFF} /\ splashscreen_show' \in BOOLEAN
                          /\ irq_port' \subseteq {KBD, TIME16}
                          /\ interrupt_mask' \subseteq {KBD, TIME16}
                          /\ regPC' \in Code /\ int_possible' \in BOOLEAN
  <1>1. regPC' \in Code
    BY AddressAssumption DEF ms_power_on_reset
  <1>2. power_state' \in {ON, OFF} /\ splashscreen_show' \in BOOLEAN
        /\ int_possible' \in BOOLEAN
    BY DEF ms_power_on_reset
  <1>3. irq_port' \subseteq {KBD, TIME16} /\ interrupt_mask' \subseteq {KBD, TIME16}
    BY DEF ms_power_on_reset
  <1> QED BY <1>1, <1>2, <1>3

LEMMA TypeStep == TypeOK /\ [Next]_vars => TypeOK'
  <1> SUFFICES ASSUME TypeOK, [Next]_vars PROVE TypeOK'
    OBVIOUS
  <1> USE DEF power, irqs, counters, cpu, debug
  <1>1. CASE LoopTop
    BY <1>1 DEF TypeOK, LoopTop
  <1>2. ASSUME NEW delta \in Deltas, Gate(delta) PROVE TypeOK'
    <2>1. execute_counter' \in 0 .. 15
      BY <1>2, TimeAssumption, SMT DEF TypeOK, Gate, Spent
    <2>2. pc' \in {"ui", "slice", "int"}
      BY <1>2 DEF Gate
    <2>3. pc = "gate" /\ UNCHANGED <<power, power_button_n, ram, irqs, tstate_counter,
                                     icount, cpu, debug, esc>>
      BY <1>2 DEF Gate
    <2> QED BY <2>1, <2>2, <2>3 DEF TypeOK
  <1>3. CASE Instruction
    BY <1>3, TypeInstruction
  <1>4. CASE SliceDone
    BY <1>4 DEF TypeOK, SliceDone
  <1>5. CASE \E t \in IntTstates : Timer(t)
    BY <1>5, TypeTimer
  <1>6. CASE UiDone
    BY <1>6 DEF TypeOK, UiDone
  <1>7. CASE Prompt
    <2>1. hits' \in BOOLEAN
      <3>1. CASE \E a \in BpAddr \cup {-1} : md(a)
        BY <3>1 DEF md, TypeOK
      <3>2. CASE \E sp \in Stacks : dump_stack(sp)
        BY <3>2 DEF dump_stack, TypeOK
      <3> QED BY <1>7, <3>1, <3>2
              DEF Prompt, quit, continue, single_step, set_bp, TypeOK
    <2>2. /\ Command /\ bp' \in [{"pc", "mr", "mw"} -> BpAddr \cup {-1}]
          /\ pc' \in {"prompt", "gate", "exit"}
      BY <1>7 DEF Prompt, quit, continue, single_step, set_bp, md, dump_stack, Command, TypeOK
    <2> QED BY <2>1, <2>2 DEF Command, TypeOK
  <1>8. CASE Environment
    <2>1. CASE sigint
      BY <2>1 DEF sigint, TypeOK
    <2>2. CASE EscPressed
      BY <2>2 DEF EscPressed, TypeOK
    <2>3. CASE HardReset
      BY <2>3, TypeReset DEF HardReset, TypeOK
    <2>4. ASSUME NEW eventtype \in {"down", "up"}, F12(eventtype) PROVE TypeOK'
      BY <2>4, TypeReset DEF F12, TypeOK
    <2> QED BY <1>8, <2>1, <2>2, <2>3, <2>4 DEF Environment
  <1>9. CASE UNCHANGED vars
    BY <1>9 DEF vars, TypeOK
  <1> QED BY <1>1, <1>2, <1>3, <1>4, <1>5, <1>6, <1>7, <1>8, <1>9
          DEF Next, Loop, Terminated

(* Type correctness of the run loop, with the bounds on what is carried    *)
(* from one iteration into the next.                                       *)
THEOREM TypeCorrect == Spec => []TypeOK
  BY TypeInit, TypeStep, PTL DEF Spec

-----------------------------------------------------------------------------
(* The debugger                                                            *)

dall == <<vars, dvars>>

After == {"int", "ui", "top", "exit"}

\* An instruction begun under a pending break was the last one.
LateOK == late \in {0, 1} /\ (late = 1 => hits /\ pc \in After)

\* How far a single step has come, place by place.
StepOK ==
  /\ powered \in BOOLEAN
  /\ cmd = "s" =>
       /\ pc = "gate" => hits /\ ran = 0 /\ powered = (power_state = ON)
       /\ pc = "slice" => hits /\ ran = 0 /\ powered /\ tstate_counter < interrupt_period
       /\ pc = "int" => hits /\ ran = 1 /\ powered
       /\ pc \in {"ui", "top"} => hits /\ ran = IF powered THEN 1 ELSE 0
       /\ pc = "prompt" => ran = IF powered THEN 1 ELSE 0

\* An instruction that led to the PC breakpoint has left the slice.
CaughtOK ==
  /\ pc = "prompt" => arrived = "prompt"
  /\ arrived = "step" /\ regPC = bp.pc => hits /\ pc \in After

DInv == TypeOK /\ LateOK /\ StepOK /\ CaughtOK

LEMMA DebuggerOnly == [DNext]_dall => [Next]_vars
  <1> SUFFICES ASSUME DNext PROVE Next \/ UNCHANGED vars
    BY DEF dall
  <1>1. CASE DInstruction
    BY <1>1 DEF DInstruction, Next, Loop
  <1>2. CASE DEntry
    BY <1>2 DEF DEntry, Next, Loop, Environment
  <1>3. CASE DOpen
    BY <1>3 DEF DOpen, Next, Loop
  <1>4. CASE DLeave
    BY <1>4 DEF DLeave, DContinue, DStep, Next, Prompt
  <1>5. CASE DOther
    BY <1>5 DEF DOther, Next, Loop, Environment, Prompt
  <1> QED BY <1>1, <1>2, <1>3, <1>4, <1>5 DEF DNext

\* What every instruction does, whatever else it does.
LEMMA InstructionIs ==
  ASSUME TypeOK, Instruction
  PROVE  /\ pc = "slice" /\ tstate_counter < interrupt_period
         /\ \E t \in Tstates : tstate_counter' = tstate_counter + t
         /\ hits => hits'
         /\ regPC' = bp.pc => hits'
         /\ pc' = IF hits' THEN "int" ELSE "slice"
         /\ UNCHANGED <<power_button_n, execute_counter, icount, bp, esc>>
  <1> SUFFICES ASSUME NEW t \in Tstates, NEW next \in Code, NEW can \in BOOLEAN,
                      NEW reads, NEW writes, Step(t, next, can, reads, writes)
               PROVE  /\ pc = "slice" /\ tstate_counter < interrupt_period
                      /\ tstate_counter' = tstate_counter + t
                      /\ hits => hits'
                      /\ regPC' = bp.pc => hits'
                      /\ pc' = IF hits' THEN "int" ELSE "slice"
                      /\ UNCHANGED <<power_button_n, execute_counter, icount, bp, esc>>
    BY DEF Instruction, Access, OutIrqMask, OutPowerOff
  <1> QED BY DEF Step, Counted, Reaches, Stops

LEMMA DInstructionKeeps == ASSUME DInv, DInstruction PROVE LateOK' /\ StepOK' /\ CaughtOK'
  <1> USE DEF DInv
  <1>0. Instruction /\ arrived' = "step" /\ UNCHANGED <<cmd, powered>>
        /\ ran' = OneMore(ran) /\ late' = IF hits THEN OneMore(late) ELSE late
    BY DEF DInstruction
  <1>1. pc = "slice" /\ (hits => hits') /\ (regPC' = bp'.pc => hits')
        /\ pc' = IF hits' THEN "int" ELSE "slice"
    BY <1>0, InstructionIs
  <1>2. LateOK'
    <2>1. late = 0
      BY <1>1 DEF LateOK, After
    <2>2. late' = IF hits THEN 1 ELSE 0
      BY <1>0, <2>1, SMT DEF OneMore
    <2> QED BY <1>1, <2>2 DEF LateOK, After
  <1>3. StepOK'
    <2>1. ASSUME cmd = "s" PROVE pc' = "int" /\ hits' /\ ran' = 1 /\ powered
      <3>1. hits /\ ran = 0 /\ powered
        BY <1>1, <2>1 DEF StepOK
      <3>2. ran' = 1
        BY <1>0, <3>1, SMT DEF OneMore
      <3> QED BY <1>1, <3>1, <3>2
    <2> QED BY <1>0, <2>1 DEF StepOK
  <1>4. CaughtOK'
    BY <1>1 DEF CaughtOK, After
  <1> QED BY <1>2, <1>3, <1>4

LEMMA DEntryKeeps == ASSUME DInv, DEntry PROVE LateOK' /\ StepOK' /\ CaughtOK'
  <1> USE DEF DInv
  <1>0. UNCHANGED <<cmd, powered, ran, late>>
        /\ arrived' = IF UNCHANGED cpu THEN arrived ELSE "entry"
    BY DEF DEntry
  <1>1. CASE \E t \in IntTstates : Timer(t)
    <2>1. PICK t \in IntTstates : Timer(t)
      BY <1>1
    <2>2. pc = "int" /\ pc' = "ui"
      BY <2>1 DEF Timer
    <2>3. (hits => hits') /\ UNCHANGED bp
      BY <2>1 DEF Timer, process_interrupts, z80ex_int, debug
    <2> QED BY <1>0, <2>2, <2>3 DEF LateOK, StepOK, CaughtOK, After, cpu
  <1>2. CASE HardReset
    <2>1. pc = "ui" /\ pc' = "ui" /\ UNCHANGED <<hits, bp, tstate_counter>>
      BY <1>2 DEF HardReset, debug, counters
    <2> QED BY <1>0, <2>1 DEF LateOK, StepOK, CaughtOK, After, cpu
  <1>3. CASE \E eventtype \in {"down", "up"} : F12(eventtype)
    <2>1. pc = "ui" /\ pc' = "ui" /\ UNCHANGED <<hits, bp, tstate_counter>>
      BY <1>3 DEF F12, debug, counters
    <2> QED BY <1>0, <2>1 DEF LateOK, StepOK, CaughtOK, After, cpu
  <1> QED BY <1>1, <1>2, <1>3 DEF DEntry

LEMMA DOpenKeeps == ASSUME DInv, DOpen PROVE LateOK' /\ StepOK' /\ CaughtOK'
  <1> USE DEF DInv
  <1>0. pc = "top" /\ UNCHANGED <<cmd, powered, ran, bp, regPC>>
    BY DEF DOpen, LoopTop, debug, cpu
  <1>1. CASE hits
    <2>1. pc' = "prompt" /\ late' = 0 /\ arrived' = "prompt"
      BY <1>1 DEF DOpen, LoopTop, Prompts, debug_isbreak
    <2> QED BY <1>0, <1>1, <2>1 DEF LateOK, StepOK, CaughtOK
  <1>2. CASE ~hits
    <2>1. pc' = "gate" /\ UNCHANGED <<late, arrived, hits>>
      BY <1>2 DEF DOpen, LoopTop, Prompts, debug_isbreak
    <2> QED BY <1>0, <1>2, <2>1 DEF LateOK, StepOK, CaughtOK
  <1> QED BY <1>1, <1>2

LEMMA DLeaveKeeps == ASSUME DInv, DLeave PROVE LateOK' /\ StepOK' /\ CaughtOK'
  <1> USE DEF DInv
  <1>0. pc = "prompt" /\ pc' = "gate" /\ ran' = 0 /\ powered' = (power_state = ON)
        /\ UNCHANGED <<late, arrived, power_state>>
    BY DEF DLeave, DContinue, DStep, Leaves, continue, single_step, Command, power
  <1>1. cmd' = "s" => hits'
    BY DEF DLeave, DContinue, DStep, Leaves, single_step
  <1> QED BY <1>0, <1>1 DEF LateOK, StepOK, CaughtOK, After

LEMMA DOtherKeeps == ASSUME DInv, DOther PROVE LateOK' /\ StepOK' /\ CaughtOK'
  <1> USE DEF DInv
  <1>0. UNCHANGED <<cmd, powered, ran, late, arrived>>
    BY DEF DOther, dvars
  <1>1. ASSUME NEW delta \in Deltas, Gate(delta) PROVE LateOK' /\ StepOK' /\ CaughtOK'
    <2>1. /\ pc = "gate" /\ UNCHANGED <<hits, bp, regPC, tstate_counter>>
          /\ power_state # ON => pc' = "ui"
          /\ power_state = ON => pc' \in {"slice", "int"} /\ (hits => pc' = "slice")
      BY <1>1 DEF Gate, Powered, debug_isbreak, debug, cpu
    <2>2. tstate_counter < interrupt_period
      BY <2>1 DEF TypeOK
    <2> QED BY <1>0, <2>1, <2>2 DEF LateOK, StepOK, CaughtOK, After
  <1>2. CASE SliceDone
    <2>1. pc = "slice" /\ pc' = "int" /\ ~(tstate_counter < interrupt_period)
          /\ UNCHANGED <<hits, bp, regPC>>
      BY <1>2, PeriodAssumption, SMT DEF SliceDone, TypeOK, debug, cpu
    <2> QED BY <1>0, <2>1 DEF LateOK, StepOK, CaughtOK, After
  <1>3. CASE UiDone
    <2>1. pc = "ui" /\ pc' \in {"exit", "top"} /\ UNCHANGED <<hits, bp, regPC>>
      BY <1>3 DEF UiDone, debug, cpu
    <2> QED BY <1>0, <2>1 DEF LateOK, StepOK, CaughtOK, After
  <1>4. CASE EscPressed \/ Terminated \/ sigint
    <2>1. UNCHANGED <<pc, bp, regPC, tstate_counter, power_state>> /\ (hits => hits')
      BY <1>4 DEF EscPressed, Terminated, sigint, vars, debug, cpu, counters, power
    <2> QED BY <1>0, <2>1 DEF LateOK, StepOK, CaughtOK, After
  <1>5. CASE quit
    <2>1. pc = "prompt" /\ pc' = "exit" /\ UNCHANGED hits
      BY <1>5 DEF quit, Command, debug
    <2> QED BY <1>0, <2>1 DEF LateOK, StepOK, CaughtOK, After
  <1>6. ASSUME pc = "prompt", pc' = "prompt"
        PROVE  LateOK' /\ StepOK' /\ CaughtOK'
    BY <1>0, <1>6 DEF LateOK, StepOK, CaughtOK, After
  <1>7. ASSUME NEW kind \in {"pc", "mr", "mw"}, NEW a, set_bp(kind, a)
        PROVE  pc = "prompt" /\ pc' = "prompt"
    BY <1>7 DEF set_bp, Command
  <1>8. ASSUME NEW a, md(a)
        PROVE  pc = "prompt" /\ pc' = "prompt"
    BY <1>8 DEF md, Command
  <1>9. ASSUME NEW sp, dump_stack(sp)
        PROVE  pc = "prompt" /\ pc' = "prompt"
    BY <1>9 DEF dump_stack, Command
  <1> QED BY <1>1, <1>2, <1>3, <1>4, <1>5, <1>6, <1>7, <1>8, <1>9 DEF DOther

LEMMA DInvInit == DInit => DInv
  <1> SUFFICES ASSUME DInit PROVE DInv
    OBVIOUS
  <1>1. TypeOK
    BY TypeInit DEF DInit
  <1>2. pc = "top" /\ cmd = "none" /\ powered = FALSE /\ late = 0 /\ arrived = "entry"
    BY DEF DInit, Init
  <1>3. LateOK
    BY <1>2, SMT DEF LateOK
  <1>4. StepOK
    BY <1>2 DEF StepOK, After
  <1>5. CaughtOK
    BY <1>2 DEF CaughtOK
  <1> QED BY <1>1, <1>3, <1>4, <1>5 DEF DInv

LEMMA DInvStep == DInv /\ [DNext]_dall => DInv'
  <1> SUFFICES ASSUME DInv, [DNext]_dall PROVE DInv'
    OBVIOUS
  <1>1. TypeOK'
    BY DebuggerOnly, TypeStep DEF DInv
  <1>2. CASE UNCHANGED dall
    BY <1>1, <1>2 DEF DInv, LateOK, StepOK, CaughtOK, dall, vars, dvars, power, irqs,
       counters, cpu, debug
  <1> QED BY <1>1, <1>2, DInstructionKeeps, DEntryKeeps, DOpenKeeps, DLeaveKeeps,
             DOtherKeeps DEF DNext, DInv

(* At most one instruction is begun between a break and the prompt.        *)
THEOREM BreakPrompts == DSpec => []BreakIsPrompt
  <1>1. DInv => BreakIsPrompt
    BY SMT DEF DInv, LateOK, BreakIsPrompt
  <1> QED BY <1>1, DInvInit, DInvStep, PTL DEF DSpec, dall

(* s runs one instruction, or none of a machine that is off.               *)
THEOREM StepsOne == DSpec => []StepIsOne
  <1>1. DInv => StepIsOne
    BY DEF DInv, StepOK, StepIsOne
  <1> QED BY <1>1, DInvInit, DInvStep, PTL DEF DSpec, dall

(* No instruction runs at the PC breakpoint when one led there.            *)
THEOREM Caught == DSpec => PcBreakpointCaught
  <1>1. DInv /\ [DNext]_dall => [DInstruction /\ regPC = bp.pc => arrived # "step"]_dall
    <2> SUFFICES ASSUME DInv, DInstruction, regPC = bp.pc PROVE arrived # "step"
      OBVIOUS
    <2>1. pc = "slice"
      BY InstructionIs DEF DInv, DInstruction
    <2> QED BY <2>1 DEF DInv, CaughtOK, After
  <1> QED BY <1>1, DInvInit, DInvStep, PTL DEF DSpec, dall, PcBreakpointCaught

-----------------------------------------------------------------------------
(* The clock                                                               *)

tall == <<vars, tvars>>

\* Less than one more instruction and its interrupt is owed to the timer, and
\* the phase is the counter reduced.
PhaseOK ==
  /\ phase \in Nat /\ tstate_counter < 2 * interrupt_period
  /\ \A i \in IntTstates : tstate_counter + i < 2 * interrupt_period
                           \/ tstate_counter < interrupt_period
  /\ tstate_counter < interrupt_period => phase = tstate_counter /\ owed = 0
  /\ tstate_counter >= interrupt_period =>
       phase = tstate_counter - interrupt_period /\ owed = 1

\* What ran since the power went off ran in the iteration in progress.
TailOK ==
  /\ tail \in Nat /\ tail < 2 * interrupt_period
  /\ power_state = OFF /\ pc \in {"slice", "int"} => tail <= tstate_counter

\* The gate never holds more than the time that really passed.
PaceOK == waited \in 0 .. 16 /\ gap = 16 /\ execute_counter <= waited

TInv == TypeOK /\ PhaseOK /\ TailOK /\ PaceOK

LEMMA TimingOnly == [TNext]_tall => [Next]_vars
  <1> SUFFICES ASSUME TNext PROVE Next \/ UNCHANGED vars
    BY DEF tall
  <1>1. CASE TInstruction
    BY <1>1 DEF TInstruction, Instruction, Next, Loop
  <1>2. CASE TTimer
    BY <1>2 DEF TTimer, Next, Loop
  <1>3. CASE TGate
    BY <1>3 DEF TGate, Next, Loop
  <1>4. CASE TOther
    BY <1>4 DEF TOther, Next, Loop
  <1> QED BY <1>1, <1>2, <1>3, <1>4 DEF TNext

LEMMA TInvInit == TInit => TInv
  <1> SUFFICES ASSUME TInit PROVE TInv
    OBVIOUS
  <1>0. Init
    BY DEF TInit
  <1>1. TypeOK
    BY <1>0, TypeInit
  <1>2. phase = 0 /\ owed = 0 /\ tail = 0 /\ waited = 0 /\ gap = 16
        /\ tstate_counter = 0 /\ execute_counter = 0
    BY <1>0 DEF TInit, Init
  <1>3. PhaseOK /\ TailOK /\ PaceOK
    BY <1>2, PeriodAssumption, TimeAssumption, SMT DEF PhaseOK, TailOK, PaceOK
  <1> QED BY <1>1, <1>3 DEF TInv

LEMMA TInstructionKeeps == ASSUME TInv, TInstruction PROVE PhaseOK' /\ TailOK' /\ PaceOK'
  <1> USE DEF TInv
  <1> PICK t \in Tstates :
        /\ \E next \in Code, can \in BOOLEAN :
             Access(t, next, can) \/ OutIrqMask(t, next, can) \/ OutPowerOff(t, next, can)
        /\ Executed(t)
        /\ owed' = owed + ((phase + t) \div interrupt_period)
        /\ UNCHANGED <<waited, gap>>
    BY DEF TInstruction
  <1>0. /\ t \in Nat /\ interrupt_period \in Nat \ {0} /\ t <= interrupt_period
        /\ \A i \in IntTstates : i \in Nat /\ t + i <= interrupt_period
    BY TimeAssumption, PeriodAssumption, ShortAssumption
  <1>1. /\ tstate_counter < interrupt_period /\ tstate_counter' = tstate_counter + t
        /\ UNCHANGED execute_counter
        /\ pc = "slice"
    BY DEF Access, OutIrqMask, OutPowerOff, Step, Counted
  <1>2. tstate_counter \in Nat /\ phase = tstate_counter /\ owed = 0
        /\ phase + t \in Nat /\ phase + t < 2 * interrupt_period
    BY <1>0, <1>1, SMT DEF PhaseOK, TypeOK
  <1>3. PhaseOK'
    <2>1. phase' = (phase + t) % interrupt_period
      BY DEF Executed
    <2>2. CASE phase + t < interrupt_period
      <3>1. (phase + t) % interrupt_period = phase + t /\ (phase + t) \div interrupt_period = 0
        BY <1>0, <1>2, <2>2, Reduced, Zenon
      <3>2. phase' = phase + t /\ owed' = 0
        BY <1>2, <2>1, <3>1, SMT
      <3> QED BY <1>0, <1>1, <1>2, <2>2, <3>2, SMT DEF PhaseOK
    <2>3. CASE phase + t >= interrupt_period
      <3>0. /\ (phase + t) % interrupt_period = (phase + t) - interrupt_period
            /\ (phase + t) \div interrupt_period = 1
        BY <1>0, <1>2, <2>3, Reduced, Zenon
      <3>1. phase' = (phase + t) - interrupt_period /\ owed' = 1
        BY <1>2, <2>1, <3>0, SMT
      <3> QED BY <1>0, <1>1, <1>2, <2>3, <3>1, SMT DEF PhaseOK
    <2> QED BY <1>0, <1>2, <2>2, <2>3, SMT
  <1>4. TailOK'
    <2>1. tail' = (IF power_state = OFF THEN tail + t ELSE 0)
      BY DEF Executed
    <2>2. power_state = OFF => tail <= tstate_counter
      BY <1>1 DEF TailOK
    <2> QED BY <1>0, <1>1, <1>2, <2>1, <2>2, SMT DEF TailOK
  <1>5. PaceOK'
    BY <1>1 DEF PaceOK
  <1> QED BY <1>3, <1>4, <1>5

LEMMA TTimerKeeps == ASSUME TInv, TTimer PROVE PhaseOK' /\ TailOK' /\ PaceOK'
  <1> USE DEF TInv
  <1> PICK t \in IntTstates :
        /\ Timer(t)
        /\ IF tstate_counter < interrupt_period THEN UNCHANGED <<phase, tail, owed>>
           ELSE IF int_possible
             THEN Executed(t) /\ owed' = owed + ((phase + t) \div interrupt_period) - 1
             ELSE owed' = owed - 1 /\ UNCHANGED <<phase, tail>>
        /\ UNCHANGED <<waited, gap>>
    BY DEF TTimer
  <1>0. t \in Nat /\ interrupt_period \in Nat \ {0} /\ tstate_counter \in Nat
    BY TimeAssumption, PeriodAssumption DEF TypeOK
  <1>1. pc = "int" /\ pc' = "ui" /\ UNCHANGED <<execute_counter, power_state>>
    BY DEF Timer, power
  <1>2. PaceOK'
    BY <1>1 DEF PaceOK
  <1>3. CASE tstate_counter < interrupt_period
    <2>1. UNCHANGED <<tstate_counter, phase, tail, owed>>
      BY <1>0, <1>3, SMT DEF Timer
    <2> QED BY <1>1, <1>2, <2>1 DEF PhaseOK, TailOK
  <1>4. CASE tstate_counter >= interrupt_period
    <2>0. ~(tstate_counter < interrupt_period)
      BY <1>0, <1>4, SMT
    <2>1. phase = tstate_counter - interrupt_period /\ owed = 1
          /\ tstate_counter < 2 * interrupt_period
          /\ tstate_counter + t < 2 * interrupt_period
      BY <1>0, <1>4, <2>0, SMT DEF PhaseOK
    <2>2. CASE int_possible
      <3>1. tstate_counter' = (tstate_counter + t) % interrupt_period
        BY <1>4, <2>2 DEF Timer, process_interrupts, z80ex_int, Remainder
      <3>2. /\ phase' = (phase + t) % interrupt_period
            /\ tail' = (IF power_state = OFF THEN tail + t ELSE 0)
            /\ owed' = owed + ((phase + t) \div interrupt_period) - 1
        BY <2>0, <2>2 DEF Executed
      <3>3. tstate_counter' = (tstate_counter + t) - interrupt_period
        <4>1. tstate_counter + t \in Nat /\ tstate_counter + t >= interrupt_period
          BY <1>0, <1>4, SMT
        <4> QED BY <1>0, <2>1, <3>1, <4>1, Reduced, Zenon
      <3>4. phase + t \in Nat /\ phase + t < interrupt_period
        BY <1>0, <1>4, <2>1, SMT
      <3>5. phase' = phase + t /\ owed' = 0
        <4>1. (phase + t) % interrupt_period = phase + t /\ (phase + t) \div interrupt_period = 0
          BY <1>0, <3>4, Reduced, Zenon
        <4> QED BY <2>1, <3>2, <4>1, SMT
      <3>6. PhaseOK'
        BY <1>0, <1>4, <2>1, <3>3, <3>4, <3>5, TimeAssumption, SMT DEF PhaseOK
      <3>7. TailOK'
        <4>1. power_state = OFF => tail <= tstate_counter
          BY <1>1 DEF TailOK
        <4> QED BY <1>0, <1>1, <2>1, <3>2, <4>1, SMT DEF TailOK
      <3> QED BY <1>2, <3>6, <3>7
    <2>3. CASE ~int_possible
      <3>1. tstate_counter' = tstate_counter % interrupt_period
        BY <1>4, <2>3 DEF Timer, process_interrupts, Remainder
      <3>2. tstate_counter' = tstate_counter - interrupt_period
        BY <1>0, <1>4, <2>1, <3>1, Reduced, Zenon
      <3>3. owed' = owed - 1 /\ UNCHANGED <<phase, tail>>
        BY <2>0, <2>3
      <3>4. PhaseOK'
        BY <1>0, <1>4, <2>1, <3>2, <3>3, TimeAssumption, SMT DEF PhaseOK
      <3> QED BY <1>1, <1>2, <3>3, <3>4 DEF TailOK
    <2> QED BY <2>2, <2>3
  <1> QED BY <1>0, <1>3, <1>4, SMT

LEMMA TGateKeeps == ASSUME TInv, TGate PROVE PhaseOK' /\ TailOK' /\ PaceOK'
  <1> USE DEF TInv
  <1> PICK delta \in Deltas :
        /\ Gate(delta)
        /\ LET now == IF waited + delta > 16 THEN 16 ELSE waited + delta IN
             IF pc' = "slice" /\ ~hits
               THEN gap' = now /\ waited' = 0
               ELSE waited' = now /\ UNCHANGED gap
        /\ UNCHANGED <<phase, owed, tail>>
    BY DEF TGate
  <1>0. delta \in Nat
    BY TimeAssumption
  <1>1. pc = "gate" /\ UNCHANGED <<tstate_counter, power_state>>
        /\ (power_state = OFF => pc' = "ui")
    BY DEF Gate, power, Powered, ON, OFF
  <1>2. PhaseOK'
    BY <1>1 DEF PhaseOK
  <1>3. TailOK'
    BY <1>1 DEF TailOK
  <1>4. execute_counter \in 0 .. 15
    BY DEF TypeOK
  <1>5. CASE pc' = "slice" /\ ~hits
    <2>1. execute_counter + delta > 15 /\ execute_counter' = Spent(execute_counter + delta)
      BY <1>5 DEF Gate, debug_isbreak
    <2>2. gap' = (IF waited + delta > 16 THEN 16 ELSE waited + delta) /\ waited' = 0
      BY <1>5
    <2> QED BY <1>0, <1>2, <1>3, <1>4, <2>1, <2>2, SMT DEF PaceOK, Spent
  <1>6. CASE ~(pc' = "slice" /\ ~hits)
    <2>1. \/ execute_counter' = Spent(execute_counter + delta)
          \/ execute_counter' = execute_counter
      BY DEF Gate
    <2>2. waited' = (IF waited + delta > 16 THEN 16 ELSE waited + delta) /\ UNCHANGED gap
      BY <1>6
    <2> QED BY <1>0, <1>2, <1>3, <1>4, <2>1, <2>2, SMT DEF PaceOK, Spent
  <1> QED BY <1>5, <1>6

LEMMA TOtherKeeps == ASSUME TInv, TOther PROVE PhaseOK' /\ TailOK' /\ PaceOK'
  <1> USE DEF TInv
  <1>0. UNCHANGED <<phase, owed, tail, waited, gap>>
    BY DEF TOther, tvars
  <1>1. UNCHANGED <<tstate_counter, execute_counter>>
    BY DEF TOther, LoopTop, SliceDone, UiDone, Prompt, quit, continue, single_step, set_bp,
           md, dump_stack, Command, Environment, sigint, EscPressed, HardReset, F12, Terminated, vars,
           counters
  <1>2. pc' \in {"slice", "int"} => pc \in {"slice", "int"} /\ power_state' = power_state
    <2>1. CASE LoopTop \/ UiDone \/ Prompt
      <3>1. pc' \notin {"slice", "int"}
        BY <2>1 DEF LoopTop, UiDone, Prompt, quit, continue, single_step, set_bp, md, dump_stack, Command
      <3> QED BY <3>1
    <2>2. CASE SliceDone \/ sigint \/ EscPressed \/ Terminated
      <3>1. power_state' = power_state /\ (pc' = pc \/ pc = "slice")
        BY <2>2 DEF SliceDone, sigint, EscPressed, Terminated, vars, power
      <3> QED BY <3>1
    <2>3. CASE HardReset \/ \E eventtype \in {"down", "up"} : F12(eventtype)
      <3>1. pc' = "ui"
        BY <2>3 DEF HardReset, F12
      <3> QED BY <3>1
    <2> QED BY <2>1, <2>2, <2>3 DEF TOther, Environment
  <1>3. PhaseOK'
    BY <1>0, <1>1 DEF PhaseOK
  <1>4. TailOK'
    BY <1>0, <1>1, <1>2 DEF TailOK
  <1>5. PaceOK'
    BY <1>0, <1>1 DEF PaceOK
  <1> QED BY <1>3, <1>4, <1>5

LEMMA TInvStep == TInv /\ [TNext]_tall => TInv'
  <1> SUFFICES ASSUME TInv, [TNext]_tall PROVE TInv'
    OBVIOUS
  <1>1. TypeOK'
    BY TimingOnly, TypeStep DEF TInv
  <1>2. CASE UNCHANGED tall
    BY <1>1, <1>2 DEF TInv, PhaseOK, TailOK, PaceOK, tall, vars, tvars, power, counters
  <1> QED BY <1>1, <1>2, TInstructionKeeps, TTimerKeeps, TGateKeeps, TOtherKeeps
          DEF TNext, TInv

(* The counter and the phase really executed never part.                   *)
THEOREM InPhase == TSpec => []TimerInPhase
  <1>1. TInv => TimerInPhase
    <2> SUFFICES ASSUME TInv PROVE TimerInPhase
      OBVIOUS
    <2>1. tstate_counter \in Nat /\ interrupt_period \in Nat \ {0}
          /\ tstate_counter < 2 * interrupt_period
      BY PeriodAssumption DEF TInv, TypeOK, PhaseOK
    <2>2. CASE tstate_counter < interrupt_period
      BY <2>1, <2>2, Reduced, SMT DEF TInv, PhaseOK, TimerInPhase
    <2>3. CASE tstate_counter >= interrupt_period
      BY <2>1, <2>3, Reduced, SMT DEF TInv, PhaseOK, TimerInPhase
    <2> QED BY <2>1, <2>2, <2>3, SMT
  <1> QED BY <1>1, TInvInit, TInvStep, PTL DEF TSpec, tall

(* Each executed period is checked for an interrupt exactly once.          *)
THEOREM PeriodsOffered == TSpec => []EveryPeriodOffered
  <1>1. TInv => EveryPeriodOffered
    BY PeriodAssumption, SMT DEF TInv, TypeOK, PhaseOK, EveryPeriodOffered
  <1> QED BY <1>1, TInvInit, TInvStep, PTL DEF TSpec, tall

(* Less than two periods run after the power is cut.                       *)
THEOREM TailBounded == TSpec => []TailIsBounded
  <1>1. TInv => TailIsBounded
    BY DEF TInv, TailOK, TailIsBounded
  <1> QED BY <1>1, TInvInit, TInvStep, PTL DEF TSpec, tall

(* Slices let in by time are more than 15 ms apart.                        *)
THEOREM Paced == TSpec => []PacedByClock
  <1>1. TInv => PacedByClock
    BY SMT DEF TInv, PaceOK, PacedByClock
  <1> QED BY <1>1, TInvInit, TInvStep, PTL DEF TSpec, tall

(* A pending bit rises only as the CPU takes the interrupt.                *)
THEOREM RaisedIsTaken == TSpec => RaisedWhenTaken
  <1> DEFINE Taken == int_possible /\ ~int_possible' /\ regPC' \in Vector
             Rises == ~(interrupt_mask' \subseteq interrupt_mask)
  <1>1. [TNext]_tall => [Rises => Taken]_tall
    <2> SUFFICES ASSUME TNext, Rises PROVE Taken
      OBVIOUS
    <2>1. ~TInstruction
      <3> SUFFICES ASSUME TInstruction PROVE FALSE
        OBVIOUS
      <3> QED BY DEF TInstruction, Access, OutIrqMask, OutPowerOff, irqs
    <2>2. ~TGate
      BY DEF TGate, Gate, irqs
    <2>3. ~TOther
      BY DEF TOther, LoopTop, SliceDone, UiDone, Prompt, quit, continue, single_step, set_bp,
             md, dump_stack, Command, Environment, sigint, EscPressed, HardReset, F12, Terminated, vars,
             irqs, ms_power_on_reset
    <2>4. PICK t \in IntTstates : Timer(t)
      BY <2>1, <2>2, <2>3 DEF TNext, TTimer
    <2>5. int_possible /\ z80ex_int(t)
      BY <2>4 DEF Timer, process_interrupts
    <2> QED BY <2>5 DEF z80ex_int
  <1> QED BY <1>1, PTL DEF TSpec, tall, RaisedWhenTaken

-----------------------------------------------------------------------------
(* The prompt's lines only choose among the steps of the debugger, and the *)
(* window only watches: what is proved above holds of the runs as well.    *)

call == <<vars, dvars, cvars>>
sall == <<vars, tvars, svars>>

LEMMA LineIsCommand ==
  ASSUME NEW line \in Lines, debug_prompt(line[1], line[2])
  PROVE  [DNext]_dall
  <1>0. line[2] \in BpAddr \cup {-1}
    BY LineAssumption
  <1>1. CASE Rows(line[1]) = {}
    BY <1>1 DEF debug_prompt, dall
  <1>2. CASE Rows(line[1]) # {}
    <2> DEFINE row == LastRun(Rows(line[1]))
    <2>1. pc = "prompt" /\ RunRow(row, line[2])
      BY <1>2 DEF debug_prompt
    <2>2. CASE quit /\ UNCHANGED dvars
      BY <2>2 DEF DNext, DOther
    <2>3. CASE DContinue \/ DStep
      BY <2>3 DEF DNext, DLeave
    <2>4. CASE row \in DOMAIN Breakpoint /\ set_bp(Breakpoint[row], line[2]) /\ UNCHANGED dvars
      <3>1. Breakpoint[row] \in {"pc", "mr", "mw"}
        BY <2>4 DEF Breakpoint
      <3> QED BY <1>0, <2>4, <3>1 DEF DNext, DOther
    <2>5. CASE md(line[2]) /\ UNCHANGED dvars
      BY <1>0, <2>5 DEF DNext, DOther
    <2>6. CASE (\E sp \in Stacks : dump_stack(sp)) /\ UNCHANGED dvars
      BY <2>6 DEF DNext, DOther
    <2>7. CASE UNCHANGED <<vars, dvars>>
      BY <2>7 DEF dall
    <2> QED BY <2>1, <2>2, <2>3, <2>4, <2>5, <2>6, <2>7 DEF RunRow
  <1> QED BY <1>1, <1>2

LEMMA CommandsOnly == [CNext]_call => [DNext]_dall
  <1> SUFFICES ASSUME CNext PROVE [DNext]_dall
    BY DEF call, dall
  <1>1. CASE CLoop
    BY <1>1 DEF CLoop, DNext, DOther
  <1> QED BY <1>1, LineIsCommand DEF CNext

(* Whatever is typed, a break stops the CPU within an instruction, and s   *)
(* runs exactly one.                                                       *)
THEOREM CommandsKeepDebugger == CSpec => []BreakIsPrompt /\ []StepIsOne /\ PcBreakpointCaught
  <1>1. CInit => DInit
    BY DEF CInit
  <1>2. DInit /\ [][DNext]_dall => []BreakIsPrompt /\ []StepIsOne /\ PcBreakpointCaught
    BY BreakPrompts, StepsOne, Caught DEF DSpec, dall
  <1> QED BY <1>1, <1>2, CommandsOnly, PTL DEF CSpec, call, dall

-----------------------------------------------------------------------------
(* The prompt: which rows of the table a line runs, and what they leave    *)

LEMMA Table ==
  /\ DOMAIN cmds = 1 .. 16
  /\ cmds[1].cmd  = "q"      /\ cmds[1].key  = "q"
  /\ cmds[2].cmd  = "c"      /\ cmds[2].key  = "c"
  /\ cmds[3].cmd  = "s"      /\ cmds[3].key  = "s"
  /\ cmds[4].cmd  = "l"      /\ cmds[4].key  = "l"
  /\ cmds[5].cmd  = "bmw"    /\ cmds[5].key  = "bmw"
  /\ cmds[6].cmd  = "bmr"    /\ cmds[6].key  = "bmr"
  /\ cmds[7].cmd  = "bpc"    /\ cmds[7].key  = "bpc"
  /\ cmds[8].cmd  = "md"     /\ cmds[8].key  = "md"
  /\ cmds[9].cmd  = "mw"     /\ cmds[9].key  = "mw"
  /\ cmds[10].cmd = "e"      /\ cmds[10].key = "e"
  /\ cmds[11].cmd = "dbgoff" /\ cmds[11].key = "dbgof"
  /\ cmds[12].cmd = "dbgon"  /\ cmds[12].key = "dbgo"
  /\ cmds[13].cmd = "troff"  /\ cmds[13].key = "troff"
  /\ cmds[14].cmd = "tron"   /\ cmds[14].key = "tron"
  /\ cmds[15].cmd = "dumpstack" /\ cmds[15].key = "dumpstack"
  /\ cmds[16].cmd = "h"      /\ cmds[16].key = "h"
  BY DEF cmds

LEMMA RowsOf ==
  ASSUME NEW line
  PROVE  /\ \A i \in Rows(line) : i \in 1 .. 16 /\ Begins(line, cmds[i].key)
         /\ \A i \in 1 .. 16 : Begins(line, cmds[i].key) => i \in Rows(line)
  BY Table DEF Rows, Matches

LEMMA RunsOf ==
  ASSUME NEW line
  PROVE  /\ Runs(line, {"dbgon", "dbgoff"}) =
              IF line = "dbgof" THEN {11, 12} ELSE IF line = "dbgo" THEN {12} ELSE {}
         /\ Runs(line, {"tron", "troff"}) =
              IF line = "troff" THEN {13} ELSE IF line = "tron" THEN {14} ELSE {}
  <1>1. /\ \A i \in 1 .. 16 : cmds[i].cmd \in {"dbgon", "dbgoff"} <=> i \in {11, 12}
        /\ \A i \in 1 .. 16 : cmds[i].cmd \in {"tron", "troff"} <=> i \in {13, 14}
    BY Table, SMT
  <1>2. /\ 11 \in Rows(line) <=> line = "dbgof"
        /\ 12 \in Rows(line) <=> line \in {"dbgo", "dbgof"}
        /\ 13 \in Rows(line) <=> line = "troff"
        /\ 14 \in Rows(line) <=> line = "tron"
    BY RowsOf, Table, SMT DEF Begins
  <1>3. Rows(line) \subseteq 1 .. 16
    BY RowsOf
  <1>4. Runs(line, {"dbgon", "dbgoff"}) = {11, 12} \cap Rows(line)
    BY <1>1, <1>3, SMT DEF Runs
  <1>5. Runs(line, {"tron", "troff"}) = {13, 14} \cap Rows(line)
    BY <1>1, <1>3, SMT DEF Runs
  <1> QED BY <1>2, <1>4, <1>5

LEMMA LastOf ==
  /\ LastRun({12}) = "dbgon" /\ LastRun({11, 12}) = "dbgoff"
  /\ LastRun({13}) = "troff" /\ LastRun({14}) = "tron"
  <1>1. \A i \in Nat : Min({i}) = i
    BY SMT DEF Min
  <1>2. Min({11, 12}) = 11
    BY SMT DEF Min
  <1> QED BY <1>1, <1>2, Table, SMT DEF LastRun

LEMMA LevelObeys ==
  ASSUME dbg_level = asked, dbg_level \subseteq {LOG_DBG, LOG_TRACE}, NEW line
  PROVE  Level(line, LOG_DBG, "dbgon", "dbgoff") \cup Level(line, LOG_TRACE, "tron", "troff")
           = Asked(line)
  <1>1. Level(line, LOG_DBG, "dbgon", "dbgoff") =
          IF line = "dbgof" THEN {} ELSE IF line = "dbgo" THEN {LOG_DBG}
          ELSE dbg_level \cap {LOG_DBG}
    BY RunsOf, LastOf DEF Level
  <1>2. Level(line, LOG_TRACE, "tron", "troff") =
          IF line = "troff" THEN {} ELSE IF line = "tron" THEN {LOG_TRACE}
          ELSE dbg_level \cap {LOG_TRACE}
    BY RunsOf, LastOf DEF Level
  <1>3. Asked(line) =
          IF line = "dbgo" THEN dbg_level \cup {LOG_DBG}
          ELSE IF line = "tron" THEN dbg_level \cup {LOG_TRACE}
          ELSE IF line = "dbgof" THEN dbg_level \ {LOG_DBG}
          ELSE IF line = "troff" THEN dbg_level \ {LOG_TRACE}
          ELSE dbg_level
    BY DEF Asked, TurnsOn, TurnsOff
  <1> QED BY <1>1, <1>2, <1>3 DEF LOG_DBG, LOG_TRACE

PromptOK == PromptObeys /\ dbg_level \subseteq {LOG_DBG, LOG_TRACE}

LEMMA PromptStep == ASSUME PromptOK, [CNext]_call PROVE PromptOK'
  <1> USE DEF PromptOK, PromptObeys
  <1>1. CASE UNCHANGED call
    BY <1>1 DEF call, cvars
  <1>2. CASE CLoop
    BY <1>2 DEF CLoop, cvars
  <1>3. ASSUME NEW typed \in Lines, debug_prompt(typed[1], typed[2]) PROVE PromptOK'
    <2>1. dbg_level' = Asked(typed[1]) /\ asked' = Asked(typed[1])
      BY <1>3, LevelObeys DEF debug_prompt
    <2>2. Asked(typed[1]) \subseteq {LOG_DBG, LOG_TRACE}
      BY DEF Asked, TurnsOn, TurnsOff
    <2> QED BY <2>1, <2>2
  <1> QED BY <1>1, <1>2, <1>3 DEF CNext

(* The output levels are what the lines typed asked for.                   *)
THEOREM PromptObeyed == CSpec => []PromptObeys
  <1>1. CInit => PromptOK
    BY DEF CInit, PromptOK, PromptObeys
  <1>2. PromptOK => PromptObeys
    BY DEF PromptOK
  <1> QED BY <1>1, <1>2, PromptStep, PTL DEF CSpec, call

-----------------------------------------------------------------------------
(* Progress.  That the loop can always move (LoopMoves) is a hypothesis:   *)
(* ENABLED is beyond the provers.  The rest of the argument is here, place *)
(* by place of the loop.                                                   *)

\* Where each step of the loop leads, and what becomes of what is waiting.
LEMMA LoopTurns ==
  Loop => /\ UNCHANGED esc
          /\ pc \in {"top", "gate", "slice", "int", "ui"}
          /\ pc = "top" => pc' = IF hits THEN "prompt" ELSE "gate"
          /\ pc = "gate" => pc' \in {"slice", "int", "ui"} /\ (hits => hits' /\ pc' # "int")
          /\ pc = "slice" => pc' \in {"slice", "int"} /\ (hits => hits' /\ pc' = "int")
          /\ pc = "int" => pc' = "ui" /\ (hits => hits')
          /\ pc = "ui" => pc' = (IF esc THEN "exit" ELSE "top") /\ (hits => hits')
  <1> USE DEF debug, debug_isbreak
  <1>1. LoopTop => pc = "top" /\ pc' = (IF hits THEN "prompt" ELSE "gate") /\ UNCHANGED esc
    BY DEF LoopTop, Prompts
  <1>2. \A delta \in Deltas : Gate(delta) =>
          /\ pc = "gate" /\ pc' \in {"slice", "int", "ui"} /\ (hits => hits' /\ pc' # "int")
          /\ UNCHANGED esc
    BY DEF Gate
  <1>3. Instruction =>
          /\ pc = "slice" /\ pc' \in {"slice", "int"} /\ (hits => hits' /\ pc' = "int")
          /\ UNCHANGED esc
    BY DEF Instruction, Access, OutIrqMask, OutPowerOff, Step, Stops
  <1>4. SliceDone => pc = "slice" /\ pc' = "int" /\ (hits => hits') /\ UNCHANGED esc
    BY DEF SliceDone
  <1>5. \A t \in IntTstates : Timer(t) =>
          pc = "int" /\ pc' = "ui" /\ (hits => hits') /\ UNCHANGED esc
    BY DEF Timer, process_interrupts, z80ex_int
  <1>6. UiDone => /\ pc = "ui" /\ pc' = (IF esc THEN "exit" ELSE "top")
                  /\ (hits => hits') /\ UNCHANGED esc
    BY DEF UiDone, Quits
  <1> QED BY <1>1, <1>2, <1>3, <1>4, <1>5, <1>6 DEF Loop

\* Whatever else happens away from the prompt moves nothing and loses nothing.
LEMMA OthersWait ==
  [Next]_vars => \/ Loop
                 \/ pc \in {"prompt", "exit"}
                 \/ UNCHANGED <<pc, tstate_counter>> /\ (hits => hits') /\ (esc => esc')
  <1>1. Prompt => pc = "prompt"
    BY DEF Prompt, quit, continue, single_step, set_bp, md, dump_stack, Command
  <1>2. Environment =>
          UNCHANGED <<pc, tstate_counter>> /\ (hits => hits') /\ (esc => esc')
    BY DEF Environment, sigint, EscPressed, HardReset, F12, debug, counters
  <1>3. UNCHANGED vars =>
          UNCHANGED <<pc, tstate_counter>> /\ (hits => hits') /\ (esc => esc')
    BY DEF vars, debug, counters
  <1> QED BY <1>1, <1>2, <1>3 DEF Next, Terminated

Served == pc \in {"prompt", "exit"}

\* A break, or Escape, that is still waiting at a place of the loop.
BreakAt(place) == hits /\ pc = place
EscAt(place)   == esc /\ pc = place

\* The places in the order the loop comes to them.
LEMMA BreakWaits ==
  [Next]_vars =>
    /\ BreakAt("gate") => (BreakAt("gate") \/ BreakAt("slice") \/ BreakAt("ui"))'
    /\ BreakAt("slice") => (BreakAt("slice") \/ BreakAt("int"))'
    /\ BreakAt("int") => (BreakAt("int") \/ BreakAt("ui"))'
    /\ BreakAt("ui") => (BreakAt("ui") \/ BreakAt("top") \/ Served)'
    /\ BreakAt("top") => (BreakAt("top") \/ Served)'
  BY LoopTurns, OthersWait DEF BreakAt, Served

LEMMA BreakNears ==
  <<Loop>>_vars =>
    /\ BreakAt("gate") => (BreakAt("slice") \/ BreakAt("ui"))'
    /\ BreakAt("slice") => BreakAt("int")'
    /\ BreakAt("int") => BreakAt("ui")'
    /\ BreakAt("ui") => (BreakAt("top") \/ Served)'
    /\ BreakAt("top") => Served'
  BY LoopTurns DEF BreakAt, Served

LEMMA EscWaits ==
  [Next]_vars =>
    /\ EscAt("top") => (EscAt("top") \/ EscAt("gate") \/ Served)'
    /\ EscAt("gate") => (EscAt("gate") \/ EscAt("slice") \/ EscAt("int") \/ EscAt("ui"))'
    /\ EscAt("slice") => (EscAt("slice") \/ EscAt("int"))'
    /\ EscAt("int") => (EscAt("int") \/ EscAt("ui"))'
    /\ EscAt("ui") => (EscAt("ui") \/ Served)'
  BY LoopTurns, OthersWait DEF EscAt, Served

LEMMA EscNears ==
  <<Loop>>_vars =>
    /\ EscAt("top") => (EscAt("gate") \/ Served)'
    /\ EscAt("gate") => (EscAt("slice") \/ EscAt("int") \/ EscAt("ui"))'
    /\ EscAt("int") => EscAt("ui")'
    /\ EscAt("ui") => Served'
  BY LoopTurns DEF EscAt, Served

\* What the spec of the prompt's lines gives the temporal arguments below.
LEMMA Fair ==
  CSpec /\ []LoopMoves =>
    [][Next]_vars /\ []TypeOK /\ WF_vars(Loop) /\ [](Served \/ ENABLED <<Loop>>_vars)
  <1>1. [CNext]_call => [Next]_vars
    BY CommandsOnly, DebuggerOnly
  <1>2. CInit => TypeOK
    BY TypeInit DEF CInit, DInit
  <1>3. LoopMoves => Served \/ ENABLED <<Loop>>_vars
    BY DEF LoopMoves, Served
  <1> QED BY <1>1, <1>2, <1>3, TypeStep, PTL DEF CSpec, call

(* A pending break is always served, if only the loop can always move.     *)
THEOREM BreakServed == CSpec /\ []LoopMoves => BreakHeeded
  <1>1. TypeOK /\ hits => \/ BreakAt("gate") \/ BreakAt("slice") \/ BreakAt("int")
                          \/ BreakAt("ui") \/ BreakAt("top") \/ Served
    BY DEF TypeOK, BreakAt, Served
  <1>2. Served <=> pc \in {"prompt", "exit"}
    BY DEF Served
  <1> QED BY <1>1, <1>2, Fair, BreakWaits, BreakNears, PTL DEF BreakHeeded

(* Escape is never lost, if the loop can always move and every slice ends. *)
THEOREM EscapeServed == CSpec /\ []LoopMoves /\ SlicesEnd => QuitHeeded
  <1>1. TypeOK /\ esc => \/ EscAt("top") \/ EscAt("gate") \/ EscAt("slice")
                         \/ EscAt("int") \/ EscAt("ui") \/ Served
    BY DEF TypeOK, EscAt, Served
  <1>2. EscAt("slice") => pc = "slice" /\ ~(pc # "slice")
    BY DEF EscAt
  <1>3. Served <=> pc \in {"exit", "prompt"}
    BY DEF Served
  <1> QED BY <1>1, <1>2, <1>3, Fair, EscWaits, EscNears, PTL DEF QuitHeeded, SlicesEnd

\* In a slice the counter only grows, and every step of the loop moves it.
SliceAt(n)  == pc = "slice" /\ tstate_counter = n
Further(n)  == pc # "slice" \/ (n < interrupt_period /\ tstate_counter > n)

LEMMA SliceCounts ==
  ASSUME NEW n \in Nat
  PROVE  /\ TypeOK /\ [Next]_vars /\ SliceAt(n) => SliceAt(n)' \/ Further(n)'
         /\ TypeOK /\ <<Loop>>_vars /\ SliceAt(n) => Further(n)'
  <1>1. ASSUME TypeOK, Loop, SliceAt(n) PROVE Further(n)'
    <2>1. CASE Instruction
      <3>1. PICK t \in Tstates : tstate_counter' = n + t /\ n < interrupt_period
        BY <1>1, <2>1, InstructionIs DEF SliceAt
      <3>2. t \in Nat \ {0}
        BY TimeAssumption
      <3> QED BY <3>1, <3>2, SMT DEF Further
    <2>2. CASE ~Instruction
      BY <1>1, <2>2 DEF Loop, LoopTop, Gate, SliceDone, Timer, UiDone, SliceAt, Further
    <2> QED BY <2>1, <2>2
  <1>2. ASSUME TypeOK, [Next]_vars, SliceAt(n) PROVE SliceAt(n)' \/ Further(n)'
    BY <1>1, <1>2, OthersWait DEF SliceAt
  <1> QED BY <1>1, <1>2

(* From any count of T states a slice goes on to a higher one below the    *)
(* period, or ends: the step of the argument for SlicesEnd.                *)
THEOREM SliceAdvances ==
  ASSUME NEW n \in Nat
  PROVE  CSpec /\ []LoopMoves => (SliceAt(n) ~> Further(n))
  <1>1. SliceAt(n) => ~Served
    BY DEF SliceAt, Served
  <1> QED BY <1>1, Fair, SliceCounts, PTL

-----------------------------------------------------------------------------
(* The window                                                              *)

LEMMA ScreenOnly == [SNext]_sall => [TNext]_tall
  <1> SUFFICES ASSUME SNext PROVE [TNext]_tall
    BY DEF sall, tall
  <1>1. CASE SInstruction
    BY <1>1 DEF SInstruction, TNext
  <1>2. CASE SLoop
    BY <1>2 DEF SLoop, TNext
  <1>3. CASE SReset
    BY <1>3 DEF SReset, TNext, TOther, Environment
  <1>4. CASE SRender
    BY <1>4 DEF SRender, TNext, TOther
  <1>5. CASE SOther
    BY <1>5 DEF SOther, TNext, TOther, Environment
  <1> QED BY <1>1, <1>2, <1>3, <1>4, <1>5 DEF SNext

\* A picture from before the reset is in the texture until the loop comes
\* back to ui_update_lcd.
ScreenOK ==
  /\ lcd \in {"blank", "drawn"}
  /\ stale \in {0, 1}
  /\ lcd_tex = "before" /\ stale = 1 => pc # "ui"

LEMMA ScreenStep == ScreenOK /\ [SNext]_sall => ScreenOK'
  <1> SUFFICES ASSUME ScreenOK, [SNext]_sall PROVE ScreenOK'
    OBVIOUS
  <1> USE DEF ScreenOK
  <1>1. CASE SInstruction
    <2>1. pc # "ui" /\ pc' # "ui"
      BY <1>1 DEF SInstruction, TInstruction, Access, OutIrqMask, OutPowerOff, Step
    <2> QED BY <1>1, <2>1 DEF SInstruction
  <1>2. CASE SLoop
    BY <1>2 DEF SLoop, ui_update_lcd
  <1>3. CASE SReset
    BY <1>3 DEF SReset
  <1>4. CASE SRender
    <2>1. pc = "ui" /\ pc' # "ui"
      BY <1>4 DEF SRender, UiDone
    <2> QED BY <1>4, <2>1 DEF SRender
  <1>5. CASE SOther
    <2>1. UNCHANGED <<lcd, lcd_tex, stale>>
      BY <1>5 DEF SOther, svars
    <2>2. pc' = "ui" => pc = "ui"
      <3>1. CASE LoopTop \/ SliceDone \/ sigint \/ EscPressed \/ Terminated
        BY <3>1 DEF LoopTop, SliceDone, sigint, EscPressed, Terminated, vars
      <3>2. CASE Prompt
        BY <3>2 DEF Prompt, quit, continue, single_step, set_bp, md, dump_stack, Command
      <3>3. CASE F12("up") \/ F12("down")
        BY <3>3 DEF F12
      <3> QED BY <1>5, <3>1, <3>2, <3>3 DEF SOther
    <2> QED BY <2>1, <2>2
  <1>6. CASE UNCHANGED sall
    BY <1>6 DEF sall, vars, svars
  <1> QED BY <1>1, <1>2, <1>3, <1>4, <1>5, <1>6 DEF SNext

(* One frame after a reset at most shows the picture from before it.       *)
THEOREM StaleOnce == SSpec => []StaleFrameOnce
  <1>1. SInit => ScreenOK
    BY DEF SInit, ScreenOK
  <1>2. ScreenOK => StaleFrameOnce
    BY DEF ScreenOK, StaleFrameOnce
  <1> QED BY <1>1, <1>2, ScreenStep, PTL DEF SSpec, sall

(* The clock's theorems hold with the window watching.                     *)
THEOREM ScreenKeepsClock == SSpec => TSpec
  <1>1. SInit => TInit
    BY DEF SInit
  <1> QED BY <1>1, ScreenOnly, PTL DEF SSpec, TSpec, sall, tall

=============================================================================
