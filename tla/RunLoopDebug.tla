---------------------------- MODULE RunLoopDebug ----------------------------
(***************************************************************************)
(* What the debugger owes its user, told with history variables on top of  *)
(* RunLoop: how many instructions run between a break and the prompt.      *)
(***************************************************************************)
EXTENDS RunLoop

VARIABLES
  cmd,        \* how the prompt was last left: "none", "c" or "s"
  powered,    \* the power was on then
  ran,        \* instructions completed since, up to 2
  late,       \* instructions begun while a break was pending, up to 2
  arrived     \* how regPC came by its value: "step", "entry" or "prompt"

dvars == <<cmd, powered, ran, late, arrived>>

OneMore(n) == IF n < 2 THEN n + 1 ELSE 2

DInit ==
  /\ Init
  /\ cmd = "none" /\ powered = FALSE /\ ran = 0 /\ late = 0
  /\ arrived = "entry"

DInstruction ==
  /\ Instruction
  /\ ran' = OneMore(ran)
  /\ late' = IF hits THEN OneMore(late) ELSE late
  /\ arrived' = "step"
  /\ UNCHANGED <<cmd, powered>>

\* A CPU that goes elsewhere without an instruction: interrupt or reset.
DEntry ==
  /\ \/ \E t \in IntTstates : Timer(t)
     \/ HardReset
     \/ \E eventtype \in {"down", "up"} : F12(eventtype)
  /\ arrived' = IF UNCHANGED cpu THEN arrived ELSE "entry"
  /\ UNCHANGED <<cmd, powered, ran, late>>

DOpen ==
  /\ LoopTop
  /\ IF pc' = "prompt"
       THEN arrived' = "prompt" /\ late' = 0
       ELSE UNCHANGED <<arrived, late>>
  /\ UNCHANGED <<cmd, powered, ran>>

Leaves(name) ==
  /\ cmd' = name
  /\ powered' = (power_state = ON)
  /\ ran' = 0
  /\ UNCHANGED <<late, arrived>>

DContinue == continue /\ Leaves("c")

DStep == single_step /\ Leaves("s")

DLeave == DContinue \/ DStep

DOther ==
  /\ \/ \E delta \in Deltas : Gate(delta)
     \/ SliceDone \/ UiDone \/ EscPressed \/ sigint \/ quit \/ Terminated
     \/ \E kind \in {"pc", "mr", "mw"}, a \in BpAddr \cup {-1} : set_bp(kind, a)
     \/ \E a \in BpAddr \cup {-1} : md(a)
     \/ \E sp \in Stacks : dump_stack(sp)
  /\ UNCHANGED dvars

DNext ==
  DInstruction \/ DEntry \/ DOpen \/ DLeave \/ DOther

DSpec == DInit /\ [][DNext]_<<vars, dvars>>

-----------------------------------------------------------------------------

(***************************************************************************)
(* Whatever raises a break (a breakpoint, a SIGINT between any two steps,  *)
(* the debugger's own "s"), at most one more instruction is begun before   *)
(* the prompt opens (debug_isbreak, the exits of the slice, 762-775).      *)
(***************************************************************************)
BreakIsPrompt == late <= 1

(***************************************************************************)
(* A single step runs exactly one instruction of a powered machine and     *)
(* none of one that is off, whatever the gate had counted and wherever the *)
(* timer stood ("s" arms hits, ms_run lets a pending break through the     *)
(* gate and leaves the slice at the first test).                           *)
(***************************************************************************)
StepIsOne ==
  pc = "prompt" /\ cmd = "s" => ran = IF powered THEN 1 ELSE 0

(***************************************************************************)
(* An instruction never runs at the address of the PC breakpoint when the  *)
(* instruction before it led there: the prompt has been opened in between  *)
(* (debug_testbp after each instruction, msemu.c:771-774).                 *)
(***************************************************************************)
PcBreakpointCaught ==
  [][DInstruction /\ regPC = bp.pc => arrived # "step"]_<<vars, dvars>>

=============================================================================
