------------------------------ MODULE SdpFlash ------------------------------
(***************************************************************************)
(* What software data protection promises the firmware, without saying how *)
(* it is tracked.  A bystander watches the bus and keeps, for each of the  *)
(* two guard sequences, how much of it the latest uninterrupted reads have *)
(* spelled; the chip may only open or close when the right sequence has    *)
(* just been spelled in full, must do so when it was spelled from a        *)
(* standstill, and its contents change only while it is open, by the       *)
(* command the previous write announced.                                   *)
(***************************************************************************)
EXTENDS Integers

CONSTANTS ReadAddr, WriteAddr, Val, Blank

VARIABLES
  content,    \* the cells
  open,       \* the cells may be written
  pending,    \* the command announced by the last write, or NoCmd
  unlockRun,  \* addresses of UnlockSeq spelled by the latest reads
  lockRun,    \* addresses of LockSeq spelled by the latest reads
  quiet       \* reads since the last write or change of open, capped

vars == <<content, open, pending, unlockRun, lockRun, quiet>>

NoCmd == 256
Full  == 7

UnlockSeq == <<\h1823, \h1820, \h1822, \h0418, \h041B, \h0419, \h041A>>
LockSeq   == <<\h1823, \h1820, \h1822, \h0418, \h041B, \h0419, \h040A>>

\* How much of seq is spelled once a is read after n of it were.  No address
\* occurs twice in a guard sequence, so a miss leaves at most its first one.
Spelled(seq, n, a) ==
  IF n < Full /\ a % \h2000 = seq[n + 1] THEN n + 1
  ELSE IF a % \h2000 = seq[1] THEN 1 ELSE 0

Read(a) ==
  /\ unlockRun' = Spelled(UnlockSeq, unlockRun, a)
  /\ lockRun' = Spelled(LockSeq, lockRun, a)
  /\ \/ open' = open /\ quiet' = IF quiet > Full THEN quiet ELSE quiet + 1
     \/ open' = ~open /\ quiet' = 0
  /\ (~open /\ open') => unlockRun' = Full
  /\ (open /\ ~open') => lockRun' = Full
  /\ (quiet' = Full /\ ~open) => unlockRun' # Full
  /\ (quiet' = Full /\ open) => lockRun' # Full
  /\ UNCHANGED <<content, pending>>

\* The cells command c may change, and to what.
Touches(c, a, v, b) ==
  \/ c = \h10 /\ b = a
  \/ c = \h20 /\ v = \hD0 /\ b \div \h100 = a \div \h100
  \/ c = \h30 /\ v = \h30

Outcome(c, v) == IF c = \h10 THEN v ELSE \hFF

Write(a, v) ==
  /\ unlockRun' = 0 /\ lockRun' = 0 /\ quiet' = 0
  /\ \/ /\ pending = NoCmd
        /\ pending' \in {NoCmd, v}
        /\ UNCHANGED content
     \/ /\ pending # NoCmd
        /\ pending' = NoCmd
        /\ content' = [b \in ReadAddr \cup WriteAddr |->
             IF open /\ Touches(pending, a, v, b) THEN Outcome(pending, v)
             ELSE content[b]]
  /\ UNCHANGED open

Init ==
  /\ content = [b \in ReadAddr \cup WriteAddr |-> Blank]
  /\ open = FALSE
  /\ pending = NoCmd
  /\ unlockRun = 0 /\ lockRun = 0 /\ quiet = 0

Next ==
  \/ \E a \in ReadAddr : Read(a)
  \/ \E a \in WriteAddr, v \in Val : Write(a, v)

Spec == Init /\ [][Next]_vars

=============================================================================
