---------------------------- MODULE DataflashSdp ----------------------------
(***************************************************************************)
(* Dataflash with the bystander of SdpFlash added as history variables, so *)
(* that the emulated chip can be shown to keep the promise.                *)
(***************************************************************************)
EXTENDS Dataflash

VARIABLES unlockRun, lockRun, quiet

hvars == <<unlockRun, lockRun, quiet>>

Sdp == INSTANCE SdpFlash WITH
         content <- df,
         open    <- WriteAllowed,
         pending <- IF cycle = 0 THEN 256 ELSE cmd

HInit == Init /\ unlockRun = 0 /\ lockRun = 0 /\ quiet = 0

HRead(a) ==
  /\ df_read(a)
  /\ unlockRun' = Sdp!Spelled(Sdp!UnlockSeq, unlockRun, a)
  /\ lockRun' = Sdp!Spelled(Sdp!LockSeq, lockRun, a)
  /\ quiet' = IF WriteAllowed' # WriteAllowed THEN 0
              ELSE IF quiet > Sdp!Full THEN quiet ELSE quiet + 1

HWrite(a, v) ==
  /\ df_write(a, v)
  /\ unlockRun' = 0 /\ lockRun' = 0 /\ quiet' = 0

HNext ==
  \/ \E a \in ReadAddr : HRead(a)
  \/ \E a \in WriteAddr, v \in Val : HWrite(a, v)

HSpec == HInit /\ [][HNext]_<<vars, hvars>>

-----------------------------------------------------------------------------

\* How much of the sequence the chip is waiting for the bus has spelled.
Run == IF WriteAllowed THEN lockRun ELSE unlockRun

(***************************************************************************)
(* The three low bits of the tracking byte never claim more than the bus   *)
(* has shown: a non-zero position is exactly the length of the awaited     *)
(* sequence just read without a miss and without a write in between, and a *)
(* sequence begun after a write or a change of the lock is never lost      *)
(* track of (df_read's advance and reset, df_write's reset).               *)
(***************************************************************************)
SequenceTracked ==
  /\ wp % 8 > 0 => Run = wp % 8
  /\ quiet \in 1 .. 6 /\ Run = quiet => wp % 8 = quiet

(***************************************************************************)
(* The emulated chip keeps the software-data-protection promise: it is     *)
(* writable only after the seven unlock reads, protected again after the   *)
(* seven lock reads, and no write sequence alters a protected cell or a    *)
(* cell outside the announced command's reach (mem.c:18-52, 160-270).      *)
(***************************************************************************)
KeepsPromise == Sdp!Spec

=============================================================================
