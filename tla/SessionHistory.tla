--------------------------- MODULE SessionHistory ---------------------------
(***************************************************************************)
(* Session with the memory of what the user is entitled to find: the image *)
(* as the last session that ended well left it.                            *)
(***************************************************************************)
EXTENDS Session

VARIABLES
  kept,     \* the buffer a completed save wrote, or the file at the start
  opened,   \* the file as this session found it
  unlocked, \* the firmware has unlocked the chip in this session
  blessed,  \* blocks the firmware changed while the chip was unlocked
  faulty    \* an I/O error or a kill came between save and reload

hvars == <<kept, opened, unlocked, blessed, faulty>>

HInit ==
  /\ Init
  /\ kept = file /\ opened = file /\ unlocked = FALSE /\ blessed = {} /\ faulty = FALSE

HStart ==
  /\ Start
  /\ opened' = file /\ unlocked' = FALSE /\ blessed' = {}
  /\ UNCHANGED <<kept, faulty>>

HLoad == \E n \in 0 .. Size :
  /\ df_init(n)
  /\ faulty' = (faulty \/ \E m \in Readable : n < m)
  /\ UNCHANGED <<kept, opened, unlocked, blessed>>

HChange == \E i \in 1 .. Size, b \in Block :
  /\ Change(i, b)
  /\ blessed' = blessed \cup {i}
  /\ UNCHANGED <<kept, opened, unlocked, faulty>>

HErase ==
  /\ EraseChip
  /\ blessed' = 1 .. Size
  /\ UNCHANGED <<kept, opened, unlocked, faulty>>

HUnlock ==
  /\ Unlock
  /\ unlocked' = (unlocked \/ ~locked')
  /\ UNCHANGED <<kept, opened, blessed, faulty>>

HSaved ==
  /\ Close
  /\ kept' = df /\ faulty' = FALSE
  /\ UNCHANGED <<opened, unlocked, blessed>>

\* A failure costs the image once the file has been opened for writing.
HFailed ==
  /\ SaveFails \/ Killed
  /\ faulty' = (faulty \/ pc = "write")
  /\ UNCHANGED <<kept, opened, unlocked, blessed>>

HOther ==
  /\ InitFails \/ InitGoesOn \/ Quit \/ OpenForWriting \/ WriteBlock \/ Finished
  /\ UNCHANGED hvars

HNext == HStart \/ HLoad \/ HUnlock \/ HChange \/ HErase \/ HSaved \/ HFailed \/ HOther

HSpec == HInit /\ [][HNext]_<<vars, hvars>>

-----------------------------------------------------------------------------

\* The image as the chip presents it: short files end in zeros, a missing or
\* an empty one is a new image, and what a longer one has beyond the chip is
\* not seen.
Presented(image) ==
  IF image = << >> THEN NewImage
  ELSE [i \in 1 .. Size |-> IF i <= Len(image) THEN image[i] ELSE Zeros[i]]

(***************************************************************************)
(* What one session saved the next one runs on: while the firmware runs,   *)
(* the chip holds the last saved image but for the blocks it has changed   *)
(* since, across sessions that failed to start, were killed while running, *)
(* could not open the file for saving, or were started with -n (df_init,   *)
(* df_deinit, ms_init); only a failure inside the rewrite or a failed read *)
(* excuses it.                                                             *)
(***************************************************************************)
SavedIsReloaded ==
  pc = "run" /\ ~faulty =>
    \A i \in 1 .. Size : i \in blessed \/ df[i] = Presented(kept)[i]

(***************************************************************************)
(* usage, main.c:29: with -n the session never writes the dataflash back,  *)
(* and no session touches the file before it has been asked to quit.       *)
(***************************************************************************)
FileUntouched ==
  (pc # "off" /\ ~save) \/ pc \in {"init", "load", "run", "save"} => file = opened

(***************************************************************************)
(* The lock does not outlive a session: firmware that has not unlocked the *)
(* chip since the emulator started runs on the saved image as it is, even  *)
(* if the last session ended with the chip unlocked (mem.c:29, 116-118).   *)
(***************************************************************************)
ProtectedUntilUnlocked ==
  pc = "run" /\ ~faulty /\ ~unlocked => locked /\ df = Presented(kept)

=============================================================================
