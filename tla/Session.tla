------------------------------ MODULE Session ------------------------------
(***************************************************************************)
(* The life of the dataflash image: main, ms_init and ms_deinit, df_init   *)
(* and df_deinit over a file that may be missing, short, too long or       *)
(* failing, and a process that may die at any point.  The image is a       *)
(* sequence of Size blocks (512 KiB in the code).                          *)
(*                                                                         *)
(* pc is the place in main: not running, in ms_init before the dataflash,  *)
(* loading it, in ms_run, saving.  The file system is external.            *)
(***************************************************************************)
EXTENDS Integers, Sequences

CONSTANTS
  Size,        \* blocks of the dataflash
  LongestFile, \* bound on the blocks of the file there is at first
  Block,       \* contents of a block
  Zeros,       \* a calloc'ed buffer
  Serial,      \* the last block of a new image: zeros and a random serial
  Erased,      \* a buffer of 0xFF
  MaxSessions  \* bound on the sessions started

ASSUME SizeAssumption  == Size \in Nat \ {0} /\ LongestFile \in Nat
ASSUME BlockAssumption ==
  Zeros \in [1 .. Size -> Block] /\ Erased \in [1 .. Size -> Block] /\ Serial \in Block
ASSUME SessionsAssumption == MaxSessions \in Nat

VARIABLES
  pc,         \* "off", "init", "load", "run", "save" or "write"
  file,       \* the blocks on disk; a missing file reads as an empty one
  df,         \* ms->df, while it is allocated
  locked,     \* the tracking byte past the 512 KiB says protected
  save,       \* options.df_save_to_disk
  written,    \* blocks buftofile has written so far
  status,     \* the exit status of the last session, "killed" or "none"
  sessions    \* sessions started, up to MaxSessions

vars == <<pc, file, df, locked, save, written, status, sessions>>

Buffer == [1 .. Size -> Block]

-----------------------------------------------------------------------------
(* Starting                                                                *)

\* main parses its options; -n clears df_save_to_disk.
Start ==
  /\ pc = "off" /\ sessions < MaxSessions
  /\ pc' = "init" /\ save' \in BOOLEAN
  /\ sessions' = sessions + 1
  /\ UNCHANGED <<file, df, locked, written, status>>

\* The RAM image or the codeflash does not load: ms_init fails before the
\* dataflash is looked at, and main returns 1.
InitFails ==
  /\ pc = "init" /\ pc' = "off" /\ status' = "1"
  /\ UNCHANGED <<file, df, locked, save, written, sessions>>

InitGoesOn ==
  /\ pc = "init" /\ pc' = "load"
  /\ UNCHANGED <<file, df, locked, save, written, status, sessions>>

\* A calloc'ed buffer with the first n blocks of the file in it.
Filled(n) == [i \in 1 .. Size |-> IF i <= n THEN file[i] ELSE Zeros[i]]

\* ms_set_df_rnd_serial on an all-zero buffer.
NewImage == [i \in 1 .. Size |-> IF i = Size THEN Serial ELSE Zeros[i]]

\* How many blocks filetobuf may get: all there are, but no more than the chip
\* has, or fewer on an error.
Readable == {n \in 0 .. Size : n <= Len(file)}

\* A wrong variant, for the mutation runs only: the lock outlives a session.
Relock == locked' = locked

Lock == locked' = TRUE

\* df_init, with the new serial ms_init gives an image that was not there.
df_init(n) ==
  /\ pc = "load" /\ n \in Readable
  /\ df' = IF n = 0 THEN NewImage ELSE Filled(n)
  /\ Lock
  /\ pc' = "run"
  /\ UNCHANGED <<file, save, written, status, sessions>>

-----------------------------------------------------------------------------
(* Running                                                                 *)

\* The firmware reads a guard sequence, or changes a block.
Unlock ==
  /\ pc = "run" /\ locked' \in BOOLEAN
  /\ UNCHANGED <<pc, file, df, save, written, status, sessions>>

Change(i, b) ==
  /\ pc = "run" /\ ~locked
  /\ df' = [df EXCEPT ![i] = b]
  /\ UNCHANGED <<pc, file, locked, save, written, status, sessions>>

\* The chip erase changes them all.
EraseChip ==
  /\ pc = "run" /\ ~locked
  /\ df' = Erased
  /\ UNCHANGED <<pc, file, locked, save, written, status, sessions>>

\* A wrong variant, for the mutation runs only: -n is not looked at.
SavesAlways == TRUE

Saves == save

\* Escape, the window's close button or the debugger's q: ms_run returns.
Quit ==
  /\ pc = "run"
  /\ pc' = IF Saves THEN "save" ELSE "off"
  /\ status' = IF Saves THEN status ELSE "0"
  /\ UNCHANGED <<file, df, locked, save, written, sessions>>

-----------------------------------------------------------------------------
(* Saving                                                                  *)

\* fopen with "wb" empties the file at once.
OpenForWriting ==
  /\ pc = "save" /\ pc' = "write"
  /\ file' = << >> /\ written' = 0
  /\ UNCHANGED <<df, locked, save, status, sessions>>

\* The process writes the blocks one after the other.
WriteBlock ==
  /\ pc = "write" /\ written < Size
  /\ written' = written + 1
  /\ file' = Append(file, df[written + 1])
  /\ UNCHANGED <<pc, df, locked, save, status, sessions>>

\* A wrong variant, for the mutation runs only: one block too few is enough.
ClosesEarly == written + 1 >= Size

Closes == written = Size

\* All is written; the message and EIO of a failed save go no further than
\* df_deinit, so ms_deinit and main return 0 either way.
Close ==
  /\ pc = "write" /\ Closes
  /\ pc' = "off" /\ status' = "0"
  /\ UNCHANGED <<file, df, locked, save, written, sessions>>

SaveFails ==
  /\ \/ pc = "save"
     \/ pc = "write" /\ written < Size
  /\ pc' = "off" /\ status' = "0"
  /\ UNCHANGED <<file, df, locked, save, written, sessions>>

\* A signal the emulator does not handle, a failed assertion, an abort() of
\* ui_init: what was in memory is gone.
Killed ==
  /\ pc # "off"
  /\ pc' = "off" /\ status' = "killed"
  /\ UNCHANGED <<file, df, locked, save, written, sessions>>

-----------------------------------------------------------------------------

Init ==
  /\ pc = "off"
  /\ \E n \in 0 .. LongestFile : file \in [1 .. n -> Block]
  /\ df = Zeros
  /\ locked = TRUE /\ save = TRUE /\ written = 0
  /\ status = "none" /\ sessions = 0

Finished == pc = "off" /\ sessions = MaxSessions /\ UNCHANGED vars

Next ==
  \/ Start \/ InitFails \/ InitGoesOn \/ \E n \in 0 .. Size : df_init(n)
  \/ Unlock \/ EraseChip \/ \E i \in 1 .. Size, b \in Block : Change(i, b)
  \/ Quit \/ OpenForWriting \/ WriteBlock \/ Close \/ SaveFails \/ Killed
  \/ Finished

Spec == Init /\ [][Next]_vars

-----------------------------------------------------------------------------

(***************************************************************************)
(* Every variable has its type, and a file being written holds the buffer  *)
(* so far and never more than the chip: the tracking byte stays in memory  *)
(* (mem.c:95-107, 116-117).                                                *)
(***************************************************************************)
TypeOK ==
  /\ pc \in {"off", "init", "load", "run", "save", "write"}
  /\ file \in Seq(Block)
  /\ df \in Buffer
  /\ locked \in BOOLEAN /\ save \in BOOLEAN
  /\ written \in 0 .. Size
  /\ pc = "write" => file = [i \in 1 .. written |-> df[i]]
  /\ status \in {"none", "0", "1", "killed"}
  /\ sessions \in 0 .. MaxSessions

=============================================================================
