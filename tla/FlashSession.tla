---------------------------- MODULE FlashSession ----------------------------
(***************************************************************************)
(* A session with its chip: the life cycle of the image in Session over    *)
(* the data flash as df_read and df_write emulate it.  What Session says   *)
(* of the chip, that it is locked or not and that unlocked it is changed   *)
(* block by block or erased, is here what the chip of Dataflash does to    *)
(* its cells.  A block is a sector of 256 cells, 2048 of them in the code. *)
(***************************************************************************)
EXTENDS Session

CONSTANTS ReadAddr, WriteAddr, Val   \* as in Dataflash

VARIABLES
  cells,      \* the first 512 KiB of ms->df
  wp,         \* the byte after them
  cycle, cmd  \* the statics of df_write

Chip == INSTANCE Dataflash WITH df <- cells, Blank <- 0

flash == <<cells, wp, cycle, cmd>>
rest  == <<pc, file, save, written, status, sessions>>

Cells(i) == {a \in Chip!Addr : a \div 256 = i - 1}

\* The cells by sectors.
Image == [i \in 1 .. Size |-> [a \in Cells(i) |-> cells[a]]]

\* The constants of Session, spelled in cells.
Sectors ==
  /\ Chip!Addr \subseteq 0 .. 256 * Size - 1
  /\ Val \subseteq Chip!Byte
  /\ Block = UNION {[Cells(i) -> Chip!Byte] : i \in 1 .. Size}
  /\ Zeros = [i \in 1 .. Size |-> [a \in Cells(i) |-> 0]]
  /\ Erased = [i \in 1 .. Size |-> [a \in Cells(i) |-> Chip!ErasedByte]]
  /\ Serial \in [Cells(Size) -> Chip!Byte]

\* Every block the chip can take of a file has the cells of its sector.
Fits(image) == \A i \in DOMAIN image \cap 1 .. Size : image[i] \in [Cells(i) -> Chip!Byte]

-----------------------------------------------------------------------------

FInit == Init /\ Fits(file) /\ Chip!Init

\* df_init: the process is new, and so are the tracking byte and the statics.
FLoad == \E n \in 0 .. Size :
  /\ df_init(n)
  /\ cells' = [a \in Chip!Addr |-> df'[(a \div 256) + 1][a]]
  /\ wp' = 0 /\ cycle' = 0 /\ cmd' = 0

\* The firmware reads or writes the chip.
FAccess ==
  /\ pc = "run" /\ Chip!Next
  /\ df' = Image' /\ locked' = ~Chip!WriteAllowed'
  /\ UNCHANGED rest

\* What main does beside that.
FMain ==
  /\ \/ Start \/ InitFails \/ InitGoesOn \/ Quit
     \/ OpenForWriting \/ WriteBlock \/ Close \/ SaveFails \/ Killed \/ Finished
  /\ UNCHANGED flash

FNext == FLoad \/ FAccess \/ FMain

FSpec == FInit /\ [][FNext]_<<vars, flash>>

=============================================================================
