-------------------------------- MODULE Ram --------------------------------
(***************************************************************************)
(* RAM and the image the user may load into it: ram_init in its two modes, *)
(* the CPU's writes, power-off and reset.  RAM is a function of Size cells *)
(* (128 KiB in the code); rand() may give any byte.                        *)
(***************************************************************************)
EXTENDS Integers, Sequences

CONSTANTS
  Size,    \* cells of RAM
  Byte,    \* bytes; 0 is the one strncpy stops at
  Images   \* contents a RAM image file may have; << >> for none readable

ASSUME SizeAssumption  == Size \in Nat \ {0}
ASSUME ByteAssumption  == 0 \in Byte
ASSUME ImageAssumption == \A image \in Images : image \in Seq(Byte)

VARIABLES
  pc,        \* "init", "run" or "failed"
  path,      \* options.ram_path is set
  given,     \* the image file's contents
  ram,       \* ms->ram
  ram_image  \* ms->ram_image, the unset 0 -> Byte when it is NULL

vars == <<pc, path, given, ram, ram_image>>

Cells  == 1 .. Size
Memory == [Cells -> Byte]
NULL   == [i \in {} |-> 0]

-----------------------------------------------------------------------------

\* A wrong variant, for the mutation runs only: what follows the first zero
\* byte of the image is left as it was.
CopiedUnpadded(image, old) ==
  [i \in Cells |-> IF \E j \in 1 .. i : image[j] = 0 THEN old[i] ELSE image[i]]

\* strncpy(ram, image, Size): copies up to the first zero byte, and fills the
\* rest with zeros.
Copied(image, old) ==
  [i \in Cells |-> IF \E j \in 1 .. i : image[j] = 0 THEN 0 ELSE image[i]]

\* The image over random filler, as much of it as fits.
Loaded(image, filler) ==
  [i \in Cells |-> IF i <= Len(image) THEN image[i] ELSE filler[i]]

Fill(image) ==
  IF image # NULL THEN ram' = Copied(image, ram) ELSE ram' \in Memory

\* An image that does not load fails ram_init, and ms_init with it.
ImageMissing == pc' = "failed"

\* The first ram_init, from ms_init.
FirstInit ==
  /\ pc = "init"
  /\ IF path
       THEN IF given = << >>
              THEN ImageMissing /\ UNCHANGED <<ram, ram_image>>
              ELSE /\ pc' = "run"
                   /\ \E filler \in Memory : ram_image' = Loaded(given, filler)
                   /\ Fill(ram_image')
       ELSE pc' = "run" /\ ram_image' = NULL /\ Fill(NULL)
  /\ UNCHANGED <<path, given>>

\* ram_init from ms_power_off, at the start of ms_run and whenever the
\* firmware cuts the power.
PowerOff ==
  /\ pc = "run" /\ Fill(ram_image)
  /\ UNCHANGED <<pc, path, given, ram_image>>

\* A wrong variant, for the mutation runs only: a reset starts RAM afresh.
RamOfResetFresh == Fill(ram_image)

\* RAM is not re-initialised by ms_power_on_reset.
RamOfReset == ram' = ram

Reset ==
  /\ pc = "run" /\ RamOfReset
  /\ UNCHANGED <<pc, path, given, ram_image>>

ram_write(a, val) ==
  /\ pc = "run"
  /\ ram' = [ram EXCEPT ![a] = val]
  /\ UNCHANGED <<pc, path, given, ram_image>>

ram_read(a) == ram[a]

Failed == pc = "failed" /\ UNCHANGED vars

Init ==
  /\ pc = "init"
  /\ path \in BOOLEAN /\ given \in Images
  /\ ram \in Memory /\ ram_image = NULL

Next ==
  \/ FirstInit \/ PowerOff \/ Reset \/ Failed
  \/ \E a \in Cells, val \in Byte : ram_write(a, val)

Spec == Init /\ [][Next]_vars

(***************************************************************************)
(* Every variable has its type, and the machine runs with the image the    *)
(* user asked for or not at all (ram_init, 374-380, ms_init, 669).         *)
(***************************************************************************)
TypeOK ==
  /\ pc \in {"init", "run", "failed"}
  /\ path \in BOOLEAN /\ given \in Images
  /\ ram \in Memory
  /\ ram_image \in IF pc = "run" /\ path THEN Memory ELSE {NULL}

=============================================================================
