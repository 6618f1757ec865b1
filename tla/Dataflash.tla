----------------------------- MODULE Dataflash -----------------------------
(***************************************************************************)
(* The 28SF040 data flash as mem.c emulates it: the array, the software    *)
(* data protection that df_read steps through, and the two-cycle command   *)
(* interpreter of df_write.                                                *)
(*                                                                         *)
(* One action is one call of df_read or df_write by a memory callback.     *)
(* Addresses are those the header allows (mem.h: 0x00000:0x7FFFF).         *)
(***************************************************************************)
EXTENDS Integers

CONSTANTS
  ReadAddr,   \* absolute addresses df_read is called with
  WriteAddr,  \* absolute addresses df_write is called with
  Val,        \* bytes df_write is called with
  Blank       \* the byte every cell holds at first (calloc, or one file byte)

SZ_512K == \h80000
Addr    == ReadAddr \cup WriteAddr
Byte    == 0 .. 255

ASSUME AddrAssumption == Addr \subseteq 0 .. SZ_512K - 1
ASSUME ByteAssumption == Val \cup {Blank} \subseteq Byte

VARIABLES
  df,     \* the array, cell by cell
  wp,     \* *wp_track, the byte kept after the array's 512 KiB
  cycle,  \* df_write's static cycle
  cmd     \* df_write's static cmd

vars == <<df, wp, cycle, cmd>>

(***************************************************************************)
(* The tracking byte: the low nibble is the position in                    *)
(* df_unlock_lock_arr, the top bit the write permission.                   *)
(***************************************************************************)
df_unlock_lock_arr ==
  << \h1823, \h1820, \h1822, \h0418, \h041B, \h0419, \h041A, \h0000,
     \h1823, \h1820, \h1822, \h0418, \h041B, \h0419, \h040A, \h0000 >>

WriteAllowed == wp >= \h80

SetWriteAllowed(w) == IF w >= \h80 THEN w ELSE w + \h80

\* Wrong variants of ClearSequence, for the mutation runs only.
ClearSequenceNever(w) == w
ClearSequenceAndHalf(w) == w - (w % 16)

\* *wp_track &= ~0x7: back to the locked or the unlocked base position.
ClearSequence(w) == w - (w % 8)

\* The position after a matching read: 0x7 unlocks and goes on to 0x8, 0xF
\* locks and starts over.
Advance(w) ==
  CASE (w + 1) % 16 = 7  -> SetWriteAllowed(w + 2)
    [] (w + 1) % 16 = 15 -> 0
    [] OTHER             -> w + 1

\* Only address bits A0-A12 take part in the comparison.
NextInSequence(a) == a % \h2000 = df_unlock_lock_arr[(wp % 16) + 1]

df_read(a) ==
  /\ wp' = IF NextInSequence(a) THEN Advance(wp) ELSE ClearSequence(wp)
  /\ UNCHANGED <<df, cycle, cmd>>

(***************************************************************************)
(* The commands                                                            *)
(***************************************************************************)
SectorErase  == \h20
EraseConfirm == \hD0
ByteProgram  == \h10
ChipErase    == \h30
ErasedByte   == \hFF
SingleCycle  == {\hFF, \h00, \hC3}

\* memset from the masked address on, 0x100 bytes.
Sector(a) == LET first == a - (a % \h100) IN first .. first + \hFF

\* What the second cycle of command cmd does to the array, protection aside.
Effect(a, v) ==
  CASE cmd = SectorErase /\ v = EraseConfirm ->
         [b \in Addr |-> IF b \in Sector(a) THEN ErasedByte ELSE df[b]]
    [] cmd = ByteProgram -> [df EXCEPT ![a] = v]
    [] cmd = ChipErase /\ v = ChipErase -> [b \in Addr |-> ErasedByte]
    [] OTHER -> df

\* A wrong variant of SecondCycle, for the mutation runs only.
SecondCycleUnprotected(a, v) ==
  /\ cycle # 0
  /\ df' = Effect(a, v)
  /\ cycle' = 0
  /\ UNCHANGED cmd

FirstCycle(v) ==
  /\ cycle = 0
  /\ IF v \in SingleCycle
       THEN UNCHANGED <<cmd, cycle>>
       ELSE cmd' = v /\ cycle' = 1
  /\ UNCHANGED df

SecondCycle(a, v) ==
  /\ cycle # 0
  /\ df' = IF WriteAllowed THEN Effect(a, v) ELSE df
  /\ cycle' = 0
  /\ UNCHANGED cmd

df_write(a, v) ==
  /\ wp' = ClearSequence(wp)
  /\ FirstCycle(v) \/ SecondCycle(a, v)

-----------------------------------------------------------------------------

\* df_init: a calloc'ed buffer, hence a zero tracking byte.
Init ==
  /\ df = [a \in Addr |-> Blank]
  /\ wp = 0
  /\ cycle = 0
  /\ cmd = 0

Next ==
  \/ \E a \in ReadAddr : df_read(a)
  \/ \E a \in WriteAddr, v \in Val : df_write(a, v)

Spec == Init /\ [][Next]_vars

-----------------------------------------------------------------------------

(***************************************************************************)
(* Every variable has its C type, and the tracking byte never leaves the   *)
(* two runs of positions 0x00-0x06 (locked) and 0x88-0x8E (unlocked): the  *)
(* bit df_write consults and the half of df_unlock_lock_arr that df_read   *)
(* is waiting in always agree, so a locked chip is always waiting for the  *)
(* unlock sequence and an unlocked one for the lock sequence (mem.c:36-43).*)
(***************************************************************************)
TypeOK ==
  /\ df \in [Addr -> Byte]
  /\ wp \in 0 .. 6 \cup \h88 .. \h8E
  /\ cycle \in {0, 1}
  /\ cmd \in Byte

=============================================================================
