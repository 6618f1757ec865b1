-------------------------------- MODULE Lcd --------------------------------
(***************************************************************************)
(* The two LCD halves of lcd.c: one byte buffer the firmware reads back,   *)
(* one pixel buffer the window shows, and the column latch both halves     *)
(* share, which a write loads while the CAS bit of port MISC2 is low.      *)
(*                                                                         *)
(* lcd.c latches any byte and never checks it against the twenty columns   *)
(* there are: a byte for a column past them lands wherever the indices     *)
(* say, another column's byte or another line's dots, and once an index    *)
(* leaves its buffer nothing more can be said of the program.              *)
(***************************************************************************)
EXTENDS Integers

CONSTANTS
  Offset,   \* newaddr, the offsets in the slot the CPU accesses
  Byte,     \* bytes written to a column
  Column    \* bytes latched as the column

LCD_L == 2
LCD_R == 4
Half  == {LCD_L, LCD_R}

SlotOffset == {i \in Nat : i < 16384}
Char       == 0 .. 255
BufferByte == {i \in Nat : i < 9600}    \* lcd_dat1bit: 320 * 240 / 8
BufferDot  == {i \in Nat : i < 76800}   \* lcd_datRGBA8888: 320 * 240

ASSUME OffsetAssumption == Offset \subseteq SlotOffset
ASSUME ByteAssumption   == Byte \subseteq Char
ASSUME ColumnAssumption == Column \subseteq Char /\ 0 \in Column

VARIABLES
  lcd_dat1bit,      \* the byte buffer, where the CPU reaches it
  lcd_datRGBA8888,  \* the pixels: "blank" (calloc), "on" or "off"
  lcd_cas,          \* the latched column
  cas_line,         \* bit 3 of io[MISC2]
  strayed,          \* history: a byte went to no existing column since a reset
  overrun           \* an index has left its buffer

vars == <<lcd_dat1bit, lcd_datRGBA8888, lcd_cas, cas_line, strayed, overrun>>

\* The columns the panel has.
Existing == {c \in Column : c < 20}

\* A wrong variant, for the mutation runs only: 240 itself does not wrap.
WrappedPast(newaddr) == IF newaddr > 240 THEN newaddr % 240 ELSE newaddr

Wrapped(newaddr) == newaddr % 240

\* Where a byte is kept.
Cell(half, newaddr, col) ==
  (IF half = LCD_R THEN 4800 ELSE 0) + Wrapped(newaddr) + col * 240

\* A wrong variant, for the mutation runs only.
ScreenColumnUnmirrored(half, col) == col + (IF half = LCD_R THEN 20 ELSE 0)

\* Column 0 of either half is its rightmost.
ScreenColumn(half, col) == 19 - col + (IF half = LCD_R THEN 20 ELSE 0)

\* Where bit n of the byte is shown.
Pixel(half, newaddr, col, n) ==
  n + ScreenColumn(half, col) * 8 + Wrapped(newaddr) * 320

Power2 == [n \in 0 .. 7 |->
  IF n = 0 THEN 1 ELSE IF n = 1 THEN 2 ELSE IF n = 2 THEN 4 ELSE IF n = 3 THEN 8
  ELSE IF n = 4 THEN 16 ELSE IF n = 5 THEN 32 ELSE IF n = 6 THEN 64 ELSE 128]

Bit(val, n) == (val \div Power2[n]) % 2

Cells  == {Cell(h, a, c) : h \in Half, a \in Offset, c \in Existing}
Pixels == {Pixel(h, a, c, n) : h \in Half, a \in Offset, c \in Existing, n \in 0 .. 7}

-----------------------------------------------------------------------------

Colour(val, n) == IF Bit(val, n) = 1 THEN "on" ELSE "off"

\* Some index lcd_write uses is outside the buffers lcd_init allocates.
Overruns(half, newaddr, col) ==
  \/ Cell(half, newaddr, col) \notin BufferByte
  \/ \E n \in 0 .. 7 : Pixel(half, newaddr, col, n) \notin BufferDot

\* With the CAS bit high the byte goes to both buffers.
WriteColumn(half, newaddr, val) ==
  /\ cas_line
  /\ lcd_dat1bit' = [lcd_dat1bit EXCEPT ![Cell(half, newaddr, lcd_cas)] = val]
  /\ LET first == Pixel(half, newaddr, lcd_cas, 0)
     IN  lcd_datRGBA8888' = [p \in Pixels |->
           IF p - first \in 0 .. 7 THEN Colour(val, p - first) ELSE lcd_datRGBA8888[p]]
  /\ strayed' = (strayed \/ lcd_cas \notin Existing)
  /\ overrun' = Overruns(half, newaddr, lcd_cas)
  /\ UNCHANGED <<lcd_cas, cas_line>>

\* With the CAS bit low it selects the column, for both halves.
SelectColumn(val) ==
  /\ ~cas_line
  /\ lcd_cas' = val
  /\ UNCHANGED <<lcd_dat1bit, lcd_datRGBA8888, cas_line, strayed, overrun>>

lcd_write(half, newaddr) ==
  \/ \E val \in Byte : WriteColumn(half, newaddr, val)
  \/ \E val \in Column : SelectColumn(val)

lcd_read(half, newaddr) ==
  IF cas_line THEN lcd_dat1bit[Cell(half, newaddr, lcd_cas)] ELSE lcd_cas

\* Port MISC2 is written.
SetCasLine ==
  /\ cas_line' \in BOOLEAN
  /\ UNCHANGED <<lcd_dat1bit, lcd_datRGBA8888, lcd_cas, strayed, overrun>>

\* A wrong variant, for the mutation runs only: the pixels outlive a reset.
lcd_init_bytes ==
  /\ lcd_dat1bit' = [i \in Cells |-> 0]
  /\ lcd_cas' = 0
  /\ UNCHANGED lcd_datRGBA8888

lcd_init ==
  /\ lcd_dat1bit' = [i \in Cells |-> 0]
  /\ lcd_datRGBA8888' = [p \in Pixels |-> "blank"]
  /\ lcd_cas' = 0

\* lcd_init and io_init in ms_power_on_reset.
Reset == lcd_init /\ cas_line' = FALSE /\ strayed' = FALSE /\ UNCHANGED overrun

Init ==
  /\ lcd_dat1bit = [i \in Cells |-> 0]
  /\ lcd_datRGBA8888 = [p \in Pixels |-> "blank"]
  /\ lcd_cas = 0 /\ cas_line = FALSE /\ strayed = FALSE /\ overrun = FALSE

\* What the program does after an overrun is undefined, and not modelled.
Next ==
  /\ ~overrun
  /\ \/ \E half \in Half, newaddr \in Offset : lcd_write(half, newaddr)
     \/ SetCasLine
     \/ Reset

Spec == Init /\ [][Next]_vars

-----------------------------------------------------------------------------

(***************************************************************************)
(* Every variable has its type, and the existing columns of both halves    *)
(* lie in the buffers lcd_init allocates, 9600 bytes and 76800 pixels.     *)
(***************************************************************************)
TypeOK ==
  /\ lcd_dat1bit \in [Cells -> Char]
  /\ lcd_datRGBA8888 \in [Pixels -> {"blank", "on", "off"}]
  /\ lcd_cas \in Column /\ cas_line \in BOOLEAN
  /\ strayed \in BOOLEAN /\ overrun \in BOOLEAN
  /\ Cells \subseteq BufferByte /\ Pixels \subseteq BufferDot

(***************************************************************************)
(* lcd_write checks neither index it makes from the latch (lcd.c:42, 57).  *)
(* Only a byte sent while a column past the twenty is latched can leave a  *)
(* buffer: any offset of the slot wraps onto a line, and with an existing  *)
(* column both indices stay inside.                                        *)
(***************************************************************************)
OnlyStraysOverrun == overrun => lcd_cas > 19

(***************************************************************************)
(* The window shows what the firmware reads back: a pixel is on exactly    *)
(* when its bit is set in the byte buffer, after any mixture of writes to  *)
(* both halves through the shared latch, wrapped offsets and resets        *)
(* (lcd_write keeps the two buffers of lcd.c:40-59 in step).  A byte sent  *)
(* to a column that does not exist ends that, and the next reset restores  *)
(* it.                                                                     *)
(***************************************************************************)
Coherent == ~strayed =>
  \A half \in Half, a \in Offset, col \in Existing, n \in 0 .. 7 :
    lcd_datRGBA8888[Pixel(half, a, col, n)] = "on"
      <=> Bit(lcd_dat1bit[Cell(half, a, col)], n) = 1

=============================================================================
