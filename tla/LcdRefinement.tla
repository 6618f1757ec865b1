--------------------------- MODULE LcdRefinement ---------------------------
(***************************************************************************)
(* lcd.c implements the panel: its byte buffer, read where lcd_read looks, *)
(* is the panel's memory; its pixels, 320 to a line, are the picture.      *)
(***************************************************************************)
EXTENDS Lcd

Lines == {a % 240 : a \in Offset}

HalfNamed(side) == IF side = "right" THEN LCD_R ELSE LCD_L

Places == {"left", "right"} \X Lines \X Existing

\* What lcd_read finds in the byte buffer, by half, line and column.
MemoryOf(bytes) ==
  [w \in Places |-> bytes[Cell(HalfNamed(w[1]), w[2], w[3])]]

\* The lit pixels as ui_update_lcd hands them to the window, 320 to a line.
PictureOf(pixels) ==
  {<<p % 320, p \div 320>> : p \in {q \in Pixels : pixels[q] = "on"}}

Panel == INSTANCE LcdPanel WITH
           Line    <- Lines,
           memory  <- IF strayed THEN [w \in Places |-> 0] ELSE MemoryOf(lcd_dat1bit),
           picture <- IF strayed THEN {} ELSE PictureOf(lcd_datRGBA8888),
           column  <- lcd_cas,
           strobe  <- cas_line,
           lost    <- strayed

(***************************************************************************)
(* Every write changes the one cell it addresses and the eight dots that   *)
(* show it, mirrored within its half, and nothing else; a selection and a  *)
(* change of the CAS bit change no cell and no dot (lcd.c:19-136).  The    *)
(* panel promises nothing of a column that does not exist, which a byte    *)
(* must be sent to before anything is lost: latching it loses nothing.     *)
(***************************************************************************)
ImplementsPanel == Panel!Spec

=============================================================================
