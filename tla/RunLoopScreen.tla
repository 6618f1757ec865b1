--------------------------- MODULE RunLoopScreen ---------------------------
(***************************************************************************)
(* What the window shows of the LCD, on top of RunLoopTiming: the pixels   *)
(* (module Lcd, here blank or drawn), the texture ui_update_lcd copies     *)
(* them to before the events are handled, and the frame ui_render presents *)
(* after them, the splash screen when the machine is off.                  *)
(***************************************************************************)
EXTENDS RunLoopTiming

VARIABLES
  lcd,      \* lcd_datRGBA8888: "blank", or "drawn" since the last reset
  lcd_tex,  \* the same of the texture, or "before": drawn before the reset
  stale     \* frames since the reset that showed it still, up to 2

svars == <<lcd, lcd_tex, stale>>

SInit ==
  /\ TInit
  /\ lcd = "blank" /\ lcd_tex = "blank" /\ stale = 0

\* A wrong variant, for the mutation runs only: the texture is brought up to
\* date only in iterations in which the CPU has run.
ui_update_lcd_after_slice ==
  lcd_tex' = IF pc = "int" /\ execute_counter = 0 THEN lcd ELSE lcd_tex

ui_update_lcd == lcd_tex' = lcd

\* An instruction that touches neither the ports nor the power may write to
\* a column of the LCD.
SInstruction ==
  /\ TInstruction
  /\ \/ UNCHANGED lcd
     \/ lcd' = "drawn" /\ UNCHANGED <<power, irqs>>
  /\ UNCHANGED <<lcd_tex, stale>>

\* The loop goes on to ui_update_lcd.
SLoop ==
  /\ TTimer \/ TGate
  /\ IF pc' = "ui" THEN ui_update_lcd ELSE UNCHANGED lcd_tex
  /\ UNCHANGED <<lcd, stale>>

SReset ==
  /\ HardReset \/ (F12("down") /\ power_state = OFF)
  /\ UNCHANGED tvars
  /\ lcd' = "blank"
  /\ lcd_tex' = IF lcd_tex = "drawn" THEN "before" ELSE lcd_tex
  /\ stale' = 0

\* ui_render, unless the events end the loop.
SRender ==
  /\ UiDone /\ UNCHANGED tvars
  /\ stale' = IF pc' = "top" /\ ~splashscreen_show /\ lcd_tex = "before" /\ stale < 2
              THEN stale + 1 ELSE stale
  /\ UNCHANGED <<lcd, lcd_tex>>

SOther ==
  /\ \/ LoopTop \/ SliceDone \/ Prompt \/ sigint \/ EscPressed \/ Terminated
     \/ F12("up") \/ (F12("down") /\ power_state = ON)
  /\ UNCHANGED <<tvars, svars>>

SNext == SInstruction \/ SLoop \/ SReset \/ SRender \/ SOther

SSpec == SInit /\ [][SNext]_<<vars, tvars, svars>>

-----------------------------------------------------------------------------

(***************************************************************************)
(* A reset falls between the copy of the pixels and the frame, so the      *)
(* first frame after it may still show the picture from before, but no     *)
(* second one does, whether the gate lets the CPU run or not, and whatever *)
(* breaks and power-offs come in between (msemu.c:785-789).                *)
(***************************************************************************)
StaleFrameOnce == stale <= 1

=============================================================================
