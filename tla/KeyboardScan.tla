---------------------------- MODULE KeyboardScan ----------------------------
(***************************************************************************)
(* What the firmware must see of the keyboard, told with a history         *)
(* variable: the keys whose latest event reached the matrix.               *)
(***************************************************************************)
EXTENDS Keyboard

CONSTANT KbAddr   \* what the firmware drives: sets of the one bits of kbaddr

ASSUME KbAddrAssumption == KbAddr \subseteq SUBSET (0 .. 9)

VARIABLE hidden   \* matrix keys whose latest event right Ctrl turned into a hot key

SInit == Init /\ hidden = {}

SHandle ==
  /\ HandleEvent
  /\ hidden' = LET e == Head(queue) IN
       IF e.rctrl THEN hidden \cup ({e.sym} \cap DOMAIN LUT) ELSE hidden \ {e.sym}

SOther ==
  /\ \/ \E k \in Key : Press(k) \/ Release(k)
     \/ Drain \/ Drained \/ PowerOff \/ Exited
  /\ UNCHANGED hidden

SNext == SHandle \/ SOther

SSpec == SInit /\ [][SNext]_<<vars, hidden>>

-----------------------------------------------------------------------------

\* The columns of these keys in the rows kbaddr selects.
Columns(keys, kbaddr) ==
  {LUT[k][2] : k \in {l \in keys \cap DOMAIN LUT : LUT[l][1] \notin kbaddr}}

(***************************************************************************)
(* Whichever rows it selects, one, several or all, the firmware sees a     *)
(* column low for every key being held there and for no other, those aside *)
(* whose latest press or release was taken as a hot key: repeats, chords,  *)
(* a power-off or a hard reset in between lose no key and invent none      *)
(* (ui_set_ms_kbd, pread of KEYBOARD; ms_power_on_reset must not touch the *)
(* matrix, msemu.c:113-116).                                               *)
(***************************************************************************)
ScanShowsHeld ==
  Settled /\ ~exited =>
    \A kbaddr \in KbAddr :
      /\ Columns(held \ hidden, kbaddr) \subseteq kbresult(kbaddr)
      /\ kbresult(kbaddr) \subseteq Columns(held \cup hidden, kbaddr)

=============================================================================
