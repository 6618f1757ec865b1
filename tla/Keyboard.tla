------------------------------ MODULE Keyboard ------------------------------
(***************************************************************************)
(* The path of a key from the host's keyboard to the firmware: SDL's event *)
(* queue, ui_kbd_process and ui_set_ms_kbd, the key matrix, and the scan   *)
(* of port KEYBOARD.  The power button and the hot keys travel the same    *)
(* queue.                                                                  *)
(*                                                                         *)
(* The user presses and releases keys at any time; an event carries the    *)
(* modifiers of its moment; the queue is drained between two slices of CPU *)
(* time, and the firmware scans in between.                                *)
(***************************************************************************)
EXTENDS Integers, Sequences

CONSTANTS
  Key,        \* the keys of the host's keyboard under study
  LUT,        \* sdl_to_ms_kbd_LUT inverted: cell <<row, bit>> of a matrix key
  MaxQueue    \* bound on the events waiting in SDL's queue

RCTRL  == "RCtrl"
F12    == "F12"
ESCAPE == "Escape"
KeyR   == "r"
KeyA   == "a"
KeyB   == "b"

Matrix == (0 .. 9) \X (0 .. 7)

\* No two keys of the table share a cell.
ASSUME LUTAssumption ==
  /\ DOMAIN LUT \subseteq Key /\ {RCTRL, F12, ESCAPE} \cap DOMAIN LUT = {}
  /\ \A k \in DOMAIN LUT : LUT[k] \in Matrix
  /\ \A k, l \in DOMAIN LUT : LUT[k] = LUT[l] => k = l
ASSUME QueueAssumption == MaxQueue \in Nat \ {0}

VARIABLES
  held,            \* keys the user is holding down
  queue,           \* SDL's event queue
  draining,        \* ui_kbd_process is running
  exited,          \* ui_kbd_process has returned 1
  low,             \* cells of ms->key_matrix whose bit is 0
  power_state, power_button_n, ac_status, batt_status,
  ac_icon, batt_icon  \* what ui_update_ac and ui_update_battery show

power == <<power_state, power_button_n>>
supply == <<ac_status, batt_status, ac_icon, batt_icon>>
vars == <<held, queue, draining, exited, low, power, supply>>

BATT_CYCLE == 3

-----------------------------------------------------------------------------
(* The user and SDL.  A held key repeats its KEYDOWN.                      *)

Event(type, k) == [type |-> type, sym |-> k, rctrl |-> RCTRL \in held']

Press(k) ==
  /\ ~exited /\ Len(queue) < MaxQueue
  /\ held' = held \cup {k}
  /\ queue' = Append(queue, Event("down", k))
  /\ UNCHANGED <<draining, exited, low, power, supply>>

Release(k) ==
  /\ ~exited /\ Len(queue) < MaxQueue
  /\ k \in held /\ held' = held \ {k}
  /\ queue' = Append(queue, Event("up", k))
  /\ UNCHANGED <<draining, exited, low, power, supply>>

-----------------------------------------------------------------------------
(* The handler                                                             *)

\* Wrong variants of ResetMatrix and Handled, for the mutation runs only.
ResetMatrixToo == low' = {}
HandledLate(e) == ~e.rctrl

\* What a reset does to the matrix: nothing, so that held keys stay down.
ResetMatrix == low' = low

\* Whether the power button listens to the event: it always does.
Handled(e) == TRUE

ms_power_on_reset == power_state' = "on"

\* ms_power_hint, with the power button already updated.
PowerButton(e) ==
  IF e.sym = F12 /\ Handled(e)
  THEN /\ power_button_n' = IF e.type = "down" THEN 0 ELSE 1
       /\ IF power_state = "off" /\ power_button_n' = 0
            THEN ms_power_on_reset ELSE UNCHANGED power_state
  ELSE UNCHANGED power

ui_set_ms_kbd(e) ==
  low' = IF e.sym \notin DOMAIN LUT THEN low
         ELSE IF e.type = "down" THEN low \cup {LUT[e.sym]}
         ELSE low \ {LUT[e.sym]}

ToggleAc ==
  /\ ac_status' = 1 - ac_status
  /\ ac_icon' = ac_status'
  /\ UNCHANGED <<batt_status, batt_icon>>

Cycled(status) == IF status + 1 = BATT_CYCLE THEN 0 ELSE status + 1

CycleBattery ==
  /\ batt_status' = Cycled(batt_status)
  /\ batt_icon' = batt_status'
  /\ UNCHANGED <<ac_status, ac_icon>>

\* With right Ctrl held a key is a hot key, and the matrix does not see it.
HotKey(e) ==
  /\ e.rctrl
  /\ IF e.type = "down" /\ e.sym = KeyR
       THEN /\ power_button_n' = power_button_n
            /\ ms_power_on_reset /\ ResetMatrix
       ELSE PowerButton(e) /\ UNCHANGED low
  /\ IF e.type = "down" /\ e.sym = KeyA THEN ToggleAc
     ELSE IF e.type = "down" /\ e.sym = KeyB THEN CycleBattery
     ELSE UNCHANGED supply

PlainKey(e) ==
  /\ ~e.rctrl
  /\ PowerButton(e) /\ ui_set_ms_kbd(e)
  /\ UNCHANGED supply

Escape(e) == e.type = "down" /\ e.sym = ESCAPE

\* A wrong variant, for the mutation runs only: the power button takes the
\* events behind it along.
RemainingFlushed(events) ==
  IF Head(events).type = "down" /\ Head(events).sym = F12 THEN << >> ELSE Tail(events)

\* SDL_PollEvent takes one event, and the others wait.
Remaining(events) == Tail(events)

\* ui_kbd_process: one round of its loop, then its two ways out.
HandleEvent ==
  /\ draining /\ queue # << >>
  /\ queue' = Remaining(queue)
  /\ IF Escape(Head(queue))
       THEN /\ exited' = TRUE /\ draining' = FALSE
            /\ UNCHANGED <<low, power, supply>>
       ELSE /\ HotKey(Head(queue)) \/ PlainKey(Head(queue))
            /\ UNCHANGED <<draining, exited>>
  /\ UNCHANGED held

Drained ==
  /\ draining /\ queue = << >>
  /\ draining' = FALSE
  /\ UNCHANGED <<held, queue, exited, low, power, supply>>

\* ms_run reaches ui_kbd_process.
Drain ==
  /\ ~draining /\ ~exited /\ draining' = TRUE
  /\ UNCHANGED <<held, queue, exited, low, power, supply>>

\* The firmware cuts the power in a slice of CPU time.
PowerOff ==
  /\ ~draining /\ ~exited
  /\ power_state = "on" /\ power_state' = "off"
  /\ UNCHANGED <<held, queue, draining, exited, low, power_button_n, supply>>

Exited == exited /\ UNCHANGED vars

-----------------------------------------------------------------------------
(* The firmware's view                                                     *)

\* A wrong variant, for the mutation runs only: eight rows instead of ten.
RowsScannedOfPort(kbaddr) == {i \in 0 .. 7 : i \notin kbaddr}

\* A row is active when its bit of kbaddr, given as the set of its one bits,
\* is low.
RowsScanned(kbaddr) == {i \in 0 .. 9 : i \notin kbaddr}

\* Port KEYBOARD: the columns read as 0.
kbresult(kbaddr) == {b \in 0 .. 7 : \E i \in RowsScanned(kbaddr) : <<i, b>> \in low}

-----------------------------------------------------------------------------

\* ms_init, with the supply the options ask for.
Init ==
  /\ held = {} /\ queue = << >> /\ draining = FALSE /\ exited = FALSE
  /\ low = {}
  /\ power_state = "off" /\ power_button_n = 1
  /\ ac_status \in {0, 1} /\ ac_icon = ac_status
  /\ batt_status \in 0 .. BATT_CYCLE - 1 /\ batt_icon = batt_status

Next ==
  \/ \E k \in Key : Press(k) \/ Release(k)
  \/ Drain \/ HandleEvent \/ Drained \/ PowerOff \/ Exited

Spec == Init /\ [][Next]_vars

-----------------------------------------------------------------------------

(***************************************************************************)
(* Every variable has its type, and the icons show the supply the firmware *)
(* reads at port MISC9 (ms_power_ac_set_status, ms_power_batt_set_status). *)
(***************************************************************************)
TypeOK ==
  /\ held \subseteq Key
  /\ queue \in Seq([type : {"down", "up"}, sym : Key, rctrl : BOOLEAN])
  /\ Len(queue) <= MaxQueue
  /\ draining \in BOOLEAN /\ exited \in BOOLEAN
  /\ low \subseteq Matrix
  /\ power_state \in {"on", "off"} /\ power_button_n \in {0, 1}
  /\ ac_status \in {0, 1} /\ batt_status \in 0 .. BATT_CYCLE - 1
  /\ ac_icon = ac_status /\ batt_icon = batt_status

\* Nothing the user did is still on its way.
Settled == queue = << >> /\ ~draining

(***************************************************************************)
(* The power button reads as pressed exactly while F12 is held, right Ctrl *)
(* or not, however often it repeats and whatever the power does meanwhile  *)
(* (ui.c:347-354, before the right-Ctrl test).                             *)
(***************************************************************************)
PowerButtonFollows == Settled /\ ~exited => (power_button_n = 0 <=> F12 \in held)

\* All rows but i driven high.
OnlyRow(i) == (0 .. 9) \ {i}

(***************************************************************************)
(* msemu.c:388: "all returned bits should be high unless a key is          *)
(* pressed".  Scanning row by row, a column reads low only where the user  *)
(* holds a key.                                                            *)
(***************************************************************************)
HighUnlessPressed ==
  Settled /\ ~exited =>
    \A cell \in Matrix :
      cell[2] \in kbresult(OnlyRow(cell[1])) =>
        \E k \in held \cap DOMAIN LUT : LUT[k] = cell

=============================================================================
