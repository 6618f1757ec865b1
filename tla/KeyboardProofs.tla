---------------------------- MODULE KeyboardProofs ----------------------------
(***************************************************************************)
(* Proofs about the keyboard, for any table of keys in which no two keys   *)
(* share a cell and any bound on the queue.  They follow one argument: of  *)
(* the events of a key that still wait in the queue, the last one tells    *)
(* whether the user holds the key; and a key with no event waiting has     *)
(* been brought up to date by its last one.                                *)
(***************************************************************************)
EXTENDS KeyboardScan, TLAPS

EventType == [type : {"down", "up"}, sym : Key, rctrl : BOOLEAN]

\* No event of k waits.
NoneWaiting(k) == \A i \in 1 .. Len(queue) : queue[i].sym # k

\* The i-th event is the last one of its key.
LastOfKey(i) == \A j \in 1 .. Len(queue) : j > i => queue[j].sym # queue[i].sym

LastTells ==
  \A i \in 1 .. Len(queue) :
    LastOfKey(i) => (queue[i].type = "down" <=> queue[i].sym \in held)

ButtonUpToDate ==
  ~exited /\ NoneWaiting(F12) => (power_button_n = 0 <=> F12 \in held)

MatrixUpToDate ==
  ~exited =>
    \A k \in DOMAIN LUT \ hidden :
      NoneWaiting(k) => (k \in held <=> LUT[k] \in low)

\* Only keys of the table have cells that are ever low.
LowIsKeys == \A cell \in low : \E k \in DOMAIN LUT : LUT[k] = cell

Inv == TypeOK /\ LastTells /\ ButtonUpToDate
SInv == Inv /\ MatrixUpToDate /\ LowIsKeys

-----------------------------------------------------------------------------

LEMMA InitInv == Init => Inv
<1>1. SUFFICES ASSUME Init PROVE Inv
  OBVIOUS
<1>2. queue \in Seq(EventType) /\ Len(queue) = 0
  BY <1>1 DEF Init
<1>3. TypeOK
  <2>1. Len(queue) <= MaxQueue
    BY <1>2, QueueAssumption
  <2>2. held \subseteq Key /\ low \subseteq Matrix
    BY <1>1 DEF Init
  <2>3. /\ draining \in BOOLEAN /\ exited \in BOOLEAN
        /\ power_state \in {"on", "off"} /\ power_button_n \in {0, 1}
        /\ ac_status \in {0, 1} /\ batt_status \in 0 .. BATT_CYCLE - 1
        /\ ac_icon = ac_status /\ batt_icon = batt_status
    BY <1>1 DEF Init
  <2> QED BY <1>2, <2>1, <2>2, <2>3 DEF TypeOK, EventType
<1>4. LastTells
  BY <1>2 DEF LastTells
<1>5. ButtonUpToDate
  BY <1>1 DEF Init, ButtonUpToDate
<1> QED BY <1>3, <1>4, <1>5 DEF Inv

\* The user's event goes to the end of the queue: it is the last of its key,
\* and the last ones of the other keys stay the last.
LEMMA Queued ==
  ASSUME Inv, NEW k \in Key, NEW type \in {"down", "up"}, NEW e,
         e.type = type, e.sym = k, e \in EventType,
         ~exited, Len(queue) < MaxQueue,
         queue' = Append(queue, e),
         held' = (IF type = "down" THEN held \cup {k} ELSE held \ {k}),
         UNCHANGED <<draining, exited, low, power, supply>>
  PROVE  Inv'
<1>1. queue \in Seq(EventType) /\ Len(queue) \in Nat /\ MaxQueue \in Nat
  BY QueueAssumption DEF Inv, TypeOK, EventType
<1>2. /\ queue' \in Seq(EventType) /\ Len(queue') = Len(queue) + 1
      /\ queue'[Len(queue) + 1] = e
      /\ \A i \in 1 .. Len(queue) : queue'[i] = queue[i]
  BY <1>1
<1>3. TypeOK'
  BY <1>1, <1>2 DEF Inv, TypeOK, power, supply, EventType
<1>4. LastTells'
  <2>1. SUFFICES ASSUME NEW i \in 1 .. Len(queue'), LastOfKey(i)'
                 PROVE  queue'[i].type = "down" <=> queue'[i].sym \in held'
    BY DEF LastTells
  <2>2. CASE i = Len(queue) + 1
    BY <2>2, <1>2
  <2>3. CASE i # Len(queue) + 1
    <3>1. i \in 1 .. Len(queue) /\ queue'[i] = queue[i]
      BY <2>3, <1>1, <1>2
    <3>2. queue[i].sym # k
      BY <2>1, <3>1, <1>1, <1>2 DEF LastOfKey
    <3>3. LastOfKey(i)
      BY <2>1, <3>1, <1>1, <1>2 DEF LastOfKey
    <3>4. queue[i].type = "down" <=> queue[i].sym \in held
      BY <3>1, <3>3 DEF Inv, LastTells
    <3> QED BY <3>1, <3>2, <3>4
  <2> QED BY <2>2, <2>3
<1>5. ButtonUpToDate'
  <2>1. SUFFICES ASSUME NoneWaiting(F12)'
                 PROVE  power_button_n = 0 <=> F12 \in held'
    BY DEF ButtonUpToDate, power
  <2>2. k # F12 /\ NoneWaiting(F12)
    BY <2>1, <1>1, <1>2 DEF NoneWaiting
  <2> QED BY <2>2 DEF Inv, ButtonUpToDate
<1> QED BY <1>3, <1>4, <1>5 DEF Inv

LEMMA PressQueues == ASSUME Inv, NEW k \in Key, Press(k) PROVE Inv'
<1> DEFINE e == Event("down", k)
<1>1. e \in EventType /\ e.type = "down" /\ e.sym = k
  BY DEF Event, EventType
<1> HIDE DEF e
<1>2. queue' = Append(queue, e) /\ held' = held \cup {k}
  BY DEF Press, e
<1> QED BY <1>1, <1>2, Queued DEF Press

LEMMA ReleaseQueues == ASSUME Inv, NEW k \in Key, Release(k) PROVE Inv'
<1> DEFINE e == Event("up", k)
<1>1. e \in EventType /\ e.type = "up" /\ e.sym = k
  BY DEF Event, EventType
<1> HIDE DEF e
<1>2. queue' = Append(queue, e) /\ held' = held \ {k}
  BY DEF Release, e
<1> QED BY <1>1, <1>2, Queued DEF Release

\* The head leaves the queue: a key with none waiting afterwards had at most
\* this one, and then it was the last of its key.
LEMMA Dequeued ==
  ASSUME Inv, queue # << >>, queue' = Tail(queue), held' = held
  PROVE  /\ queue' \in Seq(EventType) /\ Len(queue') <= MaxQueue
         /\ Head(queue) \in EventType
         /\ LastTells'
         /\ \A k \in Key : NoneWaiting(k)' =>
              IF Head(queue).sym = k
                THEN Head(queue).type = "down" <=> k \in held
                ELSE NoneWaiting(k)
<1> DEFINE e == Head(queue)
<1>1. queue \in Seq(EventType) /\ Len(queue) \in Nat /\ Len(queue) <= MaxQueue
  BY DEF Inv, TypeOK, EventType
<1>2. /\ queue' \in Seq(EventType) /\ Len(queue') = Len(queue) - 1
      /\ Len(queue) >= 1 /\ e = queue[1] /\ e \in EventType
      /\ \A i \in 1 .. Len(queue') : queue'[i] = queue[i + 1]
  BY <1>1
<1>3. Len(queue') <= MaxQueue
  BY <1>1, <1>2, QueueAssumption
<1>4. LastTells'
  <2>1. SUFFICES ASSUME NEW i \in 1 .. Len(queue'), LastOfKey(i)'
                 PROVE  queue'[i].type = "down" <=> queue'[i].sym \in held'
    BY DEF LastTells
  <2>2. i + 1 \in 1 .. Len(queue) /\ queue'[i] = queue[i + 1]
    BY <1>1, <1>2
  <2>3. LastOfKey(i + 1)
    <3>1. SUFFICES ASSUME NEW j \in 1 .. Len(queue), j > i + 1
                   PROVE  queue[j].sym # queue[i + 1].sym
      BY DEF LastOfKey
    <3>2. j - 1 \in 1 .. Len(queue') /\ j - 1 > i
      BY <3>1, <1>1, <1>2
    <3>3. queue'[j - 1].sym # queue'[i].sym
      BY <2>1, <3>2 DEF LastOfKey
    <3>4. queue'[j - 1] = queue[j - 1 + 1] /\ j - 1 + 1 = j
      BY <1>2, <3>2
    <3> QED BY <2>2, <3>3, <3>4
  <2>4. queue[i + 1].type = "down" <=> queue[i + 1].sym \in held
    BY <2>2, <2>3 DEF Inv, LastTells
  <2> QED BY <2>2, <2>4
<1>5. ASSUME NEW k \in Key, NoneWaiting(k)'
      PROVE  IF e.sym = k THEN e.type = "down" <=> k \in held
             ELSE NoneWaiting(k)
  <2>1. ASSUME NEW j \in 1 .. Len(queue), j > 1 PROVE queue[j].sym # k
    <3>1. j - 1 \in 1 .. Len(queue') /\ j - 1 + 1 = j
      BY <2>1, <1>1, <1>2
    <3>2. queue'[j - 1] = queue[j - 1 + 1]
      BY <3>1, <1>2
    <3> QED BY <3>1, <3>2, <1>5 DEF NoneWaiting
  <2>2. CASE e.sym = k
    <3>1. LastOfKey(1)
      BY <2>1, <2>2, <1>2 DEF LastOfKey
    <3>2. 1 \in 1 .. Len(queue)
      BY <1>1, <1>2
    <3> QED BY <3>1, <3>2, <2>2, <1>2 DEF Inv, LastTells
  <2>3. CASE e.sym # k
    BY <2>1, <2>3, <1>1, <1>2 DEF NoneWaiting
  <2> QED BY <2>2, <2>3
<1> QED BY <1>2, <1>3, <1>4, <1>5

\* What the handlers keep of the types, whatever the event.
LEMMA HandlersTyped ==
  ASSUME Inv, NEW e \in EventType, HotKey(e) \/ PlainKey(e)
  PROVE  /\ low' \subseteq Matrix
         /\ power_state' \in {"on", "off"} /\ power_button_n' \in {0, 1}
         /\ ac_status' \in {0, 1} /\ batt_status' \in 0 .. BATT_CYCLE - 1
         /\ ac_icon' = ac_status' /\ batt_icon' = batt_status'
         /\ IF e.sym = F12
              THEN power_button_n' = (IF e.type = "down" THEN 0 ELSE 1)
              ELSE power_button_n' = power_button_n
<1>1. TypeOK
  BY DEF Inv
<1>2. UNCHANGED supply \/ ToggleAc \/ CycleBattery
  BY DEF HotKey, PlainKey
<1>3. /\ ac_status' \in {0, 1} /\ batt_status' \in 0 .. BATT_CYCLE - 1
      /\ ac_icon' = ac_status' /\ batt_icon' = batt_status'
  BY <1>1, <1>2
     DEF TypeOK, supply, ToggleAc, CycleBattery, Cycled, BATT_CYCLE
<1>4. \/ PowerButton(e)
      \/ /\ e.sym = KeyR /\ power_button_n' = power_button_n
         /\ ms_power_on_reset
  BY DEF HotKey, PlainKey
<1>5. /\ power_state' \in {"on", "off"} /\ power_button_n' \in {0, 1}
      /\ IF e.sym = F12
           THEN power_button_n' = (IF e.type = "down" THEN 0 ELSE 1)
           ELSE power_button_n' = power_button_n
  BY <1>1, <1>4
     DEF TypeOK, PowerButton, Handled, ms_power_on_reset, power, KeyR, F12
<1>6. low' \subseteq Matrix
  <2>1. low' = low \/ ui_set_ms_kbd(e)
    BY DEF HotKey, PlainKey, ResetMatrix
  <2> QED BY <2>1, <1>1, LUTAssumption DEF TypeOK, ui_set_ms_kbd
<1> QED BY <1>3, <1>5, <1>6

LEMMA EventHandled == ASSUME Inv, HandleEvent PROVE Inv'
<1> DEFINE e == Head(queue)
<1>1. /\ queue' \in Seq(EventType) /\ Len(queue') <= MaxQueue
      /\ e \in EventType /\ LastTells'
  BY Dequeued DEF HandleEvent, Remaining
<1>2. ASSUME F12 \in Key, NoneWaiting(F12)'
      PROVE  IF e.sym = F12 THEN e.type = "down" <=> F12 \in held
             ELSE NoneWaiting(F12)
  BY <1>2, Dequeued DEF HandleEvent, Remaining
<1>3. CASE Escape(e)
  <2>1. /\ exited' = TRUE /\ draining' = FALSE /\ held' = held
        /\ UNCHANGED <<low, power, supply>>
    BY <1>3 DEF HandleEvent, Remaining
  <2>2. TypeOK'
    BY <2>1, <1>1 DEF Inv, TypeOK, EventType, power, supply
  <2> QED BY <2>1, <2>2, <1>1 DEF Inv, ButtonUpToDate
<1>4. CASE ~Escape(e)
  <2>1. /\ HotKey(e) \/ PlainKey(e)
        /\ held' = held /\ UNCHANGED <<draining, exited>>
    BY <1>4 DEF HandleEvent, Remaining
  <2> HIDE DEF e
  <2>2. TypeOK'
    BY <2>1, <1>1, HandlersTyped DEF Inv, TypeOK, EventType
  <2>3. ButtonUpToDate'
    <3>1. SUFFICES ASSUME ~exited, NoneWaiting(F12)'
                   PROVE  power_button_n' = 0 <=> F12 \in held
      BY <2>1 DEF ButtonUpToDate
    <3>2. CASE e.sym = F12
      <4>1. F12 \in Key
        BY <3>2, <1>1 DEF EventType
      <4>2. e.type = "down" <=> F12 \in held
        BY <4>1, <3>1, <3>2, <1>2
      <4> QED BY <4>2, <3>2, <2>1, <1>1, HandlersTyped
    <3>3. CASE e.sym # F12
      <4>1. power_button_n' = power_button_n
        BY <3>3, <2>1, <1>1, HandlersTyped
      <4>2. NoneWaiting(F12)
        <5>1. CASE F12 \in Key
          BY <5>1, <3>1, <3>3, <1>2
        <5>2. CASE F12 \notin Key
          <6>1. queue \in Seq(EventType)
            BY DEF Inv, TypeOK, EventType
          <6>2. \A i \in 1 .. Len(queue) : queue[i] \in EventType
            BY <6>1
          <6> QED BY <5>2, <6>2 DEF NoneWaiting, EventType
        <5> QED BY <5>1, <5>2
      <4> QED BY <4>1, <4>2, <3>1 DEF Inv, ButtonUpToDate
    <3> QED BY <3>2, <3>3
  <2> QED BY <2>2, <2>3, <1>1 DEF Inv
<1> QED BY <1>3, <1>4

\* The steps that touch neither the keys nor their events.
LEMMA OthersKeep ==
  ASSUME Inv, Drain \/ Drained \/ PowerOff \/ Exited \/ UNCHANGED vars
  PROVE  Inv' /\ UNCHANGED <<held, queue, exited, low, power_button_n>>
<1>1. UNCHANGED <<held, queue, exited, low, power_button_n, supply>>
  BY DEF Drain, Drained, PowerOff, Exited, vars, power
<1>2. draining' \in BOOLEAN /\ power_state' \in {"on", "off"}
  BY DEF Drain, Drained, PowerOff, Exited, vars, power, Inv, TypeOK
<1>3. TypeOK'
  BY <1>1, <1>2 DEF Inv, TypeOK, supply
<1>4. LastTells' /\ ButtonUpToDate'
  BY <1>1
     DEF Inv, LastTells, LastOfKey, ButtonUpToDate, NoneWaiting
<1> QED BY <1>1, <1>3, <1>4 DEF Inv

LEMMA NextKeepsInv == Inv /\ [Next]_vars => Inv'
<1>1. SUFFICES ASSUME Inv, [Next]_vars PROVE Inv'
  OBVIOUS
<1>2. ASSUME NEW k \in Key, Press(k) PROVE Inv'
  BY <1>1, <1>2, PressQueues
<1>3. ASSUME NEW k \in Key, Release(k) PROVE Inv'
  BY <1>1, <1>3, ReleaseQueues
<1>4. CASE HandleEvent
  BY <1>1, <1>4, EventHandled
<1>5. CASE Drain \/ Drained \/ PowerOff \/ Exited \/ UNCHANGED vars
  BY <1>1, <1>5, OthersKeep
<1> QED BY <1>1, <1>2, <1>3, <1>4, <1>5 DEF Next

\* Settled, no event of any key waits.
LEMMA SettledIsQuiet == ASSUME Inv, Settled, NEW k PROVE NoneWaiting(k)
  BY DEF Settled, NoneWaiting

-----------------------------------------------------------------------------

(***************************************************************************)
(* Every variable has its type, and the icons show the supply the firmware *)
(* reads, after any sequence of presses, hot keys and resets               *)
(* (ui_kbd_process, ms_power_ac_set_status, ms_power_batt_set_status).     *)
(***************************************************************************)
THEOREM KeyboardTyped == Spec => []TypeOK
<1>1. Inv => TypeOK
  BY DEF Inv
<1> QED BY <1>1, InitInv, NextKeepsInv, PTL DEF Spec

(***************************************************************************)
(* Whenever every event has been handled, the power button reads as        *)
(* pressed exactly while the user holds F12, for any number of keys and    *)
(* any length of the queue (ui.c:347-354).                                 *)
(***************************************************************************)
THEOREM ButtonFollows == Spec => []PowerButtonFollows
<1>1. Inv => PowerButtonFollows
  BY SettledIsQuiet DEF PowerButtonFollows, Inv, ButtonUpToDate
<1> QED BY <1>1, InitInv, NextKeepsInv, PTL DEF Spec

-----------------------------------------------------------------------------

\* The history variable constrains nothing.
LEMMA ScanIsKeyboard == [SNext]_<<vars, hidden>> => [Next]_vars
  BY DEF SNext, SHandle, SOther, Next

LEMMA SInitInv == SInit => SInv
<1>1. SUFFICES ASSUME SInit PROVE MatrixUpToDate /\ LowIsKeys
  BY InitInv DEF SInit, SInv
<1> QED BY <1>1 DEF SInit, Init, MatrixUpToDate, LowIsKeys

LEMMA UserKeepsMatrix ==
  ASSUME SInv, NEW k \in Key, Press(k) \/ Release(k), UNCHANGED hidden
  PROVE  MatrixUpToDate'
<1>1. PICK e \in EventType : /\ e.sym = k /\ queue' = Append(queue, e)
                             /\ held' = held \cup {k} \/ held' = held \ {k}
  <2>1. /\ Event("down", k) \in EventType /\ Event("down", k).sym = k
        /\ Event("up", k) \in EventType /\ Event("up", k).sym = k
    BY DEF Event, EventType
  <2>2. CASE Press(k)
    BY <2>1, <2>2 DEF Press
  <2>3. CASE Release(k)
    BY <2>1, <2>3 DEF Release
  <2> QED BY <2>2, <2>3
<1>2. low' = low /\ exited' = exited
  BY DEF Press, Release
<1>3. queue \in Seq(EventType) /\ Len(queue) \in Nat
  BY DEF SInv, Inv, TypeOK, EventType
<1>4. /\ Len(queue') = Len(queue) + 1 /\ queue'[Len(queue) + 1] = e
      /\ \A i \in 1 .. Len(queue) : queue'[i] = queue[i]
  BY <1>1, <1>3
<1>5. SUFFICES ASSUME ~exited', NEW l \in DOMAIN LUT \ hidden',
                      NoneWaiting(l)'
               PROVE  l \in held' <=> LUT[l] \in low'
  BY DEF MatrixUpToDate
<1>6. \A i \in 1 .. Len(queue) + 1 : queue'[i].sym # l
  <2>1. \A i \in 1 .. Len(queue') : queue'[i].sym # l
    BY <1>5 DEF NoneWaiting
  <2> QED BY <1>4, <2>1
<1>7. l # k
  <2>1. Len(queue) + 1 \in 1 .. Len(queue) + 1
    BY <1>3
  <2>2. queue'[Len(queue) + 1].sym # l
    BY <2>1, <1>6
  <2> QED BY <2>2, <1>1, <1>4
<1>8. NoneWaiting(l)
  BY <1>3, <1>4, <1>6 DEF NoneWaiting
<1>9. l \in held' <=> l \in held
  BY <1>1, <1>7
<1> QED BY <1>2, <1>5, <1>8, <1>9 DEF SInv, MatrixUpToDate

LEMMA HandlerKeepsMatrix == ASSUME SInv, SHandle PROVE MatrixUpToDate'
<1> DEFINE e == Head(queue)
<1>1. e \in EventType
  BY Dequeued DEF SInv, SHandle, HandleEvent, Remaining
<1>2. SUFFICES ASSUME ~exited', NEW k \in DOMAIN LUT \ hidden',
                      NoneWaiting(k)'
               PROVE  k \in held' <=> LUT[k] \in low'
  BY DEF MatrixUpToDate
<1>3. k \in Key
  BY LUTAssumption
<1>4. IF e.sym = k THEN e.type = "down" <=> k \in held ELSE NoneWaiting(k)
  BY <1>2, <1>3, Dequeued DEF SInv, SHandle, HandleEvent, Remaining
<1>5. /\ HotKey(e) \/ PlainKey(e)
      /\ held' = held /\ ~exited
  BY <1>2 DEF SHandle, HandleEvent, Remaining
<1>6. hidden' = IF e.rctrl THEN hidden \cup ({e.sym} \cap DOMAIN LUT) ELSE hidden \ {e.sym}
  BY DEF SHandle
<1>7. low' = low \/ (ui_set_ms_kbd(e) /\ ~e.rctrl)
  BY <1>5 DEF HotKey, PlainKey, ResetMatrix
<1> HIDE DEF e
<1>8. CASE e.sym = k
  <2>1. ~e.rctrl
    BY <1>2, <1>6, <1>8
  <2>2. ui_set_ms_kbd(e)
    BY <2>1, <1>5 DEF HotKey, PlainKey
  <2> QED BY <2>2, <1>2, <1>4, <1>5, <1>8 DEF ui_set_ms_kbd
<1>9. CASE e.sym # k
  <2>1. k \in DOMAIN LUT \ hidden
    BY <1>2, <1>6, <1>9
  <2>2. k \in held <=> LUT[k] \in low
    BY <2>1, <1>4, <1>5, <1>9 DEF SInv, MatrixUpToDate
  <2>3. LUT[k] \in low' <=> LUT[k] \in low
    BY <1>7, <1>9, <2>1, LUTAssumption DEF ui_set_ms_kbd
  <2> QED BY <2>2, <2>3, <1>5
<1> QED BY <1>8, <1>9

LEMMA SNextKeepsInv == SInv /\ [SNext]_<<vars, hidden>> => SInv'
<1>1. SUFFICES ASSUME SInv, [SNext]_<<vars, hidden>> PROVE SInv'
  OBVIOUS
<1>2. Inv'
  BY <1>1, ScanIsKeyboard, NextKeepsInv DEF SInv
<1>3. MatrixUpToDate'
  <2>1. CASE SHandle
    BY <1>1, <2>1, HandlerKeepsMatrix
  <2>2. ASSUME NEW k \in Key, Press(k) \/ Release(k), UNCHANGED hidden
        PROVE  MatrixUpToDate'
    BY <1>1, <2>2, UserKeepsMatrix
  <2>3. ASSUME Drain \/ Drained \/ PowerOff \/ Exited \/ UNCHANGED vars,
               UNCHANGED hidden
        PROVE  MatrixUpToDate'
    <3>1. UNCHANGED <<held, queue, exited, low>>
      BY <1>1, <2>3, OthersKeep DEF SInv
    <3> QED BY <1>1, <2>3, <3>1 DEF SInv, MatrixUpToDate, NoneWaiting
  <2> QED BY <1>1, <2>1, <2>2, <2>3 DEF SNext, SOther
<1>4. LowIsKeys'
  <2>1. CASE SHandle
    <3>1. CASE Escape(Head(queue))
      BY <1>1, <2>1, <3>1 DEF SHandle, HandleEvent, Remaining, SInv, LowIsKeys
    <3>2. CASE ~Escape(Head(queue))
      <4>1. low' = low \/ ui_set_ms_kbd(Head(queue))
        BY <2>1, <3>2
           DEF SHandle, HandleEvent, Remaining, HotKey, PlainKey, ResetMatrix
      <4> QED BY <1>1, <4>1 DEF SInv, LowIsKeys, ui_set_ms_kbd
    <3> QED BY <3>1, <3>2
  <2>2. CASE ~SHandle
    <3>1. low' = low
      BY <1>1, <2>2 DEF SNext, SOther, Press, Release, Drain, Drained,
                        PowerOff, Exited, vars
    <3> QED BY <1>1, <3>1 DEF SInv, LowIsKeys
  <2> QED BY <2>1, <2>2
<1> QED BY <1>2, <1>3, <1>4 DEF SInv

\* A cell is seen in every scan that selects its row, and no other column is.
LEMMA SeenInRow ==
  ASSUME TypeOK, NEW kbaddr
  PROVE  kbresult(kbaddr)
           = {cell[2] : cell \in {c \in low : c[1] \notin kbaddr}}
<1>1. \A cell \in low : /\ cell[1] \in 0 .. 9 /\ cell[2] \in 0 .. 7
                       /\ cell = <<cell[1], cell[2]>>
  BY DEF TypeOK, Matrix
<1> QED BY <1>1 DEF kbresult, RowsScanned

\* A key held and not hidden is seen; what is seen is a key held or hidden.
LEMMA HeldIsSeen ==
  ASSUME SInv, Settled, ~exited, NEW kbaddr
  PROVE  /\ Columns(held \ hidden, kbaddr) \subseteq kbresult(kbaddr)
         /\ kbresult(kbaddr) \subseteq Columns(held \cup hidden, kbaddr)
<1>1. \A k \in DOMAIN LUT \ hidden : k \in held <=> LUT[k] \in low
  BY SettledIsQuiet DEF SInv, MatrixUpToDate
<1>2. kbresult(kbaddr)
        = {cell[2] : cell \in {c \in low : c[1] \notin kbaddr}}
  BY SeenInRow DEF SInv, Inv
<1>3. ASSUME NEW b \in Columns(held \ hidden, kbaddr) PROVE b \in kbresult(kbaddr)
  <2>1. PICK k \in (held \ hidden) \cap DOMAIN LUT :
          LUT[k][1] \notin kbaddr /\ b = LUT[k][2]
    BY <1>3 DEF Columns
  <2>2. LUT[k] \in low
    BY <1>1, <2>1
  <2> QED BY <1>2, <2>1, <2>2
<1>4. ASSUME NEW b \in kbresult(kbaddr) PROVE b \in Columns(held \cup hidden, kbaddr)
  <2>1. PICK cell \in low : cell[1] \notin kbaddr /\ b = cell[2]
    BY <1>2, <1>4
  <2>2. PICK k \in DOMAIN LUT : LUT[k] = cell
    BY <2>1 DEF SInv, LowIsKeys
  <2>3. k \in held \cup hidden
    BY <1>1, <2>1, <2>2
  <2> QED BY <2>1, <2>2, <2>3 DEF Columns
<1> QED BY <1>3, <1>4

(***************************************************************************)
(* For any table of keys and any rows selected together: whenever every    *)
(* event has been handled, port KEYBOARD shows every key being held and no *)
(* other, those aside whose latest event was taken as a hot key            *)
(* (ui_set_ms_kbd and port KEYBOARD).                                      *)
(***************************************************************************)
THEOREM ScanFollows == SSpec => []ScanShowsHeld
<1>1. SInv => ScanShowsHeld
  BY HeldIsSeen DEF ScanShowsHeld
<1> QED BY <1>1, SInitInv, SNextKeepsInv, PTL DEF SSpec

=============================================================================
