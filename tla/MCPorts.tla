------------------------------ MODULE MCPorts ------------------------------
(***************************************************************************)
(* The four ports with side effects, two of them also under an alias with  *)
(* a non-zero high byte, one plain port, a port of the clock; and moments  *)
(* at the edges of the clock's fields and of the years it can tell.        *)
(***************************************************************************)
EXTENDS PortsHistory

MCPort == {MISC2, IRQ_MASK, MISC9, \h4509, POWER, \h2D, \h452D, RTC_YR}
MCVal  == {{}, {4}, Bits}

At(y, mo, d, h, mi, s, w) ==
  [year |-> y, mon |-> mo, mday |-> d, hour |-> h, min |-> mi, sec |-> s, wday |-> w]

MCTimes == { At(1980, 0, 1, 0, 0, 0, 2), At(2016, 11, 31, 23, 59, 60, 6),
             At(2075, 9, 10, 9, 10, 19, 4) }

=============================================================================
