----------------------------- MODULE MCKeyboard -----------------------------
(***************************************************************************)
(* The keys the handler treats apart: right Ctrl, F12, Escape, and the     *)
(* three hot keys, two of which the matrix knows as well, one in a row     *)
(* that port KEYBOARD selects and one in a row that port MISC2 selects.    *)
(***************************************************************************)
EXTENDS KeyboardScan

MCKey == {RCTRL, F12, ESCAPE, KeyR, KeyA, KeyB}

MCLUT == [k \in {KeyR, KeyB} |-> IF k = KeyR THEN <<4, 4>> ELSE <<8, 5>>]

\* Each of the two rows by itself, both, neither, and a row without keys.
MCKbAddr == {OnlyRow(4), OnlyRow(8), OnlyRow(4) \ {8}, 0 .. 9, OnlyRow(0), {}}

=============================================================================
