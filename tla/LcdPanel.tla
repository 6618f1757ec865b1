------------------------------ MODULE LcdPanel ------------------------------
(***************************************************************************)
(* The glass the firmware believes in: two halves of 240 lines and twenty  *)
(* columns counted from the right, eight dots to a byte, one selected      *)
(* column.  The picture is a function of the memory and nothing else.      *)
(* A byte for a column the panel does not have loses both, here drawn as   *)
(* an empty panel, until the panel is cleared.                             *)
(***************************************************************************)
EXTENDS Integers

CONSTANTS Line, Byte, Column

VARIABLES
  memory,    \* <<half, line, column>> to byte
  picture,   \* the dots that are lit, as <<x, y>>
  column,    \* the selected column
  strobe,    \* accesses go to the column rather than to the selection
  lost       \* memory and picture are not known

vars == <<memory, picture, column, strobe, lost>>

OnGlass == Column \cap 0 .. 19

Where == {"left", "right"} \X Line \X OnGlass

Weight == [n \in 0 .. 7 |-> <<1, 2, 4, 8, 16, 32, 64, 128>>[n + 1]]

Lit(byte, n) == (byte \div Weight[n]) % 2 = 1

\* The leftmost dot of a column; the window is 320 dots wide.
LeftEdge(half, col) == (IF half = "right" THEN 160 ELSE 0) + 8 * (19 - col)

\* Where bit n of the byte at w is shown.
Dot(w, n) == <<LeftEdge(w[1], w[3]) + n, w[2]>>

Dots(mem) == UNION {{Dot(w, n) : n \in {m \in 0 .. 7 : Lit(mem[w], m)}} : w \in Where}

Write(half, line, byte) ==
  /\ strobe /\ column \in OnGlass /\ ~lost
  /\ UNCHANGED <<column, strobe, lost>>
  /\ memory' = [memory EXCEPT ![<<half, line, column>>] = byte]
  /\ picture' = Dots(memory')

Lose ==
  /\ strobe /\ column \notin OnGlass
  /\ memory' = [w \in Where |-> 0] /\ picture' = {} /\ lost' = TRUE
  /\ UNCHANGED <<column, strobe>>

Select == ~strobe /\ column' \in Column /\ UNCHANGED <<memory, picture, strobe, lost>>

Strobe == strobe' \in BOOLEAN /\ UNCHANGED <<memory, picture, column, lost>>

Clear ==
  /\ memory' = [w \in Where |-> 0] /\ picture' = {}
  /\ column' = 0 /\ strobe' = FALSE /\ lost' = FALSE

Init ==
  /\ memory = [w \in Where |-> 0] /\ picture = {}
  /\ column = 0 /\ strobe = FALSE /\ lost = FALSE

Next ==
  \/ \E half \in {"left", "right"}, line \in Line, byte \in Byte : Write(half, line, byte)
  \/ Lose \/ Select \/ Strobe \/ Clear

Spec == Init /\ [][Next]_vars

=============================================================================
