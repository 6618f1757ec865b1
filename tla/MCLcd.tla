------------------------------- MODULE MCLcd -------------------------------
(***************************************************************************)
(* Both halves, the first and the last of the twenty columns and one past  *)
(* them, the last line and an offset past it that wraps to the first.  A   *)
(* byte for column 20 stays in both buffers in one place only, the last    *)
(* line of the left half; everywhere else it leaves one.                   *)
(***************************************************************************)
EXTENDS LcdRefinement

MCOffset == {239, 240}
MCByte   == {0, 6}

=============================================================================
