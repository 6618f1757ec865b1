------------------------------- MODULE MCRam -------------------------------
(***************************************************************************)
(* Three cells; image files that are unreadable, short, exact, too long,   *)
(* with and without a zero byte.                                           *)
(***************************************************************************)
EXTENDS RamHistory

MCImages == { << >>, <<1>>, <<1, 2, 1>>, <<1, 0, 2>>, <<2, 1, 2, 1>> }

=============================================================================
