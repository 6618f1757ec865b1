----------------------------- MODULE MCSession -----------------------------
(***************************************************************************)
(* Three sessions over a chip of two blocks, beginning with a file of up   *)
(* to one more.                                                            *)
(***************************************************************************)
EXTENDS SessionHistory

CONSTANTS zeros, serial, erased

MCBlock == {zeros, serial, erased}

MCZeros  == [i \in 1 .. Size |-> zeros]
MCErased == [i \in 1 .. Size |-> erased]

=============================================================================
