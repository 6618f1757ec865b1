----------------------------- MODULE RamHistory -----------------------------
(***************************************************************************)
(* Ram with the memory of what RAM held when it was last initialised.      *)
(***************************************************************************)
EXTENDS Ram

VARIABLES
  first,    \* RAM as the first ram_init left it
  fresh,    \* RAM as the latest ram_init left it
  stored    \* cells the CPU has written since

rvars == <<first, fresh, stored>>

RInit == Init /\ first = ram /\ fresh = ram /\ stored = {}

RFirst == FirstInit /\ first' = ram' /\ fresh' = ram' /\ stored' = {}

ROff == PowerOff /\ fresh' = ram' /\ stored' = {} /\ UNCHANGED first

RWrite == \E a \in Cells, val \in Byte :
  ram_write(a, val) /\ stored' = stored \cup {a} /\ UNCHANGED <<first, fresh>>

ROther == (Reset \/ Failed) /\ UNCHANGED rvars

RNext == RFirst \/ ROff \/ RWrite \/ ROther

RSpec == RInit /\ [][RNext]_<<vars, rvars>>

(***************************************************************************)
(* With an image, every power-off puts RAM back to the same contents,      *)
(* whatever the CPU had stored anywhere (ram_init, 384-387).               *)
(***************************************************************************)
SameEveryTime == pc = "run" /\ path => fresh = first

(***************************************************************************)
(* RAM loses nothing between two power-offs: a cell the CPU has not stored *)
(* to reads as ram_init left it, hard resets included (msemu.c:118).       *)
(***************************************************************************)
KeptAcrossReset == \A a \in Cells \ stored : ram_read(a) = fresh[a]

=============================================================================
