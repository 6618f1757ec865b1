--------------------------- MODULE MCRunLoopDebug ---------------------------
(***************************************************************************)
(* The debugger on a machine of two program addresses, the reset address   *)
(* and the interrupt vector, with one RAM address and a period of two      *)
(* instructions, so that breaks fall before, at and after its end.  The    *)
(* user types every command that does something the model can tell.        *)
(***************************************************************************)
EXTENDS DebugCommands, Sequences

\* Lines that only print are told apart by nothing, and one stands for them.
MCLines ==
  ({"q", "c", "s", "dbgof", "dbgo", "troff", "tron", "dumpstack", "none"} \X {-1})
  \cup {"bpc", "bmr", "bmw"} \X {56, -1} \cup {<<"md", 56>>}

\* The user switches output on only without breakpoints, and sets breakpoints
\* only without output: no command looks at both.
OneConcern == dbg_level' # {} => \A kind \in DOMAIN bp : bp'[kind] = -1

MCNext ==
  \/ CLoop
  \/ \E line \in Lines : debug_prompt(line[1], line[2]) /\ OneConcern

MCSpec == CInit /\ [][MCNext]_<<vars, dvars, cvars>> /\ WF_vars(Loop)

\* Begins is what strncmp finds of the keys, letter by letter.
ASSUME \A i, j \in DOMAIN cmds :
  LET key   == cmds[i].key
      other == cmds[j].key
  IN Begins(key, other)
       <=> Len(key) >= Len(other) /\ SubSeq(key, 1, Len(other)) = other

=============================================================================
