--------------------------- MODULE DebugCommands ---------------------------
(***************************************************************************)
(* The prompt's lines on top of RunLoopDebug: the table of commands, how a *)
(* line finds its rows in it, and the output levels the user switches.     *)
(*                                                                         *)
(* A line is compared with the first cmdlen characters of every row, its   *)
(* key, from the last row to the first, and every row that matches runs.   *)
(* So a line is the longest key it begins with, "none" without one, and    *)
(* the number strtoul makes of the rest: whatever else is typed ("step",   *)
(* "continue 5"), no two lines alike in these two do anything different.   *)
(* The project's README.md lists commands "f", "o" and "b <PC>" that the   *)
(* table does not have: such a line is "none" here, and does nothing.      *)
(***************************************************************************)
EXTENDS RunLoopDebug, FiniteSetsExt

CONSTANT Lines   \* what the user types: a key or "none", and a number

VARIABLES
  dbg_level,  \* a set of LOG_TRACE and LOG_DBG
  asked       \* the levels that should be on, as the help describes the lines

cvars == <<dbg_level, asked>>

LOG_TRACE == "trace"
LOG_DBG   == "dbg"

-----------------------------------------------------------------------------
(* The table                                                               *)

cmds == <<
  [cmd |-> "q", key |-> "q"],             [cmd |-> "c", key |-> "c"],
  [cmd |-> "s", key |-> "s"],             [cmd |-> "l", key |-> "l"],
  [cmd |-> "bmw", key |-> "bmw"],         [cmd |-> "bmr", key |-> "bmr"],
  [cmd |-> "bpc", key |-> "bpc"],         [cmd |-> "md", key |-> "md"],
  [cmd |-> "mw", key |-> "mw"],           [cmd |-> "e", key |-> "e"],
  [cmd |-> "dbgoff", key |-> "dbgof"],    [cmd |-> "dbgon", key |-> "dbgo"],
  [cmd |-> "troff", key |-> "troff"],     [cmd |-> "tron", key |-> "tron"],
  [cmd |-> "dumpstack", key |-> "dumpstack"],[cmd |-> "h", key |-> "h"] >>

Keys == {cmds[i].key : i \in DOMAIN cmds}

\* Only one key begins with another, and so only one line has two rows.
Begins(key, other) == key = other \/ (key = "dbgof" /\ other = "dbgo")

\* !strncmp(buf, cmd, cmdlen)
Matches(line, row) == Begins(line, row.key)

Rows(line) == {i \in DOMAIN cmds : Matches(line, cmds[i])}

\* A wrong variant, for the mutation runs only: the table is walked from its
\* first row on.
LastRowDown(rows) == cmds[Max(rows)].cmd

\* The walk is from the last row to the first: of several rows that decide
\* one thing the first in the table has the last word.
LastRun(rows) == cmds[Min(rows)].cmd

\* -1 disables a breakpoint.
ASSUME LineAssumption == Lines \subseteq (Keys \cup {"none"}) \X (BpAddr \cup {-1})

Runs(line, names) == {i \in Rows(line) : cmds[i].cmd \in names}

\* What a line leaves of one output level.
Level(line, level, on, off) ==
  LET rows == Runs(line, {on, off}) IN
  IF rows = {} THEN dbg_level \cap {level}
  ELSE IF LastRun(rows) = on THEN {level} ELSE {}

Leaving    == {"q", "c", "s"}
Breakpoint == [bmw |-> "mw", bmr |-> "mr", bpc |-> "pc"]

-----------------------------------------------------------------------------
(* One line                                                                *)

\* What the row that is not about a level does, to the loop and its history.
RunRow(row, arg) ==
  \/ row = "q" /\ quit /\ UNCHANGED dvars
  \/ row = "c" /\ DContinue
  \/ row = "s" /\ DStep
  \/ row \in DOMAIN Breakpoint /\ set_bp(Breakpoint[row], arg) /\ UNCHANGED dvars
  \/ row = "md" /\ md(arg) /\ UNCHANGED dvars
  \/ row = "dumpstack" /\ (\E sp \in Stacks : dump_stack(sp)) /\ UNCHANGED dvars
  \/ /\ row \notin Leaving \cup DOMAIN Breakpoint \cup {"md", "dumpstack"}
     /\ UNCHANGED <<vars, dvars>>

\* What the help says of a line that begins like the name of a command.
TurnsOn  == [dbgo |-> LOG_DBG, tron |-> LOG_TRACE]
TurnsOff == [dbgof |-> LOG_DBG, troff |-> LOG_TRACE]

Asked(line) ==
  IF line \in DOMAIN TurnsOn THEN asked \cup {TurnsOn[line]}
  ELSE IF line \in DOMAIN TurnsOff THEN asked \ {TurnsOff[line]}
  ELSE asked

debug_prompt(line, arg) ==
  /\ pc = "prompt"
  /\ dbg_level' = Level(line, LOG_DBG, "dbgon", "dbgoff")
                    \cup Level(line, LOG_TRACE, "tron", "troff")
  /\ IF Rows(line) = {} THEN UNCHANGED <<vars, dvars>>
     ELSE RunRow(LastRun(Rows(line)), arg)
  /\ asked' = Asked(line)

CInit ==
  /\ DInit
  /\ dbg_level = {} /\ asked = {}

\* Everything but the lines: the loop, and what may happen at the prompt.
CLoop ==
  /\ \/ pc # "prompt" /\ DNext
     \/ pc = "prompt" /\ (sigint \/ EscPressed) /\ UNCHANGED dvars
  /\ UNCHANGED cvars

CNext ==
  \/ CLoop
  \/ \E line \in Lines : debug_prompt(line[1], line[2])

\* The emulator's own code runs on; the user need not ever do anything.
CSpec == CInit /\ [][CNext]_<<vars, dvars, cvars>> /\ WF_vars(Loop)

-----------------------------------------------------------------------------

(***************************************************************************)
(* After any lines at any number of prompts, the output levels that are on *)
(* are those the table's help texts say the lines typed last turned on,    *)
(* although one line may match several rows: "dbgoff" also turns the       *)
(* output on, and only the order of the walk turns it off again            *)
(* (debug.c:66-88, 273-299).                                               *)
(***************************************************************************)
PromptObeys == dbg_level = asked

=============================================================================
