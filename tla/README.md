# A TLA+ model of msemu

`msemu` emulates the Mailstation, a Z80 e-mail appliance: a codeflash, a
dataflash behind software data protection, RAM, two LCD halves, a keyboard
matrix, a clock, a timer interrupt, a power button, and a small debugger on the
terminal. This directory holds TLA+ modules of the emulator's own logic, TLC
configurations that check them on small instances, and TLAPS proofs. Paths below
are relative to the repository's `src/`.

## The system

| component | source | state | operations |
|---|---|---|---|
| dataflash | `mem.c` | array, tracking byte, `cycle`, `cmd` | `df_read`, `df_write` |
| image life cycle | `main.c`, `ms_init`, `mem.c` | file, `ms->df`, `df_save_to_disk` | `df_init`, `df_deinit`, quitting, dying |
| RAM | `mem.c` | `ms->ram`, `ms->ram_image` | `ram_init` (two modes), `ram_read`, `ram_write` |
| run loop | `msemu.c` | counters of ms and T states, power state | one pass of `ms_run` |
| timer interrupt | `msemu.c` | `icount`, `interrupt_mask` | `process_interrupts` |
| power | `msemu.c` | `power_state`, supply, button | reset, power-off, `ms_power_hint` |
| debugger | `debug.c` | `bp`, `dbg_level` | prompt commands, `debug_testbp`, SIGINT, `debug_dasm` |
| keyboard | `ui.c`, `msemu.c` | SDL's queue, `key_matrix` | `ui_kbd_process`, scan of port KEYBOARD |
| LCD | `lcd.c` | byte buffer, pixel buffer, column latch | `lcd_write`, `lcd_read`, `lcd_init` |
| ports | `io.c`, `msemu.c` | port buffer | `z80ex_pread`, `z80ex_pwrite` |
| clock | `msemu.c` | none of its own | the RTC cases of `z80ex_pread` |
| window | `ui.c` | texture of the LCD, icons, splash flag | `ui_update_lcd`, `ui_render` |
| bus | `msemu.c` | slot ports | `z80ex_mread`, `z80ex_mwrite` |
| codeflash | `mem.c` | a buffer nothing writes | `cf_read` |
| serial number | `msemu.c` | last bytes of the dataflash | `ms_set_df_rnd_serial`, `ms_serial_valid` |

How they interact. `ms_run` is the only thread. It calls the debugger's prompt,
steps the external CPU z80ex, which calls back into the bus and the ports and
through them into the devices, then raises the timer interrupt, then drains SDL's
event queue into the key matrix and the power functions. A SIGINT handler runs
between any two of these steps and shares `bp.hits` with all of them. Power-off
comes from inside the CPU's slice (a port write), power-on from the event
handler. The dataflash outlives the process in a file, loaded by `ms_init` and
rewritten by `ms_deinit`.

What is hard: the signal and the key presses that fall anywhere; a power-off in
the middle of a slice; the T state and millisecond counters that carry remainders
across iterations, breaks, prompts and power cycles; the guard sequence kept in
four bits of one byte; two LCD buffers that must agree through one shared latch;
the debugger's reads of a chip that counts them;
windows moved between any two accesses, decoded in two places; pending and
enabled interrupts in two registers; a key whose press and release
fall on different sides of a change of right Ctrl; and the only copy of the
image being rewritten in place. `PROJECT.json` lists each hazard at its line with
the properties that would catch it.

## Modules

Each component is one module with its own Init, Next and Spec. Properties that
need the past are stated over history variables in a second module that extends
the first; it adds variables and never a behaviour. Definitions named as "a wrong
variant" are plausible bugs the properties are tested against; no specification
uses them.

### Dataflash, SdpFlash, DataflashSdp, DataflashProofs

`Dataflash` is `df_read` and `df_write`. `wp` is the tracking byte after the 512
KiB; `cycle` and `cmd` are `df_write`'s statics. Addresses are the header's
0x00000 to 0x7FFFF. `SdpFlash` is what the protected chip promises, in terms of a
bystander who watches the bus: it opens only when the seven unlock reads have just
been spelled, closes only after the seven lock reads, must do so when they were
spelled from a standstill, and its cells change only while it is open, by the
command the previous write announced. `DataflashSdp` adds the bystander to
`Dataflash` and states `KeepsPromise == Sdp!Spec`, a refinement.

### Bus, BusHistory, BusProofs

`Bus` is `z80ex_mread` and `z80ex_mwrite` over the four slot registers, with RAM and
an instance of `Dataflash` (`Chip`) behind them; `lcd_write` is in `Lcd`, the code
flash and the modem do nothing. Its users are the CPU, one access at a time between
the start and the end of an instruction, and the debugger: `Disassemble` before a
traced instruction, `md`, and `dump_stack`, which reads on to the end of memory.
`BusHistory` adds a bystander who works out for himself what the firmware's
addresses mean (`Meant`), remembers what it stored in RAM, and counts its guard
reads with the operators of `SdpFlash`.

### RunLoop, RunLoopDebug, DebugCommands, RunLoopTiming, RunLoopScreen, RunLoopProofs

`RunLoop` is one pass of `ms_run`, cut at the points where another actor can come
in between: `pc` is "top" (the break test), "prompt", "gate" (the wall clock),
"slice" (one action per complete instruction), "int" (the timer), "ui". The CPU
is external: an instruction takes any of `Tstates`, goes to any address of `Code`,
may access `Data`, may write port IRQ_MASK or the power port. `hits` keeps of
`bp.hits` what the program asks of it, whether it is zero. At the prompt `md` and
`dump_stack` read past the read breakpoint like the CPU.

`RunLoopDebug` counts the instructions between a break and the prompt.
`DebugCommands` puts the typed lines on top of it: the table of commands, the
comparison of a line with a prefix of every row, from the last row to the first, and
the output levels; `asked` is what the help says of the lines typed. A line is the
longest key of the table it begins with, or none, and a number: `strncmp` tells no
more of it. `Begins` lists the one pair of keys of which one begins with the other;
`MCRunLoopDebug` has TLC compare it with the letters of all the keys.
`RunLoopTiming` keeps the T states really executed modulo the period, the periods
executed less the timer checks made, the T states run since a power-off, and the
ms between slices. `RunLoopScreen` adds the LCD's texture, copied in each pass before
the events, and the frame shown after them.

### Keyboard, KeyboardScan

The user presses and releases keys; each event carries the right-Ctrl state of its
moment and waits in the queue; `HandleEvent` is one round of `ui_kbd_process`'s
loop with everything it calls; the firmware may cut the power in between.
`kbresult` is the scan of port KEYBOARD. `KeyboardScan` remembers which keys had
their latest event taken as a hot key; `KbAddr` is what the firmware drives the rows
with, any number of them selected together.

### Lcd, LcdPanel, LcdRefinement, LcdProofs

`Lcd` is the two buffers, indexed as `lcd.c` does, and the latch, which takes any byte:
`lcd_write` checks no column. A byte sent to one of the columns from 20 on goes where the
indices say, into another column or out of the buffers; `strayed` remembers that one has
been sent since the reset and `overrun` that an index has left its buffer, after which the
program's behaviour is undefined and the model goes no further. `LcdPanel` is the glass:
lines, twenty mirrored columns, lit dots as a function of the memory, both lost by a byte
for a column it does not have until it is cleared. `LcdRefinement` maps one to the other.

### Session, SessionHistory, FlashSession, SessionProofs

A session goes from "init" through "load", "run", "save" and "write" back to
"off"; `ms_init` may fail early, reads may be short, the file found at first may be missing,
short or longer than the chip, the save may fail at its opening or at any block, and the process may die anywhere. `SessionHistory`
remembers the last image a completed save wrote and what was changed since with
the chip unlocked. To `Session` the chip is a lock and blocks that change while it is
open. `FlashSession` puts the chip of `Dataflash` in its place: a new process calls
`df_init` on a chip at rest, the firmware's reads and writes are the chip's own steps,
and `df` is the chip's cells by sectors (`Image`).

### Ram, RamHistory, RamProofs

`ram_init` in its two modes with its `strncpy`, the power-off that calls it again,
the reset that does not, and the CPU's writes. `RamHistory` remembers what
`ram_init` left and where the CPU has stored since.

### Ports, PortsHistory, PortsProofs

The port buffer and its hardware: MISC2's LED, IRQ_MASK's acknowledge, the power
bits of MISC9, the power port. Bytes are sets of one bits. The clock ports are in
`Rtc`; what port KEYBOARD reads is in `Machine`.

### Rtc

`hex2bcd` with its eight-bit argument and result, and the thirteen clock ports, as
operators over the host's clock. `Ports` extends it: `z80ex_pread` there is the
whole function but for port KEYBOARD, and the clock may move between any two
accesses.

### Machine

`RunLoop`, `Ports` and `Keyboard` each leave to chance what another part decides: when
the firmware enables an interrupt or cuts the power, when one is raised, when the button
moves or a hot key resets the machine, when Escape is found. `Machine` puts the three
together over one set of registers: `io`, `interrupt_mask`, `power_state` and
`power_button_n` are the variables of `Ports`, the loop's `irq_port` is what `io` holds at
IRQ_MASK, its `esc` an Escape in the queue, and the keyboard's `draining` is `pc = "ui"`.
An action is a step of one part with what it does to the other two: an OUT of the CPU
(`MWrite`), an event taken from the queue with the reset it may cause (`MEvent`), a step
of the loop (`MLoop`). `pread` is the whole of `z80ex_pread`, port KEYBOARD included, whose
rows are selected at two ports. That each part sees of the others only what its own
module allows for is stated as three refinements, `LoopIsRunLoop`, `RegistersArePorts`
and `KeysAreKeyboard`.

## What the runs check

| run | instance | shows |
|---|---|---|
| `dataflash` | all eight guard addresses, one alias, one stranger; two sectors; five bytes | `SequenceTracked`, the refinement `KeepsPromise` |
| `bus` | three places of code and nine of data in all four slots, among them all guard addresses the firmware uses, two of them also through slot 8 and in RAM; the dataflash, RAM and the modem in the windows, first and a high page | `WindowsAgree`, `GuardHeard`, `ChipIsDataflash` |
| `debugger` | two program addresses, period of two instructions, breakpoints on code and data, every command that changes something and one that does not | `PromptObeys`, `BreakIsPrompt`, `StepIsOne`, `PcBreakpointCaught`, `SlicesEnd`, `BreakHeeded`, `QuitHeeded` |
| `timing` | period 5 with instructions of 2 and 3, so that every overshoot and remainder occurs | `TimerInPhase`, `EveryPeriodOffered`, `TailIsBounded`, `PacedByClock`, `RaisedWhenTaken`, `StaleFrameOnce` |
| `keyboard` | right Ctrl, F12, Escape and the hot keys R, A, B, of which R and B are in the matrix; every initial supply; queue of two; rows selected alone, together and not at all | `PowerButtonFollows`, `ScanShowsHeld` |
| `lcd` | both halves, first and last column and column 20, last line and a wrapped one | `OnlyStraysOverrun`, `Coherent`, `ImplementsPanel` |
| `session` | three sessions, two blocks of three contents, files of up to three blocks at first | `SavedIsReloaded`, `FileUntouched`, `ProtectedUntilUnlocked` |
| `ram` | three cells, five images | `SameEveryTime`, `KeptAcrossReset` |
| `ports` | four special ports, one of them also aliased, a plain port and its alias, a clock port; moments at the edges of the clock's fields, 1980 to 2075 | `PendingIsEnabled`, `Misc9IsShared`, `ReadsBack`, `DigitsSpellTime` |
| `machine` | a matrix key of row 9, F12, the reset's hot key, Escape, a queue of two; ports KEYBOARD, MISC2, IRQ_MASK and POWER, one byte written to any of them | `LoopIsRunLoop`, `RegistersArePorts`, `KeysAreKeyboard`, `ButtonIsSeen`, `KeysAreSeen`, `EscapeIsHeard` |

Bounds and why they suffice. Addresses are compared for equality or modulo a mask,
so a few that are equal, aliased or different stand for all. The guard sequences
are whole. Two sectors tell an erase inside from one outside. The period and the T
states matter by their remainders only; 2 and 3 against 5 reach every remainder,
an overshoot of 0 and of more. Millisecond steps of 8 and 16 are below and above
the 15 of the code, alone and summed. A queue of two is
refilled while it is drained, so it holds any two neighbouring events with every
set of held keys; keys beyond those treated apart are alike. On the bus,
one byte and two pages are enough: places differ or agree by slot, page and offset,
and the byte stored differs from the one RAM is filled with. `MaxSessions` of three
is a save, a loss or a failure, and a reload. `Hertz` is scaled down to 1, or to 0: no run is
about its value. In `machine` the state of three components is multiplied, so the
parameters that their own runs vary are held: one initial supply, one instruction
length, one byte, which together with the empty one after a reset selects and deselects
rows, enables and disables an interrupt and cuts the power, one moment of the clock, and
no repeats of a held key (`NoRepeat`; the run `keyboard` has them).
Its queue of two, which the user refills while it is drained, lets every event wait behind
every other, Escape behind a reset or the power button, and events behind a reset. A
repeat adds to the queue what a release and a press add. The safety theorems about
`Machine` have none of these bounds. In `lcd`, column 20 stands for the columns that do
not exist: on the last line of the left half it stays in both buffers, in the right
half's column 0 and in another line's dots, elsewhere it leaves one. In `debugger` the user
switches output on only while no breakpoint is set, and sets one only while output is off
(`OneConcern`): no command looks at both, and the theorems about `CSpec` allow both. All
bounds are CONSTANTS, guards on history variables (`OneMore`, `waited`, `quiet`) or these
two conditions on what the user does.

CHECK_DEADLOCK is on everywhere but in `lcd`, whose model stops at an overrun: an emulator
that has ended stutters by an action of its own (`Terminated`, `Exited`, `Failed`,
`Finished`).

Fairness. `debugger` assumes weak fairness of `Loop`, the emulator's own next step
(`MCSpec`, as in `CSpec`), and `machine` of `MStep`, the same steps of the composed machine (`MCSpec`). `ms_run` is a thread that is never blocked outside the prompt, which
is not in `Loop`; neither the user nor the prompt is assumed to do anything.

### Disagreements between code and text

| run | the text | the code |
|---|---|---|
| `ram_not_fresh_when_off` | `main.c:31`: the image is in place at power-on | the CPU runs on after `ms_power_off` until the slice ends and writes RAM (`msemu.c:765`) |
| `key_stuck` | `msemu.c:388`: bits high unless a key is pressed | a release under right Ctrl never reaches the matrix (`ui.c:356`) |

Notes made while modelling, which no run checks. The repository's `README.md:46-57` lists
prompt commands `f` and `o` (debug printing off and on) and `b <PC>`; the table of commands
(`debug.c:66-87`) has none of the three, but `dbgoff`, `dbgon`, `bpc`, `bmr` and `bmw`, so
`f`, `o` and `b` do nothing. `PromptObeys` is about the help texts of that table.
`ram_init` copies the RAM image with
`strncpy`, which stops at the image's first zero byte (`mem.c:387`), though `main.c:30`
says that the image is set in place; `Copied` in `Ram` does the same. PC is compared with its breakpoint
after stepped instructions only, so an interrupt entry or a reset onto the address
does not stop (`msemu.c:771`; README, "Debugger"); `PcBreakpointCaught` states what
does hold. `md` of the address of the read breakpoint sets the break again inside
the prompt that cleared it (`debug.c:162`; `debug.h:50`). The one-second interrupt
comes every 65 timer interrupts (`msemu.c:570-571`). From 2076 on the argument of
`hex2bcd` wraps and the year ports are wrong (`msemu.c:456`); the model's clock stops
at 2075.

## What is proved

All theorems hold for every value of the constants their modules' assumptions
allow, where a run shows the same formula on one instance. Proofs about a
component are in a module of their own.

`DataflashProofs`, for every set of addresses and bytes: `TypeCorrect`, `Tracked`
(`SequenceTracked`) and `Refinement` (`HSpec => KeepsPromise`). The type invariant is
inductive because it says where the tracking byte can stand: 0x00-0x06 while
locked, 0x88-0x8E while unlocked. `ReadMoves` and `ClearMoves` describe what the
code's arithmetic does to it in terms of the position in the awaited sequence.
The refinement needs, beside it, that the position is zero whenever the
bystander's count `quiet` of reads since a write or a switch is zero (`AtBase`),
and that the bystander's memory is well formed (`HistoryOK`).

`RunLoopProofs`, for every period, instruction set, clock and set of addresses.
`TypeCorrect` is inductive as it stands. Two strengthenings carry the rest:

- `DInv`, for the debugger. `LateOK` places the machine after an instruction begun
  under a break: it has left the slice with the break still pending, so no second
  one can be begun. `StepOK` says at each place of the loop how far a single step has
  come, and that the power the prompt saw is the power the gate sees. `CaughtOK` says
  an instruction that led to the breakpoint has left the slice too. They give
  `BreakPrompts`, `StepsOne` and `Caught`.
- `TInv`, for the clock. `PhaseOK` bounds the counter by two periods, even after the
  interrupt still to come, which is where `ShortAssumption` is needed, so that `%`
  takes off at most one period. `TailOK` bounds what runs without power by what the
  counter holds. `PaceOK` says the gate never holds more ms than have passed. They
  give `InPhase`, `PeriodsOffered`, `TailBounded` and `Paced`; `RaisedIsTaken` needs no
  invariant.

`PromptObeyed` needs no invariant beside the types: what a line does follows from the
table alone. `RowsOf` and `LastRunIs` compute which row of it has the last word for
every line, `BothRows` the one line that has two, and `LevelObeys` and `RowObeys`
compare what they do with what the help says.

Progress is proved from two hypotheses, `[]LoopMoves` and `SlicesEnd`. Weak fairness of the loop is a
temporal formula in which the provers take `ENABLED` as it stands; the hypothesis
`[]LoopMoves` says when it holds. Then `BreakWaits` and `BreakNears` are the leads-to argument: a waiting
break stays at its place of the loop or goes on to the next one, and a step of the loop
takes it there, until it is served (`BreakServed`). A break leaves a slice with the next
step, so nothing need be known of the slice's length; Escape waits until the slice is
over, so `EscapeServed` also has `SlicesEnd` as a hypothesis. `SliceAdvances` is the step
of the induction behind that one.

The same module carries them to the modules on top: `CommandsKeepDebugger` says the
table of commands leaves the three debugger properties in place, `ScreenKeepsClock`
that the window disturbs no counter, and `StaleOnce` is `StaleFrameOnce`, whose
invariant says how old the texture can be at each place of the loop.

`BusProofs`, for every set of addresses, bytes, settings and stacks: `TypeCorrect`,
`BusKeepsChip` (`ChipIsDataflash`, an instance of the chip), `RamThroughWindows` and
`GuardAlwaysHeard`. The last reuses the lemmas of `DataflashProofs` through an
instance: while no debugger has read the chip since the firmware's last write to it,
the firmware's counts are those of a bystander at the chip itself, so the invariant
of the chip's own proof holds of them.

`KeyboardProofs`, for every table of keys without shared cells and every length of
the queue: `KeyboardTyped`, `ButtonFollows` and `ScanFollows`. The invariant speaks of
the events still waiting: the last one of a key tells whether the key is held
(`LastTells`), and a key with none waiting is up to date (`ButtonUpToDate`,
`MatrixUpToDate`). That a scan of several rows together shows no column without a key
also needs that only cells of the table are ever low (`LowIsKeys`).

`SessionProofs`, for every size of the image, every set of block contents and any
number of sessions: `TypeCorrect`, whose hard step is that the file grows block by
block as a prefix of the buffer (`WriteGrows`), then `Reloaded`, `Untouched` and
`Protected`. The invariant is that outside a rewrite, and unless something failed
inside one, the file is exactly the last saved image (`FileOK`).

The same module proves `FlashIsSession`, `FSpec => Spec`: a session over the chip of
`Dataflash` is a session of `Session`, for every set of addresses and number of sectors.
Its only hypothesis, `Sectors`, spells the constants of `Session` in cells. `EffectOnCells`
says what a command can do to the cells, `OneSector` what that is to the blocks,
`TrackingByte` that a write never moves the lock; a read is a change of the lock or
nothing. The invariant is that the buffer is the image of the cells, the lock the
chip's, and that every block on disk has the cells of its sector (`FInv`).

`RamProofs`, for every size and image: `TypeCorrect`, `Same` and `Kept`. The invariant
is that RAM was first filled with the copy of the image that every later fill makes.

`PortsProofs`, for every set of ports, bytes and moments: `TypeCorrect`, `Pending`,
`PowerBitsDriven` (`Misc9IsShared`) and `PlainReadsBack`, both from the invariant that the
port buffer holds what was last written since the reset (`BufferIsLast`), and
`ClockSpells` (from the arithmetic of `hex2bcd`, lemma `Digits`, and the layout of the
clock's ports, lemma `PortsOfField`).

The same module proves the three refinements of `Machine`, for every set of ports, bytes,
program addresses, clock readings and keys: `MachineIsPorts`, `MachineIsKeyboard` and
`MachineIsRunLoop`, so that every safety theorem about a part holds of it in the machine.
Each rests on a lemma that maps any step of the machine to a step of the part or a stutter
(`PortsStep`, `KeysStep`, `RunStep`). The invariant they share, `MInv`, is that of the ports
and of the keyboard with one fact between them, that the keyboard has found an Escape only
when the loop has ended. It needs no part of the loop's invariant, but the other two are
needed: a power-off is the keyboard's only if the power was on or off before, and a waiting
Escape stays waiting while other events are taken only because the queue is a queue
of events (`EscapeComes`, `EscapeStays`). `ButtonReachesFirmware` and `KeysReachFirmware`
then join the keyboard's theorems with what the ports do: the rows scanned are the ones the
firmware's last writes select (`RowsAreSelected`).

`LcdProofs`, for every set of offsets, bytes and latched columns, those that do not exist
included: `ColumnsStayInside` (`OnlyStraysOverrun`), `ShowsWhatIsRead` and `RefinesPanel`
(`Spec => ImplementsPanel`), with `TypeCorrect` beside them. They rest on two facts
of the layout: a cell belongs to one half, line and column only (`CellPlace`), a pixel
to one bit of one cell (`PixelPlace`). The refinement adds that a pixel's place in its
320-wide line is the panel's dot (`PixelIsDot`), so that buffers that agree show the
picture the panel's memory gives (`PictureIsDots`); a byte sent to a column that does not
exist is the panel's loss (`StrayIsLoss`).

Only model-checked: `EscapeIsHeard`, a liveness property whose argument counts the events
before the Escape, and `SlicesEnd`, because it needs an induction over the T states
counted, and the induction theorems take an operator as their parameter, which the provers
cannot instantiate. `SlicesEnd` is a hypothesis of `EscapeServed`. `BreakServed` and
`EscapeServed` also assume `[]LoopMoves`, that the loop's next step is enabled outside the
prompt and the end: `ENABLED` is out of the provers' reach, and no run states it, since
it only says that the model is total. It does hold on the instance of `debugger`: at a
place without a next step Escape could be pressed and fairness would ask for nothing, and
`QuitHeeded` would fail. Both need a machine that can do something: T states, clock steps
and program addresses to choose from.

Only proved: the types of `Bus`, `Keyboard`, `Lcd`, `Ports`, `Ram` and `Session`, whose
`TypeOK` no run needs beside its theorem, and `FlashSession`. The state of the latter is
that of a chip in every phase of a session, which is more than a run beside the others
can hold; the runs `dataflash` and `session` check the two sides, and `FlashIsSession`
joins them.

## Not modelled

The bytes of the codeflash, which nothing writes. What the window's toolkit does
with a texture, the icons' rectangles, what the log functions print, option parsing,
the Windows shims and the build files: no property here is about them. The digits
of a new serial number and the warning about an invalid one, which changes nothing.
What the program does after an LCD index has left its buffer. A slot page beyond its
device indexes outside the device's buffer; what happens then is up to the build (but for
page 32 of the dataflash, whose first byte is the tracking byte), and `Bus` is restricted
to programs that do not (`Exists`). End of file on the debugger's terminal is left out
(`debug.c:276`).

Also noted: a reset clears the LED's port but leaves its icon as it was
(`msemu.c:500`).

## Plan

Done: every component of the table above, with `Bus` as the composition of
`Dataflash` and RAM under the CPU and the debugger, `FlashSession` of the chip and its
image's life cycle, and `Machine` of the loop, the ports and the keyboard. What could follow:

- The debugger's and the clock's theorems over a CPU whose accesses go through `Bus`.
- The histories of `RunLoopDebug` and `RunLoopTiming` over `Machine`.
