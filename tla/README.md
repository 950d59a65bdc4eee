# debugger_linux in TLA+

A formal model of the debugger in `src/launch_exec.cpp` and `src/include/`, of
the line editor it reads commands with (`src/linenoise/`), and of the parts of
libelfin whose code is in the repository: TLA+ modules translated from the
source, TLC runs that check them on small instances, and TLAPS proofs that hold
for instances of every size.

## The system and its parts

The debugger is one process with one thread. `main` forks a child, which asks to
be traced and executes the program; the parent builds a `debugger` and enters
`run`, a loop of `linenoise::Readline` and `runCommand`.

| part | state | operations | interacts by |
| --- | --- | --- | --- |
| `class breakpoint` (`include/breakpoint.h`) | `m_data`, `m_enabled` | `enable`, `disable` | `PTRACE_PEEKDATA`/`POKEDATA` on the traced process |
| `class debugger` (`launch_exec.cpp`) | `addr_to_bp`, `m_load_address`, the locals of a command that blocks in `waitpid` | the commands of `runCommand` and what they call | `ptrace` requests, `waitpid`, lookups |
| traced process | code, registers, run state | executes, traps, faults, exits, receives signals | runs only while the debugger blocks in `waitpid` |
| debug information | none (read only) | `get_func_using_pc`, `get_line_entry_using_pc`, DIE and line-table iteration | called by the commands; throws `out_of_range` |
| command line (`split`, `is_prefix`, `runCommand`) | the line | dispatch by prefix, in a fixed order | calls the commands |
| registers, symbols, variables (`include/registers.h`, `include/symbol.h`, `ptrace_expr_context`) | tables | conversions between names, DWARF numbers and fields; places of variables | called by commands |
| line editor (`linenoise/linenoise.hpp`) | buffer, cursor, history, completion; settings of the terminal; bytes read of a key; rows and columns | keys, refresh, raw mode | called by `run`; shares the terminal with the traced process |
| libelfin headers (`dwarf/`, `elf/`) | `small_vector`; sections, cursors; canonical headers | memory, byte order, bounds | called by the lookups; the rest of the implementation is not in the repository |

What is hard here. The debugger has one thread, but it shares memory with a
process it patches behind its back, and each command is a sequence of requests
of which every one may fail because the process is gone. A wait that was meant
for the end of a single step may be answered by a signal or an exit. The saved
byte of a breakpoint is a copy that may be stale. Temporary breakpoints may
coincide with the user's. Nothing catches the exceptions of the lookups. The
frame pointer is only right between a prologue and an epilogue. `PROJECT.json`
lists these hazards with their lines.

The terminal is shared, too: settings may fail to be restored, keys arrive in
pieces and among answers, and what is on the screen is only computed, never read
back. And the library reads numbers of all widths and orders from files,
through cursors that are moved without a check.

What makes each part correct:
- breakpoints and running: the program executes its own instructions in its own
  order (transparency); no breakpoint is missed; a command leaves in the table
  exactly what the user put there; every command comes back.
- stepping and frames: `finish` and `next` stop in the frame they promise,
  `backtrace` prints every frame.
- command line: each documented command is reached by its name; what is printed
  is the line, the register and the value that are meant.
- line editor: text, cursor and screen agree, history keeps the latest lines,
  each key does what it is for, the terminal is left as it was found.
- library: vectors are sequences of their own that leak nothing, headers mean
  the same in every class and byte order, nothing outside a section is read.

## Modules

| module | what it is | proved about |
| --- | --- | --- |
| `Cpu` | what an instruction does to `rip`, the return addresses and the frame pointer (external) | lemma |
| `Tracee` | the traced process under `ptrace`: memory, registers, run state and cause of the last stop (external, with `execute_debugee`, `read_memory`, `write_memory`) | as part of `Debugger` |
| `DebugInfo` | line table and functions of one compilation unit, and the lookups of the debugger | lemmas |
| `Debugger` | `class debugger` and `class breakpoint`: one action per command, and one per return of a `waitpid` | yes |
| `Undebugged` | the abstract specification: the program without a debugger | refinement |
| `DebuggerProperties` | the properties, the refinement mapping and the inductive invariant | |
| `DebuggerProofs` | theorems and proofs | |
| `MCDebugger`, `MCFrames` | programs for TLC | |
| `MCOverwrite` | `MCDebugger` with a history of what was written to memory, for the run `overwrite` | |
| `Terminal` | settings of the terminal: `enableRawMode`, `disableRawMode`, the exit handler, and every way the debugger ends | yes |
| `Registers` | the table of `registers.h` and its look-ups | lemmas |
| `Display` | what is read and printed: `print_source`, `lookup_symbol`, `read_variables` with its context for location expressions | `print_source`, `read_variables` |
| `CommandLine` | `run` and `runCommand`, on `Terminal`, `Registers` and `Display`: `split`, `is_prefix`, the function a line calls, with every missing or malformed word; the table of commands of `src/README.md` | yes |
| `CommandLineProofs` | theorems and proofs, of `Terminal` by itself, too | |
| `MCCommandLine` | lines, symbols and variables for TLC | |
| `LineEditor` | `linenoiseEdit` with every key, completion, `refreshSingleLine`, the history, and the loop of `run` around them; its properties and its inductive invariant | yes |
| `LineEditorProofs`, `EditorProofs` | theorems and proofs: sizes and indices; text, history and screen | |
| `TextLine` | the abstract specification: a text of characters with a cursor, completions, and texts it remembers | refinement |
| `MCLineEditor` | keyboards for TLC | |
| `Keys` | the bytes of keys: `unicodeReadUTF8Char`, escape sequences, `getColumns`, and what is dropped between lines | yes |
| `KeysProofs` | theorems and proofs | |
| `MultiLine`, `VtScreen`, `MCMultiLine` | `refreshMultiLine`, and the terminal it writes to (external) | yes |
| `MultiLineProofs` | theorems and proofs | |
| `SmallVector`, `MCSmallVector` | every operation of `small_vector.hh`, on buffers and pointers | yes |
| `Vectors` | the abstract specification: vectors are sequences of their own | refinement |
| `SmallVectorProofs` | theorems and proofs | |
| `ElfHeaders` | the four structures of `elf/data.hh`, `resolve_order` and `swizzle` | as part of `Sections` |
| `Sections`, `MCSections` | headers, sections and cursors of `dwarf/internal.hh` | yes |
| `SectionsProofs` | theorems and proofs | |

`Debugger` EXTENDS `Tracee` (which EXTENDS `Cpu`) and `DebugInfo`. `CommandLine`
EXTENDS `Terminal` and `Display` (which EXTENDS `Registers`): a line is read from
the terminal, dispatched, and leaves registers and output. It names the functions
whose effects on the process are the actions of `Debugger`; the two share no
state but the line. `Debugger` keeps `step_in` as a command although no line
reaches it (Findings). `LineEditor` starts where `Keys` ends: its actions are the
keys that `Keys` decodes, and `MultiLine` is the refresh of any line it makes.

### How state and actions correspond to the code

| model | code |
| --- | --- |
| `mem[a]` | low byte of the instruction at `a`, the only byte a breakpoint replaces; the operand of an instruction stays attached to its address (`Target`) |
| `cpu.rip`, `cpu.ret`, `cpu.linked` | `rip`, the return addresses on the stack, and whether `rbp` designates the innermost frame |
| `status` | what `waitpid` and `siginfo_t` tell: running, stepping, exited, or the cause of the stop (exec, int3, single step, SIGSEGV, other) |
| `addr_to_bp`, `m_enabled`, `m_data` | keys of the map, and the two fields of the breakpoint at each key |
| `at` | the statement the debugger is at: the prompt, one of its blocking `waitpid`s (first stop, single step of `step_over_breakpoint`, other single step, `continue_execution`), or gone |
| `cmd`, `over`, `temp`, `line` | the stack of the debugger while it blocks: command, the reference `breakpoint` of `step_over_breakpoint`, `bp_to_delete` or `return_address`, and the local `line` of `step_in` |
| `asked`, `depth` | history variables for the properties: breakpoints the user asked for, frames when the command was given |

A command up to its first `waitpid`, and from one `waitpid` to the next, is one
step. That loses nothing: the process is stopped and the debugger has one
thread. `continue_execution`, for instance, is `Continue` (disable and
PTRACE_SINGLESTEP when `rip` is on a breakpoint, otherwise PTRACE_CONT), then
`StepOffReturns` (`handle_bptrap`, enable, PTRACE_CONT), then
`ContinueReturns`; `finish` and `next` share the last two with it and remove
their breakpoints in `ContinueReturns`. An exception is an action of its own
(`HandlerThrows`, `LookupThrows`, `BreakData`) or a disjunct (`Dies`): nothing
catches it, so the debugger ends with everything planted as it is.

In `LineEditor` a key is one action, with the refresh of the screen it ends in.
`buf` and `pos` are `l.buf` and `l.pos` in bytes, `history_index` and `history`
those of linenoise; `screen` is what the last refresh, or the write that replaces
it, left on the terminal. Four kinds of characters stand for all: `a` and the
blank, a wide character `L` of three bytes `L T T` and two columns, and a
combining mark `M` of two bytes `M T` and none. Two ways out have a state of
their own: `stuck`, a loop that does not end, and `undefined`, behaviour C++
does not define (a terminator behind the end of the buffer, the first word of an
empty line); the properties are about the behaviours before that. Escape
sequences stand for the keys they are sent by; Ctrl-l and unknown sequences
change nothing. Left out: failures to write to the terminal, and the NUL
character.

`Terminal` has `orig_termios`, `rawmode` and `atexit_registered` as they are, and
the settings in force; each call to the terminal may fail, a command that resumes
the process may change the settings, and the debugger may return from `main`, or
be killed by an exception or a signal: nothing catches either, and no exit handler
runs then, so that in `cut` (killed while a line was edited) the terminal is raw for
good. `regs` of `CommandLine` is the structure
`PTRACE_GETREGS` fills, by place; `printed` is what the last command printed, and
about what: the cause and the line of a stop, or the entries of a function. In
`Display` addresses are terms (what is added to what, and read from where), so
that a property can tell which address was meant; expressions are evaluated
externally, in the context the code gives them.

In `Keys` a key is its bytes. `coming` are those on the way, `queue` those that
arrived, `got` those read of the present key, and `at` says which read comes
next. A terminal either tells its columns (`sized`) or is asked: its answers take
their place among the keys. `cut` is set when a call separates bytes of one key
(`TCSAFLUSH`, a read of "the rest" that comes too early) or gives up an answer
that has yet to come; the properties are about what happens before.

`MultiLine` keeps what `refreshMultiLine` knows (`oldcolpos`, `maxrows`) and what
it writes; `VtScreen` executes that, with the cursor that waits behind the last
column for the next character. Any text may follow any other, as keys,
completion and history make them.

In `SmallVector` a pointer is a buffer and an offset; blocks are taken from
`Heap`, which may be empty (`new` throws). `Sections` reads a file of bytes of
`ByteBits` bits: its header is converted (`Load`), names a section (`Open`), and
cursors read fixed integers, LEB128 numbers and addresses, are moved without a
check (`Advance`), put on slices of slices (`Slice`) or back (`Rewind`).

A request to a process that is gone fails. The code does not look at the result
and goes on with an uninitialized structure, so the model lets it read anything:
any program counter (`ProgramCounter`), any cause (`WaitReturns` and
`WaitThrows` are both possible for an exit).

Definitions whose comment says *Mutant* are deliberate mistakes: each is
substituted for the definition below it, to see that a property notices.

## Runs

| run | program and user | what it shows |
| --- | --- | --- |
| `core` | recursive `f` (stack of 3 frames), signals, exec failure, exit, stack overflow, under `FairSpec`; `continue`, `break` (address, function, line, and an unmapped address), `finish`, `next`, `backtrace`, `variables`, `quit` | `Transparent`, `NoBreakpointMissed`, `TrapsPlanted`, `TableAsAsked`, `StepsOffTheTrap`, the invariant the proofs use (`IInv`), and `CommandReturns`: every command comes back |
| `stepping` | a position-dependent program with its own `int3`, the load address uninitialized (right by luck, or off by 3); `stepinst`, `step_in`, `next`, memory writes, `register write rip`, signals | `TypeOK`; only the user's writes change what is executed; the table and stepping off do not depend on the load address |
| `frames` | three functions, a loop, no recursion, breakpoints behind prologues | `finish`, `next` and `backtrace` are right where frames are set up |
| `dispatch` | every abbreviation of every documented command, with the documented arguments, with too few, and malformed ones; a terminal or a pipe, settings that fail, writes of registers, functions with all kinds of variables, a program loaded where it was linked or elsewhere | splitting loses nothing; an unambiguous abbreviation calls the function the documentation means; outside a line the settings of the terminal are those the process should find, unless a request failed (`TerminalReturned`, `RawRemembered`); names and ABI numbers designate their registers; the source printed at a breakpoint and after a step has the line, and the sign in front of no other; a value printed is that of its variable, and none is printed for places the debugger does not know |
| `editor` | every key and completion on lines of up to 4 bytes of one-byte characters, wide characters and combining marks, and a history of 3 entries over 4 lines | on bytes, each key does what `TextLine` says of characters; the cursor is never inside a character; screen and line agree; the history keeps the latest lines; and the invariant the proofs use (`EditorInv`) |
| `keys` | three keys of one to four bytes, in pieces, during commands and queries, on a terminal that may be closed | each key does what it is for, once, in order (`KeysDecoded`); no read takes a byte of the next key or waits for one that is not coming; the width is right, and the cursor back in its place, unless keys came between |
| `multiline` | texts of up to four characters of 0, 1 and 2 columns replaced by one another, with the cursor anywhere, on rows of 3 columns | the terminal shows the line, the cursor is on its character, nothing of an older line is left and nothing above is lost (`LineShown`, `CursorShown`) |
| `vector` | two vectors with one element inline, two blocks | pointers stay in bounds (`InBounds`), each block has one owner (`Owned`), and vectors are sequences (`Vectors!Spec`) |
| `sections` | headers of both classes and both orders on both kinds of hosts, with a different number in each field in turn; sections of all contents of three bytes, and a number of six digits | headers and numbers are those written (`HeaderDecoded`, `Decodes`); nothing outside a section or slice is read (`ReadsInside`), and however slices are taken of slices, nothing further behind the section than the slice begins in it (`ReadsNearSection`) |
| `rebreak`, `overwrite`, `transpose` | as small as possible | each finds the disagreement described under Findings |

Bounds. Programs have 12 to 17 instructions in two or three functions: enough for
each kind of instruction, breakpoints on it, on its successor and on the return
address, a loop or a recursion, and code without debug information (the start-up
code `main` returns to). `StackLimit = 3` allows one recursive call of `f` below
`main` and makes the next one fault. `BreakAt` has two or three addresses so
that the user's breakpoints meet the temporary ones in every combination. The
constants `Rebreaks` and `Overwrites` say whether the user does the two things
that break breakpoints; they are FALSE in the passing runs and TRUE in the two
violation runs about them. Every run is exhaustive.

`editor` bounds what would multiply without showing more: `MaxGiven` lines, of
which those given or left for another entry have at most `MaxKept` bytes; while
it is edited a line has up to `MaxLine` = 4, enough for a wide character next to
another one and for the buffer to run full in the middle of a character.
Three columns behind the prompt make lines scroll.

`keys`: three keys are enough for one before, one inside and one behind whatever
happens; `AnswerRoom` = 8 makes three keys fill the buffer of an answer, which
has room for 31 bytes in the code. `multiline`: rows of 3 columns make a wide
character miss the last column, and texts take up to four rows of `Rows` = 7, so
that the line never scrolls off; `MaxTop` = 2 lets lines start below others.
`vector`: one element inline makes growth, copying and moving meet both kinds of
buffers. `sections`: bytes of two bits and words of two bytes make every
overflow and every order visible. `dispatch`: a file of 6 lines is longer than
the window printed, so that both of its ends occur.

CHECK_DEADLOCK is FALSE where the system stops for good: the debugger has ended,
or no file has more to read. `vector` has no such state.

Fairness (`FairSpec`, used by `core`): weak fairness of the process, which the
kernel schedules when it is not stopped, and of the debugger's return from a
`waitpid` with something to report. None for the user and none for signals. That
every command comes back is so because every run of the program in `core` comes
to a stop by itself: a program with an endless loop keeps `continue` waiting.

## Findings

Three runs end in a counterexample to what the repository says of itself; the
quotes are in `PROJECT.json`:
1. `rebreak`: `break` at an address twice saves the trap as the byte to restore
   (`OwnByteRestored`).
2. `overwrite`: `memory write` over a breakpoint is undone when the breakpoint is
   stepped off (`ExecutesWhatWasWritten`). The process stops at a breakpoint, the
   user writes another instruction there and continues; `disable` puts the byte
   from before the write back, and that is what is single-stepped.
3. `transpose`: Ctrl-t next to a character of several bytes never returns
   (`KeysAnswered`): it swaps bytes, and the refresh that follows loops on text it cannot decode.

More disagreements came up while modelling. The models behave as the code does;
the runs are of cases where they make no difference, or the properties say what holds
all the same:
- `stepinst` looks up the line at an absolute address (168): in a
  position-independent program the look-up throws, and the debugger ends
  (`src/README.md:28` says it steps).
- `break file:line` compares the line with addresses (515): no breakpoint is set,
  or one in the wrong place (`src/README.md:21`).
- `step` runs `stepinst`, the longer name, which is looked at first
  (`src/README.md:29`); `AbbreviationsRun` is about names that abbreviate one
  command only.
- `print_source` writes a truth value behind each newline, 1 for the line the
  process is at, where `"> "` is meant: `<<` binds more tightly than `?:` (375). Only
  a line that is the first one printed is marked as it should be; hence
  `SourceShown` says no more of the sign than that no other line has it.
- A debugger that is killed while a line is edited (nothing handles a signal) leaves
  the terminal raw; the comments at `linenoise.hpp:1069` and 2336 speak of restoring
  it at exit. `TerminalReturned` is about the other ways to end.
- `variables` ends the debugger at the first local variable of an ordinary program:
  compilers place those at an offset from the frame base (`DW_OP_fbreg`), for which
  `ptrace_expr_context` has no method, so that the evaluation throws and nothing
  catches it (`src/README.md:34`: "Reads the variables present till the current
  address"). The same holds of constants, of variables of a thread, and of entries
  without a place.
  `VariablesShown` says that no wrong value is printed for these.
- A variable in static memory is read where it was linked, and what a location
  expression reads from memory is read at its address plus the load address (36,
  585): both are wrong in position-independent programs. `VariablesShown` leaves
  these out if the program is relocated.
- `lookup_symbol` has no result for symbols of types the two `switch` statements
  of `symbol.h` do not list (thread-local ones): undefined, as in `SymbolsMapped`.
- `SetHistoryMaxLen` keeps the oldest lines, its comment
  (`linenoise.hpp:2363`) says the latest. The debugger does not call it.
- After a failure to put the settings of the terminal back, the next line takes
  the raw ones for the original ones, although the comments at 1069 and 2336
  mean those to be restored. `RawRemembered` is about the time before.
- A character whose bytes do not arrive together is not put together
  (`unicodeReadUTF8Char`), and the keys typed while the terminal is asked for its
  width are lost, which leaves 80 columns and possibly the cursor at the margin.
  Function keys, which have longer sequences, and a lone Escape are not among
  the keys of `Keys` (`KeysAssumption`): the code reads the first only in part.
- A completion longer than the buffer is cut, its length is not (1819), and
  insertion looks for room for one byte (1968): `LineEditor` ends such a
  behaviour as undefined.
- `section::slice` bounds a length by the size of the section and not by what is left
  from the start of the slice (`internal.hh:78`). A slice that does not begin where
  its section does may end behind it, and the cursor, which "provides [...] bounds
  checking" (`internal.hh:88`), reads there: in the run `sections` it does.
  `ReadsNearSection` says how far. Starts and lengths are asked for by sources of
  libelfin that are not in the repository.
- A LEB128 number of more bytes than fit a word is shifted too far, which is
  undefined (`internal.hh:155`), whether or not it ends inside the section.
- `refreshSingleLine` loops for ever on a terminal no wider than the prompt
  (1851), hence `Prompt < Columns`.
- `small_vector::push_back` of an element of the same vector reads it after it
  was moved, and `Elf64` symbols have a `set_binding` that is `const` and would
  not compile if it were used.

Two more behaviours are known and kept out of the run `frames` by its program
and its breakpoints: `finish` in a recursive function stops in an inner call
that returns to the same address first, and `backtrace` before the prologue has
set up `rbp` leaves the caller out. (On a recursive program
`FinishLeavesTheFrame` is violated, and with a breakpoint on a function's first
instruction `BacktraceComplete` is.)

## Proofs

`DebuggerProofs` is checked by TLAPS, from the assumptions named in the modules
(addresses are integers, the program and the debug information are well formed)
and nothing about the size of anything.

- `Invariance`: `Spec => []IInv`. `TableAsAsked` speaks of the prompt only and is
  not inductive: whether the table is right when a command ends depends on what
  it was while the command waited. `IInv` adds that: in each `waitpid` the table
  is `asked` and `temp`, disjoint, all of it enabled but for the breakpoint
  being stepped off (`TableInv`); which states of the process go with which
  `waitpid`, and that a trap not yet handled has `rip` just behind an
  instruction (`ControlInv`).
- `TypeCorrect`, `TableCorrect`: from `IInv`, with no assumption on the user.
  (`TableInv` also shows that the branch of
  `single_step_instruction_with_bp_check` for a breakpoint that is not enabled
  is never taken: at the prompt all are.)
- `TrapsCorrect`, `NothingMissed`: if the user writes no memory over a breakpoint.
- `Transparency`: `Spec => Program!Spec`, the refinement, if moreover the user
  sets no breakpoint twice. The argument: every step of the debugger and every
  stop is `Invisible`, it leaves the text behind the traps (`SeenIn`) and the
  registers as the program sees them (`CpuSeen`) alone; an instruction is
  fetched from a place that is not a trap, hence from the program's text.
- `StepsOff`: `Spec => []StepsOffTheTrap`, if moreover neither the program nor
  what the user writes has an `int3` (`NoOwnTraps`; a breakpoint set on one would
  be stepped off into it). `Transparency` gives that the text never has one
  (`PlainText`); `SteppingOff` adds that until the step is done the process is at
  the breakpoint, which is out of the table of the enabled ones, so that it
  fetches that text.

- `FinishLeaves`, `NextStaysInFrame`: `FinishLeavesTheFrame` and
  `NextStepsOverCalls`, for a user who writes neither memory nor `rip`. A program
  owes them only if it is `Layered`: each address has a depth of calls `D` it runs
  at, so that no function calls itself through others (in one that does, an inner
  call meets the breakpoint first). And the user must give `finish` and `next` in
  bodies of functions (`Bodies`, `GivenIn`), where `rbp` is the frame of the
  function. That the program never leaves its layers is a fact about `Undebugged`
  (`CallsDeeper`, `ReturnsShallower`), and `Transparency` carries it to the
  debugged process (`DepthInv`); `TempInv` adds that the breakpoints such a
  command has planted are at the depths where it is to stop.
- `BacktraceIsComplete`: `BacktraceComplete`, for the same user and any program,
  recursive or not, if the prompt only comes up in bodies: that `rbp` is set up
  there is an invariant of the process again (`BodyInv`).

The two assumptions of `Transparency` are the ones runs `rebreak` and
`overwrite` show to be needed. Those about frames hold in `frames`: TLC evaluates
`Layered` and `Bodies` for its program (`FramesAssumption`), and that its user
stays in `MCBodies` was checked there too.

`CommandLineProofs`, for any lines, any source file and any variables:

- `UsesTerminal`: `Spec => TerminalSpec`, so that `LoopReturnsTerminal` follows
  from the theorems about `Terminal`.
- `SettingsReturned`, `RawIsRemembered`: `TerminalReturned` and `RawRemembered`, of a
  debugger that may be killed anywhere. The invariant (`TInv`) knows of each place
  whether the settings in force, or those `disableRawMode` would put back, are the
  ones the process should find.
- `RegistersAreNamed`: `RegisterWrites`, where a write may also fail. The rows of the table are the members of
  the structure (`RowsAreMembers`), which all have different names
  (`MembersDiffer`), and only a line whose third word is one of them comes to a
  write (`WriteNames`, through every branch of `runCommand`).
- `SourceIsShown`: `SourceShown`, from arithmetic on the window (`PrintsLine`) and
  the invariant that a command that resumed the process has printed what its stop
  comes to: the source at a breakpoint and after a step, a message or nothing
  otherwise.
- `VariablesAreShown`: `VariablesShown`, for any functions and without an assumption
  on their entries: the property speaks of each entry whose place is of a kind that
  `Compiled` lists, whatever the others are. An expression of one or two operations
  comes to what its steps come to (`OneRuns`, `TwoRun`); the number the ABI gives a register finds the row of the member that
  is meant (`MemberMeant`, from `NumbersDiffer` and `NumbersOfAbi`); and no write
  comes between reading the variables and the prompt (`VariablesInv`).

`LineEditorProofs` and `EditorProofs` are for any keys, sizes and width, from
these assumptions: sizes are positive, the prompt leaves room for a character,
and a completion offered is well-formed UTF-8. They cover completion, too.

- `LineInvariance`: `Spec => []LineInv`. Every entry of the history fits the
  buffer it is copied to, the cursor is in the line, the history is within its
  limit, and the index, which a key moves before it is bounded, names an entry.
  Beyond what is wanted of a line being edited, `LineInv` says what holds between
  two lines (the entries fit, the index is 0); and it says nothing of a line
  too long for the buffer, which is where `Insert` ends the behaviour as
  undefined. The lemmas bound how far a grapheme or a word reaches.
- `RecallIsSafe`: `RecallFits`, from that.
- `EditorInvariance`: `Spec => []EditorInv`, which is `LineInv` with three more
  parts. `TextInv`: the bytes on either side of the cursor are UTF-8, in the line
  and hence in every entry of the history; no key tells where a character ends but
  by the bytes around it, so that both sides are needed. `HistoryInv`: but for the
  entry of the line being edited, the history is the latest of the lines given,
  none of which is empty; the property only speaks of the time between two lines.
  `ScreenInv`: the screen is at any time what `refreshSingleLine` makes of line
  and cursor, also after the short cut for a character typed at the end; the
  lemmas say that widths add up and that a line that fits is shown whole.
- `CursorIsBetweenCharacters`, `CursorIsOnScreen`, `HistoryIsLatest`: from that.
- `EditorEditsText`: `Spec => EditsText`, the refinement of `TextLine`. The mapping
  names a character by its first byte. The n-th character of a line is at the only
  first byte up to which there are n of them (`OrdinalHas`, `OrdinalOnce`), so that
  joined lines decode to joined texts (`DecodedJoined`). There is one lemma for
  each key (`...Refines`); that of `Ctrl-t` covers the bytes it should not swap,
  too, which decode to the same text or to one with two characters swapped.

`KeysProofs`, for any number of keys and any way their bytes arrive, from the
assumption that an answer fits the room for one:

- `KeysInvariance`: `Spec => []IInv`. A byte of the model knows its key and its
  place in it (`nth`), which the code cannot see; the invariant says that as long
  as no key was cut, the bytes read of the present key, those queued and those to
  come form whole keys in order (`StreamInv`), that what the next read is meant
  for agrees with the bytes read (`ReadInv`, `AnswerInv`), that what was done is
  what was typed before (`DoneInv`), and how the columns and the cursor came about
  (`SizeInv`).
- `KeysAreDecoded`, `WaitsOnlyForItsBytes`, `WidthIsAsked`: from that.

`SmallVectorProofs`, for any objects, blocks, elements and inline size:

- `Invariance`: `Spec => []IInv`. To bounds and ownership it adds what holds of
  objects that do not exist: their storage has its size, and they are as their
  constructor will find them (`Dormant`). `BoundsKept` and `OwnersUnique` follow.
- `ImplementsSequences`: `Spec => Vectors!Spec`. `Sound` says what any operation
  may leave of a vector and the memory: no other vector's buffer has changed, and
  a new block was free; each step then maps to a step of `Vectors` or to none
  (`reserve`).

`SectionsProofs`, for any files, sizes and bounds: `CursorInvariance`, hence
`ReadsAreBounded` and `ReadsAreNearSection`, with no condition on what slices are
asked for. The invariant does not bound the cursor,
which may stand anywhere behind its section: what matters is that `ensure` looks
at both sides.
`HeadersAreDecoded`: `HeaderDecoded`, for every class, byte order and host. A field
lies behind the ones declared before it (`OffsetBehind`), so that what is written
there is read back (`FieldReadBack`); both classes declare the same fields, in
different orders (`SameFields`); and two conversions of the byte order cancel out
(`SwappedBack`). It is assumed that each field of a file is as wide as its type.

`MultiLineProofs`, for any texts the screen has room for, with the cursor anywhere a
key may leave it: `LineIsKnown`, `Spec => []MInv`, hence `LineIsShown` and
`CursorIsShown`.
- `MInv` says what the screen is, as a whole: the cells are those of a blank
  terminal that is given the prompt and the line, the cursor is in the row and
  column that the columns counted say, nothing is pending; and of the variables
  of linenoise: the rows the line has had begin where the prompt is and take in
  the row of the cursor. Without that last part a refresh would clear too little.
- `PutAgrees` and `TextAgrees` relate the terminal, which wraps, to
  `unicodeColumnPosForMultiLine`, which counts: after every character the columns
  counted are those of full rows and of the present one, a row that is just full
  having none. `CursorIs` adds the wide character that wraps at the cursor.
  `NotBeyond` places the cursor in the rows counted, `ClearingRuns` says which rows
  are cleared, and `ClearsLine` that these are the ones the line has had.
- The folds are not unrolled but related by induction on their length
  (`FoldTrace`, `FoldJoined`, from the definition of `FoldLeft`, with a set of
  numbers instead of a predicate, `UpTo`).
- `Columns > 2` and `Prompt > 0` are hypotheses, and needed. On two columns a wide
  character fills a row, the count starts the next row with two columns where the
  terminal has none, and TLC finds both properties violated. Without a prompt a
  lone combining mark counts as a full row. The prompt of `Readline` in
  `debugger::run` has seven columns.

Only model-checked:
- `CommandReturns`, which is liveness.
- `SplitRejoins`, `AbbreviationsRun`: about the characters of strings, of which
  the provers know nothing.
- `Decodes`: about powers, of which they know nothing either.

## Not modelled

One compilation unit with unique names is assumed. The user writes `rip` and no
other register in `Debugger`, and writes no stack. `memory read` and `register
dump` print what `Tracee` and `Registers` look up and are left out. What becomes
of the process after the debugger has ended is not modelled. Each breakpoint is
at the start of an instruction.

Of linenoise the emulation of a terminal for Windows (a third of the file, not
compiled where `ptrace` exists) and the two functions that save and load history
files, which nothing calls, are left out. The debugger itself enables neither
multi-line mode nor completion; they are modelled because the library offers
them. `VtScreen` has room for all lines: scrolling is not modelled. Failures to
write to the terminal are left out.

Of libelfin the repository has the headers only. What they declare without
code (the parsing of entries, line tables and range lists, the evaluation of
expressions, the constants of `dwarf/data.hh`) has no behaviour to translate;
where the debugger relies on it, it is external.

`examples/` has programs to debug.

## Plan

The order was: the debugger and its abstract specification; the command line;
the line editor; then the terminal, the library and what commands print. What
would come next:
1. Several compilation units, and functions of the same name, in `DebugInfo`.
2. The history files, and a screen that scrolls.
