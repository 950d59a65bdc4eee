------------------------------ MODULE Terminal ------------------------------
(***************************************************************************)
(* The terminal that the debugger shares with the process it debugs, and   *)
(* what linenoise.hpp does to it around each line: raw mode while a line   *)
(* is edited, the settings it found otherwise.  A call to the terminal may *)
(* fail, the process may change the settings while a command runs, and the *)
(* debugger may return, throw, or be killed anywhere.                      *)
(***************************************************************************)
EXTENDS Naturals

VARIABLES
  input,             \* standard input: "pipe", or a terminal that is "capable"
                     \* or one of unsupported_term ("dumb")
  mode,              \* settings of the terminal
  orig_termios,      \* settings enableRawMode found
  rawmode,
  atexit_registered,
  at,                \* where the debugger is
  due,               \* history variable: settings the process should find
  failed             \* history variable: the settings could not be put back once

terminalVars == <<input, mode, orig_termios, rawmode, atexit_registered, at, due, failed>>

\* The settings at the start, those the process chose, those of raw mode, and
\* what is in orig_termios before enableRawMode.
Mode == {"initial", "chosen", "raw", "unset"}

\* "prompt": before Readline.  "editing": in linenoiseEdit.  "command": in
\* runCommand.  "returning": main returns.  "gone": after the exit handlers.
\* "killed": without them; "cut": without them, and while a line was edited.
Place == {"prompt", "editing", "command", "returning", "gone", "killed", "cut"}

TerminalInit ==
  /\ input \in {"pipe", "dumb", "capable"}
  /\ mode = "initial" /\ orig_termios = "unset"
  /\ rawmode = FALSE /\ atexit_registered = FALSE
  /\ at = "prompt"
  /\ due = "initial" /\ failed = FALSE

\* isatty and isUnsupportedTerm
Edits == input = "capable"

\* std::getline
ReadPlain ==
  /\ at = "prompt" /\ ~Edits
  /\ at' = "command"
  /\ UNCHANGED <<input, mode, orig_termios, rawmode, atexit_registered, due, failed>>

\* (Mutant.  The settings are saved after they were changed.)
EnableSavingLate ==
  /\ at = "prompt" /\ Edits
  /\ atexit_registered' = TRUE
  /\ mode' = "raw"
  /\ orig_termios' = mode'
  /\ rawmode' = TRUE
  /\ at' = "editing"
  /\ UNCHANGED <<input, due, failed>>

\* enableRawMode succeeds.
Enable ==
  /\ at = "prompt" /\ Edits
  /\ atexit_registered' = TRUE
  /\ orig_termios' = mode
  /\ mode' = "raw"
  /\ rawmode' = TRUE
  /\ at' = "editing"
  /\ UNCHANGED <<input, due, failed>>

\* tcgetattr or tcsetattr fails: linenoiseRaw returns without a line, and the
\* loop of run goes on.
EnableFails ==
  /\ at = "prompt" /\ Edits
  /\ atexit_registered' = TRUE
  /\ orig_termios' \in {orig_termios, mode}
  /\ at' = "command"
  /\ UNCHANGED <<input, mode, rawmode, due, failed>>

\* (Mutant.  rawmode is reset although the settings could not be put back.)
RestoredBlindly(ok) ==
  /\ mode' = IF rawmode /\ ok THEN orig_termios ELSE mode
  /\ rawmode' = FALSE

\* disableRawMode, whose tcsetattr succeeds or not
Restored(ok) ==
  IF rawmode /\ ok THEN mode' = orig_termios /\ rawmode' = FALSE
  ELSE UNCHANGED <<mode, rawmode>>

\* linenoiseEdit returns with a line, or with none: then run ends.
EditEnds(next) ==
  /\ at = "editing"
  /\ \E ok \in BOOLEAN : Restored(ok) /\ failed' = (failed \/ ~ok)
  /\ at' = next
  /\ UNCHANGED <<input, orig_termios, atexit_registered, due>>

\* A command returns.  If the process ran, it may have changed the settings.
CommandEnds(ran) ==
  /\ at = "command"
  /\ \/ UNCHANGED <<mode, due>>
     \/ ran /\ input # "pipe" /\ mode' = "chosen" /\ due' = "chosen"
  /\ at' = "prompt"
  /\ UNCHANGED <<input, orig_termios, rawmode, atexit_registered, failed>>

\* main returns: linenoiseAtExit runs if it was registered.
Return ==
  /\ at = "returning"
  /\ IF atexit_registered THEN \E ok \in BOOLEAN : Restored(ok) ELSE UNCHANGED <<mode, rawmode>>
  /\ at' = "gone"
  /\ UNCHANGED <<input, orig_termios, atexit_registered, due, failed>>

\* An exception nothing catches, or a signal (SIGINT, SIGTERM, SIGHUP, SIGSEGV)
\* anywhere: there are no handlers for signals, and those for the exit do not run.
Killed ==
  /\ at \in {"prompt", "editing", "command", "returning"}
  /\ at' = IF at = "editing" THEN "cut" ELSE "killed"
  /\ UNCHANGED <<input, mode, orig_termios, rawmode, atexit_registered, due, failed>>

TerminalNext ==
  \/ ReadPlain \/ Enable \/ EnableFails
  \/ \E next \in {"command", "returning"} : EditEnds(next)
  \/ \E ran \in BOOLEAN : CommandEnds(ran)
  \/ Return \/ Killed

TerminalSpec == TerminalInit /\ [][TerminalNext]_terminalVars

-----------------------------------------------------------------------------
(***************************************************************************)
(* Outside a line the process, and whoever comes after a debugger that has *)
(* returned, thrown or been killed there, finds the settings as they were  *)
(* before, or as the process left them, however lines and commands follow  *)
(* each other, unless putting them back failed.  (Killed while a line is   *)
(* edited the debugger leaves the terminal raw.)                           *)
(***************************************************************************)
TerminalReturned == at \notin {"editing", "cut"} /\ ~failed => mode = due

(***************************************************************************)
(* As long as the terminal is raw the debugger knows it, and has an exit   *)
(* handler that will try to put the settings back if it lives to return.   *)
(* (A line edited after a failure to do so finds raw settings and takes    *)
(* them for the original.)                                                 *)
(***************************************************************************)
RawRemembered ==
  mode = "raw" /\ orig_termios # "raw" /\ at # "gone" => rawmode /\ atexit_registered
=============================================================================
