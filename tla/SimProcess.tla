----------------------------- MODULE SimProcess -----------------------------
(***************************************************************************)
(* main() of tb_verilator.cpp as a process: arguments, the terminal and its*)
(* signal handlers, the memory images, the construction of the reference   *)
(* (WhisperRef::WhisperRef), the simulation loop and the ways out.  What   *)
(* the loop compares is module Lockstep; here a half cycle has an outcome. *)
(*                                                                         *)
(* at is the step main is at.  A signal may come between any two steps.    *)
(* The operating system and Whisper are external: their calls may fail, and*)
(* a call to Whisper may also succeed without effect.                      *)
(***************************************************************************)
EXTENDS Integers, Sequences, FiniteSets

CONSTANTS
  Width,          \* of the cycle counters, in bits
  Runs,           \* how the process may be built and called
  MaxIgnored,     \* bound on the calls Whisper accepts without effect
  MaxHalfCycles,  \* bound on the loop of a run without a cycle limit
  None

\* What a run finds: a terminal, and a cycle count (std::stoull).
Terminals == [mode : {"cooked", "raw"}, vmin0 : BOOLEAN, nonblock : BOOLEAN]

ASSUME SimAssumption ==
  /\ Width \in Nat \ {0} /\ MaxHalfCycles \in Nat
  /\ \A r \in Runs : r.tty \in Terminals /\ r.cycles \in 0 .. 2^Width - 1

Signals == {"SIGINT", "SIGTERM", "SIGQUIT"}

VARIABLES
  at, run,          \* step of main; how the process was built and called
  tty,              \* the terminal: mode, VMIN = 0, O_NONBLOCK
  old_setting, termios_changed, handlers, at_exit,
  env, loaded,      \* ROM_FILE_PATH and RAM_FILE_PATH; what the memories read
  hart,             \* Whisper
  ignored,          \* history: calls Whisper accepted without effect
  cycles, half_cycle, clk, edges,
  loop,             \* finish, started, failed and test_success
  exit              \* how the process ended and its code, or None

ttyVars == <<tty, old_setting, termios_changed, handlers, at_exit>>
envVars == <<env, loaded>>
refVars == <<hart, ignored>>
loopVars == <<cycles, half_cycle, clk, edges, loop>>
vars == <<at, run, ttyVars, envVars, refVars, loopVars, exit>>

Running == exit = None
Has(flag) == flag \in run.build

(***************************************************************************)
(* The order of the steps.                                                 *)
(***************************************************************************)
\* set_nonblocking (or, with the exit handler registered last).
AtExitLast ==
  <<"isatty", "tcgetattr", "tcsetattr", "changed", "SIGINT", "SIGTERM", "SIGQUIT",
    "F_GETFL", "F_SETFL", "atexit">>
set_nonblocking ==
  <<"isatty", "tcgetattr", "tcsetattr", "changed", "SIGINT", "SIGTERM", "SIGQUIT",
    "atexit", "F_GETFL", "F_SETFL">>

\* The constructor (or, with the PMP registers configured after the reset
\* that rebuilds the state derived from them).
PmpAfterReset ==
  <<"isa", "misa", "mimpid", "mperf", "uperf", "reset", "pmp", "check_misa", "elf", "binaries",
    "pc", "a0", "a1", "read_back">>
WhisperRefSteps ==
  <<"isa", "misa", "mimpid", "pmp", "mperf", "uperf", "reset", "check_misa", "elf", "binaries",
    "pc", "a0", "a1", "read_back">>

main ==
  <<"args">> \o set_nonblocking \o <<"paths", "cycles", "setenv", "reset_dut", "restore_env",
    "required_environment">> \o WhisperRefSteps \o <<"loop">>

IsIn(step, part) == \E i \in 1 .. Len(part) : part[i] = step

\* The steps a build leaves out are passed over.
Goto(step) ==
  at' = CASE step = "isatty" /\ ~Has("input") -> "paths"
          [] step = "required_environment" /\ ~Has("lockstep") -> "loop"
          [] OTHER -> step
Advance == \E n \in 1 .. Len(main) - 1 : main[n] = at /\ Goto(main[n + 1])

\* Ways out.  A return of main runs the exit handler, _Exit does not.
restore_termios_setting ==
  tty' = IF termios_changed THEN [tty EXCEPT !.mode = old_setting.mode, !.vmin0 = old_setting.vmin0]
         ELSE tty
Ends(how, code) == exit' = [how |-> how, code |-> code]
Return(code) ==
  /\ Ends("return", code)
  /\ IF at_exit THEN restore_termios_setting ELSE UNCHANGED tty
  /\ UNCHANGED <<at, old_setting, termios_changed, handlers, at_exit>>

-----------------------------------------------------------------------------
(***************************************************************************)
(* Arguments and terminal.                                                 *)
(***************************************************************************)
Args ==
  /\ Running /\ at = "args"
  /\ IF run.files < 2 THEN Return(1) ELSE Advance /\ UNCHANGED <<ttyVars, exit>>
  /\ UNCHANGED <<run, envVars, refVars, loopVars>>

\* What the terminal is set to: no lines, no echo, and reads that do not wait
\* for a character (or, that do).
KeepsVmin(t) == [t EXCEPT !.mode = "raw"]
new_setting(t) == [t EXCEPT !.mode = "raw", !.vmin0 = TRUE]

\* A step of set_nonblocking; a failure leaves the function.
NonblockingFails == at' = "paths" /\ UNCHANGED ttyVars
SetNonblocking ==
  /\ Running /\ IsIn(at, set_nonblocking)
  /\ \/ at \in {"tcgetattr", "tcsetattr", "F_GETFL", "F_SETFL"} /\ NonblockingFails
     \/ at = "isatty" /\ run.stdin # "tty" /\ NonblockingFails
     \/ /\ at = "isatty" => run.stdin = "tty"
        /\ Advance
        /\ old_setting' = IF at = "tcgetattr" THEN tty ELSE old_setting
        /\ tty' = CASE at = "tcsetattr" -> new_setting(tty)
                    [] at = "F_SETFL"   -> [tty EXCEPT !.nonblock = TRUE]
                    [] OTHER            -> tty
        /\ termios_changed' = (termios_changed \/ at = "changed")
        /\ handlers' = handlers \cup ({at} \cap Signals)
        /\ at_exit' = (at_exit \/ at = "atexit")
  /\ UNCHANGED <<run, envVars, refVars, loopVars, exit>>

\* fs::absolute may throw.
Paths ==
  /\ Running /\ at = "paths"
  /\ \/ Return(1)
     \/ Advance /\ UNCHANGED <<ttyVars, exit>>
  /\ UNCHANGED <<run, envVars, refVars, loopVars>>

\* std::stoull; no argument is 0, which stands for no limit.
Cycles ==
  /\ Running /\ at = "cycles"
  /\ IF run.bad_number THEN Return(1) /\ UNCHANGED cycles
     ELSE Advance /\ cycles' = run.cycles /\ UNCHANGED <<ttyVars, exit>>
  /\ UNCHANGED <<run, envVars, refVars, half_cycle, clk, edges, loop>>

\* The memories read the files the environment names in the first eval().
Environment ==
  /\ Running /\ at \in {"setenv", "reset_dut", "restore_env"}
  /\ Advance
  /\ env' = CASE at = "setenv"      -> [rom |-> "arg", ram |-> "arg"]
              [] at = "restore_env" -> run.env
              [] OTHER              -> env
  /\ loaded' = IF at = "reset_dut" THEN env ELSE loaded
  /\ UNCHANGED <<run, ttyVars, refVars, loopVars, exit>>

-----------------------------------------------------------------------------
(***************************************************************************)
(* create_whisper_reference.  config holds the settings made, live those in*)
(* effect since the reset, regs the registers poked since, images the files*)
(* in memory.  configIsa derives MISA from the ISA string.                 *)
(***************************************************************************)
NewHart == [config |-> {}, live |-> {}, regs |-> {}, images |-> {}]
Settings == {"isa", "misa", "mimpid", "pmp", "mperf", "uperf"}
Registers == {"pc", "a0", "a1"}
Images == {"elf", "binaries"}

Takes(h, call) ==
  CASE call = "isa"       -> [h EXCEPT !.config = (@ \ {"misa"}) \cup {"isa"}]
    [] call \in Settings \ {"isa"} -> [h EXCEPT !.config = @ \cup {call}]
    [] call = "reset"     -> [h EXCEPT !.live = h.config, !.regs = {}]
    [] call \in Images    -> [h EXCEPT !.images = @ \cup {call}]
    [] call \in Registers -> [h EXCEPT !.regs = @ \cup {call}]

required_environment ==
  /\ Running /\ at = "required_environment"
  /\ IF run.opensbi THEN Advance /\ UNCHANGED <<ttyVars, exit>> ELSE Return(1)
  /\ UNCHANGED <<run, envVars, refVars, loopVars>>

\* What Whisper made of the calls is checked for MISA and the registers.
ReadBack ==
  /\ at = "check_misa" => "misa" \in hart.live
  /\ at = "read_back" => hart.regs = Registers

\* peekCsr may fail; the PC and the registers can always be read.
WhisperRefCheck ==
  /\ Running /\ at \in {"check_misa", "read_back"}
  /\ \/ ReadBack /\ Advance /\ UNCHANGED <<ttyVars, exit>>
     \/ (at = "check_misa" \/ ~ReadBack) /\ Return(1)
  /\ UNCHANGED <<run, envVars, refVars, loopVars>>

\* There may be no hart 0 to configure.  Calls may return false, which reset and
\* pokePc cannot, and MaxIgnored of them may have no effect; without images
\* there is nothing to load.
WhisperRefStep ==
  /\ Running /\ IsIn(at, WhisperRefSteps) /\ at \notin {"check_misa", "read_back"}
  /\ \/ /\ at \notin {"reset", "pc"} /\ (at = "binaries" => run.images)
        /\ Return(1) /\ UNCHANGED refVars
     \/ /\ at = "binaries" => run.images
        /\ hart' = Takes(hart, at)
        /\ Advance /\ UNCHANGED <<ttyVars, exit, ignored>>
     \/ /\ at = "binaries" /\ ~run.images
        /\ Advance /\ UNCHANGED <<ttyVars, exit, refVars>>
     \/ /\ at # "reset" /\ Cardinality(ignored) < MaxIgnored
        /\ ignored' = ignored \cup {at}
        /\ Advance /\ UNCHANGED <<ttyVars, exit, hart>>
  /\ UNCHANGED <<run, envVars, loopVars>>

-----------------------------------------------------------------------------
(***************************************************************************)
(* The loop.  cycles is unsigned, half_cycle and the comparison signed.    *)
(***************************************************************************)
signed(c) == IF c >= 2^(Width - 1) THEN c - 2^Width ELSE c

\* The limit is in cycles, the counter in half cycles (or taken for cycles).
CountsHalfCycles == cycles = 0 \/ half_cycle < signed(cycles)
WithinLimit == cycles = 0 \/ half_cycle \div 2 < signed(cycles)
LoopGoesOn == ~loop.finish /\ ~loop.failed /\ WithinLimit

\* get_input_dpic reads standard input: nothing to read, it waits unless the
\* terminal or the descriptor says otherwise.
get_input_blocks ==
  Has("input") /\ run.stdin # "eof" /\ ~run.typing /\ ~tty.vmin0 /\ ~tty.nonblock

\* A half cycle; an exception of WhisperRef::step is not caught.
HalfCycle ==
  /\ Running /\ at = "loop" /\ LoopGoesOn
  /\ cycles = 0 => half_cycle < MaxHalfCycles
  /\ clk \/ ~get_input_blocks
  /\ half_cycle' = half_cycle + 1
  /\ clk' = ~clk
  /\ edges' = IF clk THEN edges ELSE edges + 1
  /\ \E finish, started, failed, success \in BOOLEAN :
       /\ clk => ~started /\ ~failed /\ ~finish
       /\ started \/ failed => Has("lockstep")
       /\ failed => started \/ loop.started
       /\ success => finish
       /\ loop' = [finish |-> finish, started |-> loop.started \/ started, failed |-> failed,
                   success |-> success]
  /\ \/ UNCHANGED exit
     \/ ~clk /\ loop'.started /\ Ends("aborted", None)
  /\ UNCHANGED <<at, run, ttyVars, envVars, refVars, cycles>>

ExitCode ==
  IF loop.failed THEN 2
  ELSE IF Has("lockstep") /\ ~loop.started THEN 3
  ELSE IF Has("test") /\ ~loop.success THEN 1
  ELSE 0

LoopEnds ==
  /\ Running /\ at = "loop" /\ ~LoopGoesOn
  /\ Return(ExitCode)
  /\ UNCHANGED <<run, envVars, refVars, loopVars>>

\* A signal: the handler restores the terminal and ends the process with the
\* signal's number; without a handler the process is killed.
sighandler(s) == Ends("signal", s) /\ restore_termios_setting

Signal(s) ==
  /\ Running
  /\ IF s \in handlers THEN sighandler(s) ELSE Ends("killed", s) /\ UNCHANGED tty
  /\ UNCHANGED <<at, run, old_setting, termios_changed, handlers, at_exit, envVars, refVars,
                 loopVars>>

-----------------------------------------------------------------------------
Init ==
  /\ run \in Runs
  /\ at = "args"
  /\ tty = run.tty
  /\ old_setting = None /\ termios_changed = FALSE /\ handlers = {} /\ at_exit = FALSE
  /\ env = run.env /\ loaded = None
  /\ hart = NewHart /\ ignored = {}
  /\ cycles = 0 /\ half_cycle = 0 /\ clk = FALSE /\ edges = 0
  /\ loop = [finish |-> FALSE, started |-> FALSE, failed |-> FALSE, success |-> FALSE]
  /\ exit = None

Step ==
  \/ Args \/ SetNonblocking \/ Paths \/ Cycles \/ Environment
  \/ required_environment \/ WhisperRefStep \/ WhisperRefCheck \/ HalfCycle \/ LoopEnds

Next == Step \/ \E s \in Signals : Signal(s)

Spec == Init /\ [][Next]_vars

\* The process runs; no signal has to come.
FairSpec == Spec /\ WF_vars(Step)

-----------------------------------------------------------------------------
(***************************************************************************)
(* Properties.                                                             *)
(***************************************************************************)

\* However main returns, and whichever handled signal comes at whichever
\* point, the terminal is left in the mode it was found in (an earlier run
\* may have left it raw); a signal that comes before its handler is installed
\* and an uncaught exception do leave it raw.
TerminalRestored ==
  ~Running /\ exit.how \in {"return", "signal"} =>
    tty.mode = run.tty.mode /\ tty.vmin0 = run.tty.vmin0

\* When the loop starts, the memories have been read from the files of the
\* command line and the environment is as it was found; the reference starts
\* at its entry with the boot registers and the core's MISA, whatever Whisper
\* made of the calls, and with every setting it has not silently ignored.
LoopReady ==
  at = "loop" =>
    /\ loaded = [rom |-> "arg", ram |-> "arg"] /\ env = run.env
    /\ Has("lockstep") =>
         /\ run.opensbi /\ hart.regs = Registers /\ "misa" \in hart.live
         /\ Settings \ ignored \subseteq hart.live
         /\ (IF run.images THEN Images ELSE {"elf"}) \ ignored \subseteq hart.images

\* A run that ends by its limit has clocked the core for as many cycles as
\* the command line asks, or for none if that number is negative as a long
\* long.
EndsByLimit == exit.how = "return" /\ ~loop.finish /\ ~loop.failed
EndsOnTime == EndsByLimit => edges = IF cycles < 2^(Width - 1) THEN cycles ELSE 0

\* A run with a limit ends, on time, although there is nothing to read: from a
\* terminal once it is set up (even if O_NONBLOCK could not be set), and at end
\* of file.  A silent pipe does stop the simulation.
LimitedRunEnds ==
  (at = "loop" /\ cycles # 0 /\ (Has("input") => termios_changed \/ run.stdin = "eof"))
    ~> (~Running /\ EndsOnTime)
=============================================================================
