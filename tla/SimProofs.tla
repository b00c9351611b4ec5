------------------------------ MODULE SimProofs -----------------------------
(***************************************************************************)
(* Proofs about the simulation process: the terminal is restored, the loop *)
(* starts from a complete set-up, and it ends on time.                     *)
(***************************************************************************)
EXTENDS SimProcess, TLAPS

(***************************************************************************)
(* The terminal.  Between tcsetattr and the record that it succeeded no    *)
(* handler is installed; from there to atexit no step returns.             *)
(***************************************************************************)
AsFound(t) == t.mode = run.tty.mode /\ t.vmin0 = run.tty.vmin0

TtyType ==
  /\ run \in Runs
  /\ tty \in Terminals
  /\ termios_changed \in BOOLEAN /\ at_exit \in BOOLEAN

TtyInv ==
  /\ at \in {"args", "isatty", "tcgetattr", "tcsetattr", "changed"} =>
       ~termios_changed /\ handlers = {} /\ ~at_exit
  /\ at \in {"tcsetattr", "changed"} \/ termios_changed => AsFound(old_setting)
  /\ at # "changed" /\ ~termios_changed => AsFound(tty)
  /\ termios_changed /\ at \notin {"SIGINT", "SIGTERM", "SIGQUIT", "atexit"} => at_exit
  /\ TerminalRestored

(***************************************************************************)
(* The set-up: what has been done when main is at a step.                  *)
(***************************************************************************)
HartType ==
  hart \in [config : SUBSET Settings, live : SUBSET Settings, regs : SUBSET Registers,
            images : SUBSET Images]

Construction == {"isa", "misa", "mimpid", "pmp", "mperf", "uperf", "reset", "check_misa",
                 "elf", "binaries", "pc", "a0", "a1", "read_back"}
Prepared == {"required_environment", "loop"} \cup Construction

EnvInv ==
  /\ at = "reset_dut" => env = [rom |-> "arg", ram |-> "arg"]
  /\ at \in {"restore_env"} \cup Prepared => loaded = [rom |-> "arg", ram |-> "arg"]
  /\ at \in Prepared => env = run.env

\* A setting made before the reset, where it is made.
Made(setting) == setting \in hart.config \cup ignored
ConfigInv ==
  /\ at \in {"misa", "mimpid", "pmp", "mperf", "uperf", "reset"} => Made("isa")
  /\ at \in {"mimpid", "pmp", "mperf", "uperf", "reset"} => Made("misa")
  /\ at \in {"pmp", "mperf", "uperf", "reset"} => Made("mimpid")
  /\ at \in {"mperf", "uperf", "reset"} => Made("pmp")
  /\ at \in {"uperf", "reset"} => Made("mperf")
  /\ at = "reset" => Made("uperf")

HartInv ==
  /\ at \in Construction => run.opensbi
  /\ at \in {"check_misa", "elf", "binaries", "pc", "a0", "a1", "read_back"} =>
       Settings \ ignored \subseteq hart.live
  /\ at \in {"elf", "binaries", "pc", "a0", "a1", "read_back"} => "misa" \in hart.live
  /\ at \in {"binaries", "pc", "a0", "a1", "read_back"} => "elf" \in hart.images \cup ignored
  /\ at \in {"pc", "a0", "a1", "read_back"} /\ run.images => "binaries" \in hart.images \cup ignored
  /\ LoopReady

SetUpInv == HartType /\ EnvInv /\ ConfigInv /\ HartInv
(***************************************************************************)
(* The loop.                                                               *)
(***************************************************************************)
\* A run whose loop ends by its limit has clocked the core for exactly as many
\* cycles as the limit says: half_cycle counts half cycles and is compared as a
\* signed number, cycles is unsigned.
LoopOnTime == ~Running /\ at = "loop" => EndsOnTime

\* The counters of a limited run never pass the limit.
LoopCount ==
  /\ cycles \in 0 .. 2^Width - 1 /\ half_cycle \in Nat /\ clk \in BOOLEAN /\ edges \in Nat
  /\ half_cycle = IF clk THEN 2 * edges - 1 ELSE 2 * edges
  /\ cycles # 0 => half_cycle = 0 \/ half_cycle <= 2 * signed(cycles)

LoopInv ==
  /\ LoopCount
  /\ at # "loop" => half_cycle = 0
  /\ LoopOnTime

-----------------------------------------------------------------------------
(***************************************************************************)
(* The order of the steps.                                                 *)
(***************************************************************************)

\* Where each step of main leads.
LEMMA Order ==
  ASSUME Advance
  PROVE  /\ at = "args" => at' \in {"isatty", "paths"}
         /\ at = "isatty" => at' = "tcgetattr"
         /\ at = "tcgetattr" => at' = "tcsetattr"
         /\ at = "tcsetattr" => at' = "changed"
         /\ at = "changed" => at' = "SIGINT"
         /\ at = "SIGINT" => at' = "SIGTERM"
         /\ at = "SIGTERM" => at' = "SIGQUIT"
         /\ at = "SIGQUIT" => at' = "atexit"
         /\ at = "atexit" => at' = "F_GETFL"
         /\ at = "F_GETFL" => at' = "F_SETFL"
         /\ at = "F_SETFL" => at' = "paths"
         /\ at = "paths" => at' = "cycles"
         /\ at = "cycles" => at' = "setenv"
         /\ at = "setenv" => at' = "reset_dut"
         /\ at = "reset_dut" => at' = "restore_env"
         /\ at = "restore_env" => at' = IF Has("lockstep") THEN "required_environment" ELSE "loop"
         /\ at = "required_environment" => at' = "isa"
         /\ at = "isa" => at' = "misa"
         /\ at = "misa" => at' = "mimpid"
         /\ at = "mimpid" => at' = "pmp"
         /\ at = "pmp" => at' = "mperf"
         /\ at = "mperf" => at' = "uperf"
         /\ at = "uperf" => at' = "reset"
         /\ at = "reset" => at' = "check_misa"
         /\ at = "check_misa" => at' = "elf"
         /\ at = "elf" => at' = "binaries"
         /\ at = "binaries" => at' = "pc"
         /\ at = "pc" => at' = "a0"
         /\ at = "a0" => at' = "a1"
         /\ at = "a1" => at' = "read_back"
         /\ at = "read_back" => at' = "loop"
<1>1. PICK n \in 1 .. Len(main) - 1 : main[n] = at /\ Goto(main[n + 1])
  BY DEF Advance
<1>2. at = "args" => Goto("isatty")
  BY <1>1 DEF main, set_nonblocking, WhisperRefSteps
<1>3. at = "isatty" => Goto("tcgetattr")
  BY <1>1 DEF main, set_nonblocking, WhisperRefSteps
<1>4. at = "tcgetattr" => Goto("tcsetattr")
  BY <1>1 DEF main, set_nonblocking, WhisperRefSteps
<1>5. at = "tcsetattr" => Goto("changed")
  BY <1>1 DEF main, set_nonblocking, WhisperRefSteps
<1>6. at = "changed" => Goto("SIGINT")
  BY <1>1 DEF main, set_nonblocking, WhisperRefSteps
<1>7. at = "SIGINT" => Goto("SIGTERM")
  BY <1>1 DEF main, set_nonblocking, WhisperRefSteps
<1>8. at = "SIGTERM" => Goto("SIGQUIT")
  BY <1>1 DEF main, set_nonblocking, WhisperRefSteps
<1>9. at = "SIGQUIT" => Goto("atexit")
  BY <1>1 DEF main, set_nonblocking, WhisperRefSteps
<1>10. at = "atexit" => Goto("F_GETFL")
  BY <1>1 DEF main, set_nonblocking, WhisperRefSteps
<1>11. at = "F_GETFL" => Goto("F_SETFL")
  BY <1>1 DEF main, set_nonblocking, WhisperRefSteps
<1>12. at = "F_SETFL" => Goto("paths")
  BY <1>1 DEF main, set_nonblocking, WhisperRefSteps
<1>13. at = "paths" => Goto("cycles")
  BY <1>1 DEF main, set_nonblocking, WhisperRefSteps
<1>14. at = "cycles" => Goto("setenv")
  BY <1>1 DEF main, set_nonblocking, WhisperRefSteps
<1>15. at = "setenv" => Goto("reset_dut")
  BY <1>1 DEF main, set_nonblocking, WhisperRefSteps
<1>16. at = "reset_dut" => Goto("restore_env")
  BY <1>1 DEF main, set_nonblocking, WhisperRefSteps
<1>17. at = "restore_env" => Goto("required_environment")
  BY <1>1 DEF main, set_nonblocking, WhisperRefSteps
<1>18. at = "required_environment" => Goto("isa")
  BY <1>1 DEF main, set_nonblocking, WhisperRefSteps
<1>19. at = "isa" => Goto("misa")
  BY <1>1 DEF main, set_nonblocking, WhisperRefSteps
<1>20. at = "misa" => Goto("mimpid")
  BY <1>1 DEF main, set_nonblocking, WhisperRefSteps
<1>21. at = "mimpid" => Goto("pmp")
  BY <1>1 DEF main, set_nonblocking, WhisperRefSteps
<1>22. at = "pmp" => Goto("mperf")
  BY <1>1 DEF main, set_nonblocking, WhisperRefSteps
<1>23. at = "mperf" => Goto("uperf")
  BY <1>1 DEF main, set_nonblocking, WhisperRefSteps
<1>24. at = "uperf" => Goto("reset")
  BY <1>1 DEF main, set_nonblocking, WhisperRefSteps
<1>25. at = "reset" => Goto("check_misa")
  BY <1>1 DEF main, set_nonblocking, WhisperRefSteps
<1>26. at = "check_misa" => Goto("elf")
  BY <1>1 DEF main, set_nonblocking, WhisperRefSteps
<1>27. at = "elf" => Goto("binaries")
  BY <1>1 DEF main, set_nonblocking, WhisperRefSteps
<1>28. at = "binaries" => Goto("pc")
  BY <1>1 DEF main, set_nonblocking, WhisperRefSteps
<1>29. at = "pc" => Goto("a0")
  BY <1>1 DEF main, set_nonblocking, WhisperRefSteps
<1>30. at = "a0" => Goto("a1")
  BY <1>1 DEF main, set_nonblocking, WhisperRefSteps
<1>31. at = "a1" => Goto("read_back")
  BY <1>1 DEF main, set_nonblocking, WhisperRefSteps
<1>32. at = "read_back" => Goto("loop")
  BY <1>1 DEF main, set_nonblocking, WhisperRefSteps
<1> QED
  BY <1>2, <1>3, <1>4, <1>5, <1>6, <1>7, <1>8, <1>9, <1>10, <1>11, <1>12, <1>13, <1>14, <1>15, <1>16, <1>17, <1>18, <1>19, <1>20, <1>21, <1>22, <1>23, <1>24, <1>25, <1>26, <1>27, <1>28, <1>29, <1>30, <1>31, <1>32 DEF Goto

-----------------------------------------------------------------------------
(***************************************************************************)
(* The terminal.                                                           *)
(***************************************************************************)

\* The handlers put back what tcgetattr saved.
LEMMA Restored ==
  ASSUME TtyType, TtyInv, restore_termios_setting, termios_changed
  PROVE  tty' \in Terminals /\ AsFound(tty')
<1>1. tty' = [tty EXCEPT !.mode = old_setting.mode, !.vmin0 = old_setting.vmin0]
  BY DEF restore_termios_setting
<1>2. old_setting.mode = run.tty.mode /\ old_setting.vmin0 = run.tty.vmin0
  BY DEF TtyInv, AsFound
<1>3. run.tty \in Terminals
  BY SimAssumption DEF TtyType
<1> QED
  BY <1>1, <1>2, <1>3 DEF TtyType, Terminals, AsFound

\* A return from a step other than those before atexit leaves the terminal as
\* it was found.
LEMMA ReturnRestores ==
  ASSUME TtyType, TtyInv, NEW code, Return(code), run' = run,
         at \notin {"changed", "SIGINT", "SIGTERM", "SIGQUIT", "atexit"}
  PROVE  TtyType' /\ TtyInv'
<1>1. tty' \in Terminals /\ AsFound(tty')
  <2>1. CASE at_exit /\ termios_changed
    BY <2>1, Restored DEF Return
  <2>2. CASE ~termios_changed
    <3>1. tty' = tty
      BY <2>2 DEF Return, restore_termios_setting
    <3> QED
      BY <2>2, <3>1 DEF TtyInv, TtyType, AsFound
  <2> QED
    BY <2>1, <2>2 DEF TtyInv
<1>2. at' = at /\ UNCHANGED <<old_setting, termios_changed, handlers, at_exit>>
  BY DEF Return
<1>3. AsFound(tty)'
  BY <1>1 DEF AsFound
<1>4. TtyType'
  BY <1>1, <1>2 DEF TtyType
<1>5. AsFound(old_setting)' = AsFound(old_setting)
  BY <1>2 DEF AsFound
<1> QED
  BY <1>2, <1>3, <1>4, <1>5 DEF TtyInv, TerminalRestored, AsFound

\* A step that leaves the terminal alone, and does not end the process or go
\* back into set_nonblocking.
Onward ==
  \/ at' \notin {"args", "isatty", "tcgetattr", "tcsetattr", "changed"}
  \/ at = "args" /\ at' = "isatty"

LEMMA TtyUntouched ==
  ASSUME TtyType, TtyInv, UNCHANGED <<run, ttyVars, exit>>,
         at \notin {"tcsetattr", "changed", "SIGINT", "SIGTERM", "SIGQUIT", "atexit"},
         Onward
  PROVE  TtyType' /\ TtyInv'
<1>1. UNCHANGED <<run, tty, old_setting, termios_changed, handlers, at_exit, exit>>
  BY DEF ttyVars
<1>2. TtyType'
  BY <1>1 DEF TtyType
<1> QED
  BY <1>1, <1>2 DEF TtyInv, TerminalRestored, AsFound, Running, Onward

LEMMA TtyStep ==
  ASSUME TtyType, TtyInv, Next PROVE TtyType' /\ TtyInv'
<1>1. CASE Args
  <2>1. CASE run.files < 2
    <3>1. Return(1) /\ run' = run /\ at = "args"
      BY <1>1, <2>1 DEF Args
    <3> QED
      BY <3>1, ReturnRestores
  <2>2. CASE ~(run.files < 2)
    <3>1. Advance /\ at = "args" /\ UNCHANGED <<run, ttyVars, exit>>
      BY <1>1, <2>2 DEF Args
    <3>2. Onward
      BY <3>1, Order DEF Onward
    <3> QED
      BY <3>1, <3>2, TtyUntouched
  <2> QED
    BY <2>1, <2>2
<1>2. CASE Paths
  <2>1. CASE Return(1)
    BY <1>2, <2>1, ReturnRestores DEF Paths
  <2>2. CASE Advance /\ UNCHANGED <<ttyVars, exit>>
    <3>1. at = "paths" /\ UNCHANGED <<run, ttyVars, exit>>
      BY <1>2, <2>2 DEF Paths
    <3>2. Onward
      BY <2>2, <3>1, Order DEF Onward
    <3> QED
      BY <3>1, <3>2, TtyUntouched
  <2> QED
    BY <1>2, <2>1, <2>2 DEF Paths
<1>3. CASE Cycles
  <2>1. CASE Return(1)
    BY <1>3, <2>1, ReturnRestores DEF Cycles
  <2>2. CASE Advance /\ UNCHANGED <<ttyVars, exit>>
    <3>1. at = "cycles" /\ UNCHANGED <<run, ttyVars, exit>>
      BY <1>3, <2>2 DEF Cycles
    <3>2. Onward
      BY <2>2, <3>1, Order DEF Onward
    <3> QED
      BY <3>1, <3>2, TtyUntouched
  <2> QED
    BY <1>3, <2>1, <2>2 DEF Cycles
<1>4. CASE Environment
  <2>1. Advance /\ at \in {"setenv", "reset_dut", "restore_env"} /\ UNCHANGED <<run, ttyVars, exit>>
    BY <1>4 DEF Environment
  <2>2. Onward
    BY <2>1, Order DEF Onward
  <2> QED
    BY <2>1, <2>2, TtyUntouched
<1>5. CASE required_environment
  <2>1. CASE Return(1)
    BY <1>5, <2>1, ReturnRestores DEF required_environment
  <2>2. CASE Advance /\ UNCHANGED <<ttyVars, exit>>
    <3>1. at = "required_environment" /\ UNCHANGED <<run, ttyVars, exit>>
      BY <1>5, <2>2 DEF required_environment
    <3>2. Onward
      BY <2>2, <3>1, Order DEF Onward
    <3> QED
      BY <3>1, <3>2, TtyUntouched
  <2> QED
    BY <1>5, <2>1, <2>2 DEF required_environment
<1>6. ASSUME at \in Construction, run' = run, Return(1) \/ (Advance /\ UNCHANGED <<ttyVars, exit>>)
      PROVE  TtyType' /\ TtyInv'
  <2>1. CASE Return(1)
    BY <1>6, <2>1, ReturnRestores DEF Construction
  <2>2. CASE Advance /\ UNCHANGED <<ttyVars, exit>>
    <3>1. Onward
      BY <1>6, <2>2, Order DEF Construction, Onward
    <3>2. /\ at \notin {"tcsetattr", "changed", "SIGINT", "SIGTERM", "SIGQUIT", "atexit"}
          /\ UNCHANGED <<run, ttyVars, exit>>
      BY <1>6, <2>2 DEF Construction
    <3> QED
      BY <3>1, <3>2, TtyUntouched
  <2> QED
    BY <1>6, <2>1, <2>2
<1>7. CASE WhisperRefStep
  <2>1. at \in Construction
    BY <1>7 DEF WhisperRefStep, IsIn, WhisperRefSteps, Construction
  <2> QED
    BY <1>6, <1>7, <2>1 DEF WhisperRefStep
<1>8. CASE WhisperRefCheck
  <2>1. at \in Construction
    BY <1>8 DEF WhisperRefCheck, Construction
  <2> QED
    BY <1>6, <1>8, <2>1 DEF WhisperRefCheck
<1>9. CASE LoopEnds
  <2>1. at = "loop" /\ run' = run /\ Return(ExitCode)
    BY <1>9 DEF LoopEnds
  <2> HIDE DEF ExitCode
  <2> QED
    BY <2>1, ReturnRestores
<1>10. CASE HalfCycle
  <2>1. at = "loop" /\ at' = at /\ UNCHANGED <<run, ttyVars>>
    BY <1>10 DEF HalfCycle
  <2>2. exit' = exit \/ exit' = [how |-> "aborted", code |-> None]
    BY <1>10 DEF HalfCycle, Ends
  <2>3. Running
    BY <1>10 DEF HalfCycle
  <2> QED
    BY <2>1, <2>2, <2>3 DEF TtyType, TtyInv, TerminalRestored, AsFound, Running, ttyVars
<1>11. ASSUME NEW s \in Signals, Signal(s) PROVE TtyType' /\ TtyInv'
  <2>1. at' = at /\ UNCHANGED <<run, old_setting, termios_changed, handlers, at_exit>>
    BY <1>11 DEF Signal
  <2>2. CASE s \in handlers
    <3>1. restore_termios_setting /\ at # "changed"
      BY <1>11, <2>2 DEF Signal, sighandler, TtyInv
    <3>2. tty' \in Terminals /\ AsFound(tty')
      <4>1. CASE termios_changed
        BY <3>1, <4>1, Restored
      <4>2. CASE ~termios_changed
        BY <3>1, <4>2 DEF restore_termios_setting, TtyInv, TtyType
      <4> QED
        BY <4>1, <4>2
    <3> QED
      BY <2>1, <3>2 DEF TtyType, TtyInv, TerminalRestored, AsFound
  <2>3. CASE s \notin handlers
    <3>1. tty' = tty /\ exit' = [how |-> "killed", code |-> s]
      BY <1>11, <2>3 DEF Signal, Ends
    <3> QED
      BY <2>1, <3>1 DEF TtyType, TtyInv, TerminalRestored, AsFound
  <2> QED
    BY <2>2, <2>3
<1>12. CASE SetNonblocking
  <2>1. UNCHANGED <<run, exit>> /\ Running
    BY <1>12 DEF SetNonblocking
  <2>2. ASSUME at' = "paths", UNCHANGED ttyVars,
               at \in {"isatty", "tcgetattr", "tcsetattr", "F_GETFL", "F_SETFL"}
        PROVE  TtyType' /\ TtyInv'
    BY <2>1, <2>2 DEF ttyVars, TtyType, TtyInv, TerminalRestored, AsFound, Running
  <2>3. ASSUME at = "tcgetattr", at' = "tcsetattr", old_setting' = tty,
               UNCHANGED <<tty, termios_changed, handlers, at_exit>>
        PROVE  TtyType' /\ TtyInv'
    BY <2>1, <2>3 DEF TtyType, TtyInv, TerminalRestored, AsFound, Running
  <2>4. ASSUME at = "tcsetattr", at' = "changed", tty' = new_setting(tty),
               UNCHANGED <<old_setting, termios_changed, handlers, at_exit>>
        PROVE  TtyType' /\ TtyInv'
    <3>1. tty' \in Terminals
      BY <2>4 DEF new_setting, TtyType, Terminals
    <3> QED
      BY <2>1, <2>4, <3>1 DEF TtyType, TtyInv, TerminalRestored, AsFound, Running
  <2>5. ASSUME at = "changed", at' = "SIGINT", termios_changed' = TRUE,
               UNCHANGED <<tty, old_setting, handlers, at_exit>>
        PROVE  TtyType' /\ TtyInv'
    BY <2>1, <2>5 DEF TtyType, TtyInv, TerminalRestored, AsFound, Running
  <2>6. ASSUME at \in Signals, at' \in {"SIGTERM", "SIGQUIT", "atexit"},
               UNCHANGED <<tty, old_setting, termios_changed, at_exit>>
        PROVE  TtyType' /\ TtyInv'
    BY <2>1, <2>6 DEF TtyType, TtyInv, TerminalRestored, AsFound, Running, Signals
  <2>7. ASSUME at = "atexit", at' = "F_GETFL", at_exit' = TRUE,
               UNCHANGED <<tty, old_setting, termios_changed>>
        PROVE  TtyType' /\ TtyInv'
    BY <2>1, <2>7 DEF TtyType, TtyInv, TerminalRestored, AsFound, Running
  <2>8. ASSUME at \in {"F_GETFL", "F_SETFL"}, at' \in {"F_SETFL", "paths"},
               tty' = tty \/ tty' = [tty EXCEPT !.nonblock = TRUE],
               UNCHANGED <<old_setting, termios_changed, at_exit>>
        PROVE  TtyType' /\ TtyInv'
    <3>1. tty' \in Terminals /\ tty'.mode = tty.mode /\ tty'.vmin0 = tty.vmin0
      BY <2>8 DEF TtyType, Terminals
    <3> QED
      BY <2>1, <2>8, <3>1 DEF TtyType, TtyInv, TerminalRestored, AsFound, Running
  <2>9. ASSUME at = "isatty", at' = "tcgetattr", UNCHANGED ttyVars
        PROVE  TtyType' /\ TtyInv'
    BY <2>1, <2>9 DEF ttyVars, TtyType, TtyInv, TerminalRestored, AsFound, Running
  <2>10. CASE NonblockingFails /\ at \in {"isatty", "tcgetattr", "tcsetattr", "F_GETFL", "F_SETFL"}
    BY <2>2, <2>10 DEF NonblockingFails
  <2>11. CASE /\ Advance /\ IsIn(at, set_nonblocking)
              /\ old_setting' = IF at = "tcgetattr" THEN tty ELSE old_setting
              /\ tty' = CASE at = "tcsetattr" -> new_setting(tty)
                          [] at = "F_SETFL"   -> [tty EXCEPT !.nonblock = TRUE]
                          [] OTHER            -> tty
              /\ termios_changed' = (termios_changed \/ at = "changed")
              /\ handlers' = handlers \cup ({at} \cap Signals)
              /\ at_exit' = (at_exit \/ at = "atexit")
    <3>1. at \in {"isatty", "tcgetattr", "tcsetattr", "changed", "SIGINT", "SIGTERM", "SIGQUIT",
                  "atexit", "F_GETFL", "F_SETFL"}
      BY <2>11 DEF IsIn, set_nonblocking
    <3>2. /\ at # "changed" => termios_changed' = termios_changed
          /\ at # "atexit" => at_exit' = at_exit
          /\ at = "changed" => termios_changed' = TRUE
          /\ at = "atexit" => at_exit' = TRUE
      BY <2>11 DEF TtyType
    <3>3. at \notin Signals => handlers' = handlers
      BY <2>11
    <3>4. CASE at = "isatty"
      BY <2>9, <2>11, <3>2, <3>3, <3>4, Order DEF ttyVars, Signals
    <3>5. CASE at = "tcgetattr"
      BY <2>3, <2>11, <3>2, <3>3, <3>5, Order DEF Signals
    <3>6. CASE at = "tcsetattr"
      BY <2>4, <2>11, <3>2, <3>3, <3>6, Order DEF Signals
    <3>7. CASE at = "changed"
      BY <2>5, <2>11, <3>2, <3>3, <3>7, Order DEF Signals
    <3>8. CASE at \in Signals
      BY <2>6, <2>11, <3>2, <3>8, Order DEF Signals
    <3>9. CASE at = "atexit"
      BY <2>7, <2>11, <3>2, <3>9, Order
    <3>10. CASE at \in {"F_GETFL", "F_SETFL"}
      BY <2>8, <2>11, <3>2, <3>10, Order
    <3> QED
      BY <3>1, <3>4, <3>5, <3>6, <3>7, <3>8, <3>9, <3>10 DEF Signals
  <2> QED
    BY <1>12, <2>10, <2>11 DEF SetNonblocking
<1> QED
  BY <1>1, <1>2, <1>3, <1>4, <1>5, <1>7, <1>8, <1>9, <1>10, <1>11, <1>12 DEF Next, Step

-----------------------------------------------------------------------------
(***************************************************************************)
(* The set-up.                                                             *)
(***************************************************************************)

\* A step that stays where it is, or is still among the arguments and the
\* terminal, leaves the set-up as it is.
Early == {"args", "isatty", "tcgetattr", "tcsetattr", "changed", "SIGINT", "SIGTERM", "SIGQUIT",
          "atexit", "F_GETFL", "F_SETFL", "paths", "cycles", "setenv"}

LEMMA SetUpUntouched ==
  ASSUME SetUpInv, UNCHANGED <<run, envVars, refVars>>, at' = at \/ at' \in Early
  PROVE  SetUpInv'
<1>1. UNCHANGED <<run, env, loaded, hart, ignored>>
  BY DEF envVars, refVars
<1>2. CASE at' = at
  BY <1>1, <1>2 DEF SetUpInv, HartType, EnvInv, ConfigInv, Made, HartInv, LoopReady, Has,
                    Construction, Prepared
<1>3. CASE at' \in Early
  BY <1>1, <1>3 DEF SetUpInv, HartType, EnvInv, ConfigInv, HartInv, LoopReady,
                    Construction, Prepared, Early
<1> QED
  BY <1>2, <1>3

\* The memories are loaded and the environment is put back.
LEMMA EnvironmentStep ==
  ASSUME SetUpInv, Environment PROVE SetUpInv'
<1>1. /\ Advance /\ at \in {"setenv", "reset_dut", "restore_env"}
      /\ UNCHANGED <<run, hart, ignored>>
  BY DEF Environment, refVars
<1>2. CASE at = "setenv"
  <2>1. at' = "reset_dut" /\ env' = [rom |-> "arg", ram |-> "arg"]
    BY <1>1, <1>2, Order DEF Environment
  <2> QED
    BY <1>1, <2>1 DEF SetUpInv, HartType, EnvInv, ConfigInv, HartInv, LoopReady,
                      Construction, Prepared
<1>3. CASE at = "reset_dut"
  <2>1. at' = "restore_env" /\ loaded' = env
    BY <1>1, <1>3, Order DEF Environment
  <2> QED
    BY <1>1, <1>3, <2>1 DEF SetUpInv, HartType, EnvInv, ConfigInv, HartInv, LoopReady,
                            Construction, Prepared
<1>4. CASE at = "restore_env"
  <2>1. env' = run.env /\ loaded' = loaded
    BY <1>4 DEF Environment
  <2>2. at' = IF Has("lockstep") THEN "required_environment" ELSE "loop"
    BY <1>1, <1>4, Order
  <2>3. loaded = [rom |-> "arg", ram |-> "arg"]
    BY <1>4 DEF SetUpInv, EnvInv
  <2> QED
    BY <1>1, <2>1, <2>2, <2>3 DEF SetUpInv, HartType, EnvInv, ConfigInv, HartInv, LoopReady,
                                  Construction, Prepared, Has
<1> QED
  BY <1>1, <1>2, <1>3, <1>4

\* The constructor goes on from one call to the next.
LEMMA EnvKept ==
  ASSUME EnvInv, UNCHANGED <<run, envVars>>, at \in Construction \cup {"required_environment"},
         at' \in Construction \cup {"loop"}
  PROVE  EnvInv'
BY DEF EnvInv, envVars, Construction, Prepared

\* What one call leaves in Whisper: its effect, or nothing.
Call ==
  /\ at \in Construction
  /\ \/ hart' = Takes(hart, at) /\ ignored' = ignored
     \/ at = "binaries" /\ ~run.images /\ hart' = hart /\ ignored' = ignored
     \/ at # "reset" /\ hart' = hart /\ ignored' = ignored \cup {at}

LEMMA CallType ==
  ASSUME HartType, Call, at \notin {"check_misa", "read_back"} PROVE HartType'
<1>1. CASE hart' = Takes(hart, at)
  BY <1>1 DEF HartType, Takes, Call, Construction, Settings, Registers, Images
<1> QED
  BY <1>1 DEF HartType, Call

\* A setting stays made, except that configIsa derives MISA anew.
LEMMA MadeStays ==
  ASSUME HartType, Call, at \notin {"isa", "check_misa", "read_back"}
  PROVE  /\ hart.config \subseteq hart'.config
         /\ at # "reset" => hart'.live = hart.live
         /\ hart.images \subseteq hart'.images
         /\ ignored \subseteq ignored'
         /\ at \in Settings => at \in hart'.config \cup ignored'
         /\ at = "elf" => "elf" \in hart'.images \cup ignored'
         /\ at = "binaries" /\ run.images => "binaries" \in hart'.images \cup ignored'
         /\ at = "reset" => hart'.live = hart.config
<1>1. CASE hart' = Takes(hart, at) /\ ignored' = ignored
  <2>1. CASE at \in Settings
    <3>1. hart' = [hart EXCEPT !.config = @ \cup {at}] /\ at # "reset" /\ at \notin Images
      BY <1>1, <2>1 DEF Takes, Settings, Images, Registers
    <3> QED
      BY <1>1, <3>1 DEF HartType, Images
  <2>2. CASE at = "reset"
    <3>1. hart' = [hart EXCEPT !.live = hart.config, !.regs = {}] /\ at \notin Images \cup Settings
      BY <1>1, <2>2 DEF Takes, Settings, Images, Registers
    <3> QED
      BY <1>1, <2>2, <3>1 DEF HartType
  <2>3. CASE at \in Images
    <3>1. hart' = [hart EXCEPT !.images = @ \cup {at}] /\ at # "reset" /\ at \notin Settings
      BY <1>1, <2>3 DEF Takes, Settings, Images, Registers
    <3> QED
      BY <1>1, <3>1 DEF HartType, Images
  <2>4. CASE at \in Registers
    <3>1. /\ hart' = [hart EXCEPT !.regs = @ \cup {at}] /\ at # "reset"
          /\ at \notin Settings \cup Images
      BY <1>1, <2>4 DEF Takes, Settings, Images, Registers
    <3> QED
      BY <1>1, <3>1 DEF HartType, Images
  <2> QED
    BY <2>1, <2>2, <2>3, <2>4 DEF Call, Construction, Settings, Registers, Images
<1>2. CASE /\ at # "reset" /\ hart' = hart
           /\ \/ at = "binaries" /\ ~run.images /\ ignored' = ignored
              \/ ignored' = ignored \cup {at}
  BY <1>2 DEF Settings, Images
<1> QED
  BY <1>1, <1>2 DEF Call

LEMMA ConstructionStep ==
  ASSUME SetUpInv, Call, Advance, at \notin {"check_misa", "read_back"}, UNCHANGED <<run, envVars>>
  PROVE  SetUpInv'
<1>1. HartType' /\ HartType
  BY CallType DEF SetUpInv
<1>2. EnvInv'
  <2>1. at \in Construction /\ at' \in Construction
    BY Order DEF Call, Construction
  <2> QED
    BY <2>1, EnvKept DEF SetUpInv
<1>3. at' # "loop" /\ run.opensbi /\ run' = run
  BY Order DEF Call, Construction, SetUpInv, HartInv
<1>4. CASE at = "isa"
  <2>1. at' = "misa"
    BY <1>4, Order
  <2>2. "isa" \in hart'.config \cup ignored'
    BY <1>1, <1>4 DEF Call, Takes, HartType, Settings, Images, Registers
  <2> QED
    BY <1>1, <1>2, <1>3, <2>1, <2>2
       DEF SetUpInv, ConfigInv, Made, HartInv, LoopReady, Construction
<1>5. CASE at \in {"misa", "mimpid", "pmp", "mperf", "uperf"}
  <2>1. /\ hart.config \subseteq hart'.config /\ ignored \subseteq ignored'
        /\ at \in hart'.config \cup ignored'
    BY <1>1, <1>5, MadeStays DEF Settings
  <2>2. \A s : Made(s) => s \in hart'.config \cup ignored'
    BY <2>1 DEF Made
  <2>3. at' \in {"mimpid", "pmp", "mperf", "uperf", "reset"}
    BY <1>5, Order
  <2>4. ConfigInv'
    <3>1. CASE at = "misa"
      BY <2>1, <2>2, <3>1, Order DEF SetUpInv, ConfigInv, Made
    <3>2. CASE at = "mimpid"
      BY <2>1, <2>2, <3>2, Order DEF SetUpInv, ConfigInv, Made
    <3>3. CASE at = "pmp"
      BY <2>1, <2>2, <3>3, Order DEF SetUpInv, ConfigInv, Made
    <3>4. CASE at = "mperf"
      BY <2>1, <2>2, <3>4, Order DEF SetUpInv, ConfigInv, Made
    <3>5. CASE at = "uperf"
      BY <2>1, <2>2, <3>5, Order DEF SetUpInv, ConfigInv, Made
    <3> QED
      BY <1>5, <3>1, <3>2, <3>3, <3>4, <3>5
  <2> QED
    BY <1>1, <1>2, <1>3, <2>3, <2>4 DEF SetUpInv, HartInv, LoopReady, Construction
<1>6. CASE at = "reset"
  <2>1. at' = "check_misa" /\ ignored \subseteq ignored' /\ hart'.live = hart.config
    BY <1>1, <1>6, MadeStays, Order
  <2>2. Settings \ ignored \subseteq hart.config
    BY <1>6 DEF SetUpInv, ConfigInv, Made, Settings
  <2> QED
    BY <1>1, <1>2, <1>3, <2>1, <2>2 DEF SetUpInv, ConfigInv, HartInv, LoopReady, Construction
<1>7. CASE at \in {"elf", "binaries", "pc", "a0", "a1"}
  <2>1. /\ hart'.live = hart.live /\ hart.images \subseteq hart'.images
        /\ ignored \subseteq ignored'
        /\ at = "elf" => at \in hart'.images \cup ignored'
        /\ at = "binaries" /\ run.images => at \in hart'.images \cup ignored'
    <3>1. at \notin {"isa", "check_misa", "read_back"} /\ at # "reset"
      BY <1>7
    <3> QED
      BY <1>1, <3>1, MadeStays
  <2>2. at' \in {"binaries", "pc", "a0", "a1", "read_back"}
    BY <1>7, Order
  <2>3. ConfigInv'
    BY <2>2 DEF ConfigInv
  <2>4. /\ Settings \ ignored' \subseteq hart'.live /\ "misa" \in hart'.live
    BY <1>7, <2>1 DEF SetUpInv, HartInv
  <2>5. "elf" \in hart'.images \cup ignored'
    BY <1>7, <2>1 DEF SetUpInv, HartInv
  <2>6. at' \in {"pc", "a0", "a1", "read_back"} /\ run.images =>
          "binaries" \in hart'.images \cup ignored'
    <3>1. at' \in {"pc", "a0", "a1", "read_back"} => at # "elf"
      BY Order
    <3> QED
      BY <1>7, <2>1, <3>1 DEF SetUpInv, HartInv
  <2>7. HartInv'
    BY <1>3, <2>2, <2>4, <2>5, <2>6 DEF HartInv, LoopReady, Construction
  <2> QED
    BY <1>1, <1>2, <2>3, <2>7 DEF SetUpInv
<1> QED
  BY <1>4, <1>5, <1>6, <1>7 DEF Call, Construction

LEMMA SetUpStep ==
  ASSUME SetUpInv, Next PROVE SetUpInv'
<1>1. CASE Args \/ SetNonblocking \/ Paths \/ Cycles
  <2>1. UNCHANGED <<run, envVars, refVars>>
    BY <1>1 DEF Args, SetNonblocking, Paths, Cycles
  <2>2. at' = at \/ at' \in Early
    <3>1. CASE SetNonblocking
      <4>1. at \in {"isatty", "tcgetattr", "tcsetattr", "changed", "SIGINT", "SIGTERM", "SIGQUIT",
                    "atexit", "F_GETFL", "F_SETFL"}
        BY <3>1 DEF SetNonblocking, IsIn, set_nonblocking
      <4>2. at' = "paths" \/ Advance
        BY <3>1 DEF SetNonblocking, NonblockingFails
      <4> QED
        BY <4>1, <4>2, Order DEF Early
    <3>2. CASE Args \/ Paths \/ Cycles
      <4>1. at' = at \/ Advance
        BY <3>2 DEF Args, Paths, Cycles, Return
      <4>2. at \in {"args", "paths", "cycles"}
        BY <3>2 DEF Args, Paths, Cycles
      <4> QED
        BY <4>1, <4>2, Order DEF Early
    <3> QED
      BY <1>1, <3>1, <3>2
  <2> QED
    BY <2>1, <2>2, SetUpUntouched
<1>2. CASE Environment
  BY <1>2, EnvironmentStep
<1>3. CASE required_environment
  <2>1. UNCHANGED <<run, envVars, refVars>> /\ at = "required_environment"
    BY <1>3 DEF required_environment
  <2>2. CASE run.opensbi
    <3>1. at' = "isa"
      BY <1>3, <2>1, <2>2, Order DEF required_environment
    <3>2. EnvInv'
      BY <2>1, <3>1, EnvKept DEF SetUpInv, Construction
    <3> QED
      BY <2>1, <2>2, <3>1, <3>2
         DEF SetUpInv, HartType, ConfigInv, HartInv, LoopReady, Construction, refVars
  <2>3. CASE ~run.opensbi
    BY <1>3, <2>1, <2>3, SetUpUntouched DEF required_environment, Return
  <2> QED
    BY <2>2, <2>3
<1>4. CASE WhisperRefStep
  <2>1. /\ at \in Construction /\ at \notin {"check_misa", "read_back"}
        /\ UNCHANGED <<run, envVars>>
    BY <1>4 DEF WhisperRefStep, IsIn, WhisperRefSteps, Construction
  <2>2. CASE Return(1) /\ UNCHANGED refVars
    BY <2>1, <2>2, SetUpUntouched DEF Return
  <2>3. CASE Advance /\ Call
    BY <2>1, <2>3, ConstructionStep
  <2> QED
    BY <1>4, <2>1, <2>2, <2>3 DEF WhisperRefStep, Call, refVars
<1>5. CASE WhisperRefCheck
  <2>1. UNCHANGED <<run, envVars, refVars>> /\ at \in {"check_misa", "read_back"}
    BY <1>5 DEF WhisperRefCheck
  <2>2. CASE Return(1)
    BY <2>1, <2>2, SetUpUntouched DEF Return
  <2>3. CASE ReadBack /\ Advance
    <3>1. Advance
      BY <2>3
    <3>2. EnvInv'
      BY <2>1, <3>1, EnvKept, Order DEF SetUpInv, Construction
    <3>3. CASE at = "check_misa"
      <4>1. at' = "elf" /\ "misa" \in hart.live
        BY <2>3, <3>1, <3>3, Order DEF ReadBack
      <4> QED
        BY <2>1, <3>2, <3>3, <4>1
           DEF SetUpInv, HartType, ConfigInv, HartInv, LoopReady, Construction, refVars
    <3>4. CASE at = "read_back"
      <4>1. at' = "loop" /\ hart.regs = Registers
        BY <2>3, <3>1, <3>4, Order DEF ReadBack
      <4>2. run' = run /\ env' = env /\ loaded' = loaded /\ hart' = hart /\ ignored' = ignored
        BY <2>1 DEF envVars, refVars
      <4>3. LoopReady'
        BY <3>4, <4>1, <4>2 DEF SetUpInv, EnvInv, HartInv, LoopReady, Construction, Prepared,
                                Has, Images
      <4> QED
        BY <3>2, <4>1, <4>2, <4>3 DEF SetUpInv, HartType, ConfigInv, HartInv, Construction
    <3> QED
      BY <2>1, <3>3, <3>4
  <2> QED
    BY <1>5, <2>2, <2>3 DEF WhisperRefCheck
<1>6. CASE HalfCycle \/ LoopEnds \/ \E s \in Signals : Signal(s)
  <2>1. at' = at /\ UNCHANGED <<run, envVars, refVars>>
    BY <1>6 DEF HalfCycle, LoopEnds, Signal, Return
  <2> QED
    BY <2>1, SetUpUntouched
<1> QED
  BY <1>1, <1>2, <1>3, <1>4, <1>5, <1>6 DEF Next, Step

-----------------------------------------------------------------------------
(***************************************************************************)
(* The loop.                                                               *)
(***************************************************************************)

LEMMA SignedLimit ==
  ASSUME NEW c \in 0 .. 2^Width - 1
  PROVE  /\ signed(c) \in Int
         /\ c < 2^(Width - 1) => signed(c) = c
         /\ ~(c < 2^(Width - 1)) => signed(c) < 0
<1>1. 2^Width \in Int /\ 2^(Width - 1) \in Int
  BY SimAssumption
<1> QED
  BY <1>1 DEF signed

LEMMA LimitReached ==
  ASSUME LoopCount, ~WithinLimit
  PROVE  edges = IF cycles < 2^(Width - 1) THEN cycles ELSE 0
<1>1. /\ cycles # 0 /\ ~(half_cycle \div 2 < signed(cycles)) /\ half_cycle \in Nat
      /\ edges \in Nat /\ cycles \in Nat /\ signed(cycles) \in Int
  BY SignedLimit DEF WithinLimit, LoopCount
<1>2. half_cycle = 2 * edges - 1 \/ half_cycle = 2 * edges
  BY DEF LoopCount
<1>3. half_cycle = 0 \/ half_cycle <= 2 * signed(cycles)
  BY <1>1 DEF LoopCount
<1>4. CASE cycles < 2^(Width - 1)
  <2>1. signed(cycles) = cycles
    BY <1>4, SignedLimit DEF LoopCount
  <2>2. edges = cycles
    BY <1>1, <1>2, <1>3, <2>1
  <2> QED
    BY <1>4, <2>2
<1>5. CASE ~(cycles < 2^(Width - 1))
  <2>1. signed(cycles) < 0
    BY <1>5, SignedLimit DEF LoopCount
  <2>2. edges = 0
    BY <1>1, <1>2, <1>3, <2>1
  <2> QED
    BY <1>5, <2>2
<1> QED
  BY <1>4, <1>5

LEMMA CountStep ==
  ASSUME LoopCount, HalfCycle PROVE LoopCount'
<1>1. /\ half_cycle' = half_cycle + 1 /\ clk' = ~clk /\ cycles' = cycles
      /\ edges' = IF clk THEN edges ELSE edges + 1
      /\ WithinLimit
  BY DEF HalfCycle, LoopGoesOn
<1>2. half_cycle \in Nat /\ edges \in Nat /\ clk \in BOOLEAN /\ cycles \in 0 .. 2^Width - 1
  BY DEF LoopCount
<1>3. clk' \in BOOLEAN
  BY <1>1
<1>4. half_cycle' \in Nat /\ edges' \in Nat
  BY <1>1, <1>2
<1>5. half_cycle' = IF clk' THEN 2 * edges' - 1 ELSE 2 * edges'
  <2>1. CASE clk
    <3>1. half_cycle = 2 * edges - 1 /\ edges' = edges /\ ~clk'
      BY <1>1, <2>1 DEF LoopCount
    <3> QED
      BY <1>1, <1>2, <3>1
  <2>2. CASE ~clk
    <3>1. half_cycle = 2 * edges /\ edges' = edges + 1 /\ clk'
      BY <1>1, <2>2 DEF LoopCount
    <3> QED
      BY <1>1, <1>2, <3>1
  <2> QED
    BY <2>1, <2>2
<1>6. cycles # 0 => half_cycle' <= 2 * signed(cycles)
  <2>1. signed(cycles) \in Int
    BY <1>2, SignedLimit
  <2> QED
    BY <1>1, <1>2, <2>1 DEF WithinLimit
<1>7. cycles' # 0 => half_cycle' <= 2 * signed(cycles')
  BY <1>1, <1>6
<1>8. signed(cycles') = signed(cycles)'
  BY DEF signed
<1> QED
  BY <1>1, <1>2, <1>3, <1>4, <1>5, <1>7, <1>8 DEF LoopCount

LEMMA LoopStep ==
  ASSUME run \in Runs, LoopInv, Next PROVE LoopInv'
<1>0. LoopCount
  BY DEF LoopInv
<1>1. CASE HalfCycle
  <2>1. at' = at /\ at = "loop" /\ Running
    BY <1>1 DEF HalfCycle
  <2>2. exit' = exit \/ exit' = [how |-> "aborted", code |-> None]
    BY <1>1 DEF HalfCycle, Ends
  <2>3. LoopCount'
    BY <1>0, <1>1, CountStep
  <2>4. LoopOnTime'
    BY <2>1, <2>2 DEF LoopOnTime, Running, EndsOnTime, EndsByLimit
  <2> QED
    BY <2>1, <2>3, <2>4 DEF LoopInv
<1>2. CASE LoopEnds
  <2>1. at' = at /\ UNCHANGED <<cycles, half_cycle, clk, edges, loop>> /\ ~LoopGoesOn
    BY <1>2 DEF LoopEnds, Return, loopVars
  <2>2. LoopOnTime'
    <3> SUFFICES ASSUME ~loop.finish, ~loop.failed
                 PROVE  edges = IF cycles < 2^(Width - 1) THEN cycles ELSE 0
      BY <2>1 DEF LoopOnTime, EndsOnTime, EndsByLimit
    <3>1. ~WithinLimit
      BY <2>1 DEF LoopGoesOn
    <3> QED
      BY <1>0, <3>1, LimitReached
  <2>3. signed(cycles)' = signed(cycles)
    BY <2>1 DEF signed
  <2> QED
    BY <2>1, <2>2, <2>3 DEF LoopInv, LoopCount
<1>3. CASE Cycles
  <2>1. /\ at = "cycles" /\ UNCHANGED <<half_cycle, clk, edges>>
        /\ cycles' = cycles \/ cycles' = run.cycles
        /\ at' = at \/ at' = "setenv"
    BY <1>3, Order DEF Cycles, Return
  <2>2. cycles' \in 0 .. 2^Width - 1
    BY <2>1, SimAssumption DEF LoopInv, LoopCount
  <2> QED
    BY <2>1, <2>2 DEF LoopInv, LoopCount, LoopOnTime
<1>4. ASSUME UNCHANGED <<cycles, half_cycle, clk, edges, loop>>, at # "loop", Running,
             exit' = exit \/ at' = at
      PROVE  LoopInv'
  <2>1. signed(cycles)' = signed(cycles)
    BY <1>4 DEF signed
  <2>2. LoopOnTime'
    BY <1>4 DEF LoopOnTime, Running
  <2> QED
    BY <1>4, <2>1, <2>2 DEF LoopInv, LoopCount
<1>5. CASE Args \/ Paths \/ SetNonblocking \/ Environment \/ required_environment
  <2>1. UNCHANGED <<cycles, half_cycle, clk, edges, loop>> /\ Running
    BY <1>5 DEF Args, Paths, SetNonblocking, Environment, required_environment, loopVars
  <2>2. exit' = exit \/ at' = at
    BY <1>5 DEF Args, Paths, SetNonblocking, Environment, required_environment, Return
  <2>3. at # "loop"
    BY <1>5 DEF Args, Paths, SetNonblocking, Environment, required_environment, IsIn,
                set_nonblocking
  <2> QED
    BY <1>4, <2>1, <2>2, <2>3
<1>6. CASE WhisperRefStep \/ WhisperRefCheck
  <2>1. UNCHANGED <<cycles, half_cycle, clk, edges, loop>> /\ Running
    BY <1>6 DEF WhisperRefStep, WhisperRefCheck, loopVars
  <2>2. exit' = exit \/ at' = at
    BY <1>6 DEF WhisperRefStep, WhisperRefCheck, Return
  <2>3. at # "loop"
    BY <1>6 DEF WhisperRefStep, WhisperRefCheck, IsIn, WhisperRefSteps
  <2> QED
    BY <1>4, <2>1, <2>2, <2>3
<1>7. ASSUME NEW s \in Signals, Signal(s) PROVE LoopInv'
  <2>1. at' = at /\ UNCHANGED <<cycles, half_cycle, clk, edges, loop>>
    BY <1>7 DEF Signal, loopVars
  <2>2. exit'.how \in {"signal", "killed"}
    BY <1>7 DEF Signal, sighandler, Ends
  <2>3. signed(cycles)' = signed(cycles)
    BY <2>1 DEF signed
  <2> QED
    BY <2>1, <2>2, <2>3 DEF LoopInv, LoopCount, LoopOnTime, EndsOnTime, EndsByLimit
<1> QED
  BY <1>1, <1>2, <1>3, <1>5, <1>6, <1>7 DEF Next, Step

-----------------------------------------------------------------------------
(***************************************************************************)
(* The theorems.                                                           *)
(***************************************************************************)
SimInv == TtyType /\ TtyInv /\ SetUpInv /\ LoopInv

LEMMA InitInv == Init => SimInv
<1> SUFFICES ASSUME Init PROVE SimInv
  OBVIOUS
<1>1. TtyType /\ TtyInv
  <2>1. run \in Runs /\ run.tty \in Terminals
    BY SimAssumption DEF Init
  <2>2. tty = run.tty /\ termios_changed = FALSE /\ at_exit = FALSE
    BY DEF Init
  <2>3. TtyType
    BY <2>1, <2>2 DEF TtyType
  <2>4. TtyInv
    BY DEF Init, TtyInv, TerminalRestored, AsFound, Running
  <2> QED
    BY <2>3, <2>4
<1>2. SetUpInv
  BY DEF Init, NewHart, SetUpInv, HartType, EnvInv, ConfigInv, HartInv, LoopReady,
         Construction, Prepared
<1>3. 0 \in 0 .. 2^Width - 1
  <2>1. run.cycles \in 0 .. 2^Width - 1 /\ 2^Width \in Int
    BY SimAssumption DEF Init
  <2> QED
    BY <2>1
<1>4. LoopInv
  <2>1. cycles = 0 /\ half_cycle = 0 /\ edges = 0
    BY DEF Init
  <2>2. clk \in BOOLEAN /\ ~clk
    BY DEF Init
  <2>3. LoopCount
    BY <1>3, <2>1, <2>2 DEF LoopCount
  <2> QED
    BY <2>1, <2>3 DEF Init, LoopInv, LoopOnTime, Running
<1> QED
  BY <1>1, <1>2, <1>4 DEF SimInv

LEMMA SimAlways == Spec => []SimInv
<1>1. SimInv /\ [Next]_vars => SimInv'
  <2> SUFFICES ASSUME SimInv, [Next]_vars PROVE SimInv'
    OBVIOUS
  <2>1. CASE Next
    BY <2>1, TtyStep, SetUpStep, LoopStep DEF SimInv, TtyType
  <2>2. CASE UNCHANGED vars
    <3>1. UNCHANGED <<at, run, tty, old_setting, termios_changed, handlers, at_exit, exit>>
      BY <2>2 DEF vars, ttyVars
    <3>2. UNCHANGED <<at, run, envVars, refVars>>
      BY <2>2 DEF vars
    <3>3. UNCHANGED <<at, cycles, half_cycle, clk, edges, loop, exit>>
      BY <2>2 DEF vars, loopVars
    <3>4. TtyType' /\ TtyInv'
      BY <3>1 DEF SimInv, TtyType, TtyInv, TerminalRestored, AsFound, Running
    <3>5. SetUpInv'
      BY <3>2, SetUpUntouched DEF SimInv
    <3>6. LoopInv'
      BY <3>3 DEF SimInv, LoopInv, LoopCount, LoopOnTime, EndsOnTime, EndsByLimit, Running, signed
    <3> QED
      BY <3>4, <3>5, <3>6 DEF SimInv
  <2> QED
    BY <2>1, <2>2
<1> QED
  BY <1>1, InitInv, PTL DEF Spec

\* However main returns, and whichever handled signal comes between whichever
\* two steps, the terminal is left in the mode it was found in.
THEOREM TerminalIsRestored == Spec => []TerminalRestored
<1>1. SimInv => TerminalRestored
  BY DEF SimInv, TtyInv
<1> QED
  BY <1>1, SimAlways, PTL

\* The loop starts only from a complete set-up, whatever Whisper ignored: the
\* constructor's order of calls and its read-backs see to it.
THEOREM LoopIsReady == Spec => []LoopReady
<1>1. SimInv => LoopReady
  BY DEF SimInv, SetUpInv, HartInv
<1> QED
  BY <1>1, SimAlways, PTL

\* A loop that ends by its limit has clocked the core for exactly as many
\* cycles as the limit says, for every width of the counters.
THEOREM LoopIsOnTime == Spec => []LoopOnTime
<1>1. SimInv => LoopOnTime
  BY DEF SimInv, LoopInv
<1> QED
  BY <1>1, SimAlways, PTL
=============================================================================
