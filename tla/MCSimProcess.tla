---------------------------- MODULE MCSimProcess ----------------------------
(***************************************************************************)
(* Ways to build and call the simulator.                                   *)
(***************************************************************************)
EXTENDS SimProcess

Terminal(mode, nonblock) == [mode |-> mode, vmin0 |-> mode = "raw", nonblock |-> nonblock]
Envs == [rom : {"unset", "other"}, ram : {"unset", "other"}]

Run(build, files, bad, n, stdin, typing, t, opensbi, images, e) ==
  [build |-> build, files |-> files, bad_number |-> bad, cycles |-> n, stdin |-> stdin,
   typing |-> typing, tty |-> t, opensbi |-> opensbi, images |-> images, env |-> e]
NoEnv == [rom |-> "unset", ram |-> "unset"]

\* Interactive runs on a terminal an earlier run may have left raw, a pipe or
\* a file, with and without something to read.
InputRuns ==
  {Run({"input"}, 2, FALSE, n, i, y, Terminal(m, b), FALSE, FALSE, NoEnv) :
     n \in {0, 2}, i \in {"tty", "pipe", "eof"}, y \in BOOLEAN, m \in {"cooked", "raw"},
     b \in BOOLEAN}

\* Runs of every other build with every cycle count of Width bits.
CycleRuns ==
  {Run(b, 2, FALSE, n, "eof", FALSE, Terminal("cooked", FALSE), TRUE, TRUE, NoEnv) :
     b \in SUBSET {"lockstep", "test"}, n \in 0 .. 2^Width - 1}

\* Lockstep runs from every environment, and wrong command lines.
SetUpRuns ==
  {Run({"lockstep"}, 2, FALSE, 1, "eof", FALSE, Terminal("cooked", FALSE), o, i, e) :
     o \in BOOLEAN, i \in BOOLEAN, e \in Envs}
WrongRuns ==
  {Run({"input"}, f, b, 0, "tty", FALSE, Terminal("cooked", FALSE), FALSE, FALSE, NoEnv) :
     f \in {1, 2}, b \in BOOLEAN}

MCRuns == InputRuns \cup CycleRuns \cup SetUpRuns \cup WrongRuns
=============================================================================
