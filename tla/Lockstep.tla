------------------------------ MODULE Lockstep ------------------------------
(***************************************************************************)
(* The lockstep loop of tb_verilator.cpp.  Every rising edge of the clock  *)
(* the harness samples the core's ports, takes note of traps, and for each *)
(* retirement steps the reference and compares the two.                    *)
(*                                                                         *)
(* phase follows the loop body: "eval" (dut->eval()), "observe" (UART,     *)
(* exception, interrupt and MTIMER events), "step" (the attempts of        *)
(* WhisperRef::step), "compare" (re-arming, compare_commit, stop order),   *)
(* "ended" (exit code) and "thrown" (an exception of WhisperRef).          *)
(***************************************************************************)
EXTENDS WhisperRef

CONSTANTS
  StopOrder,   \* +LOCKSTEP_STOP_ORDER
  MaxRetire,   \* bound on the retirements of a core that is never compared
  PassToken    \* kBusyboxPassToken, a sequence of characters

VARIABLES
  phase,
  rtl_order,   \* rtl_retire_order
  started,     \* lockstep_started
  failed,      \* lockstep_failed
  finish,      \* Verilated::gotFinish()
  order,       \* compared_order
  mtimer,      \* lockstep_mtimer_pending with its pc and inst, or None
  seip,        \* lockstep_seip_pending with its pc and inst, or None
  window,      \* lockstep_uart_window
  attempt,     \* of WhisperRef::step
  exit,        \* exit code or None
  retired,     \* history: retirements seen since comparison started
  bad_seen,    \* history: a wrong retirement has been compared
  deferred,    \* history: exceptions the reference has still to take
  limits       \* history: which known limit of the harness was met

tbVars == <<phase, rtl_order, started, failed, finish, order, mtimer, seip, window, attempt, exit>>
histVars == <<retired, bad_seen, deferred, limits>>
vars == <<rtlVars, ref, tbVars, histVars>>

(***************************************************************************)
(* compare_commit and its conversions, bytes scaled to bits: a mask is the *)
(* set of byte lanes.                                                      *)
(***************************************************************************)
value_mask_for_size(size) == 2^size - 1
first_set_lane(mask) ==
  IF mask = {} THEN 0 ELSE CHOOSE l \in mask : \A k \in mask : l <= k
size_from_byte_mask(mask) ==
  IF Cardinality(mask) \in {1, 2, 4, 8} THEN Cardinality(mask) ELSE 0

\* x & (2^k - 1)
Masked(x, m) == x % (m + 1)

normalize_rtl_store_data(data, mask) ==
  LET size == size_from_byte_mask(mask)
  IN  IF size = 0 THEN data
      ELSE Masked(data \div 2^first_set_lane(mask), value_mask_for_size(size))

\* The comparison without the physical address, and the whole of it.
IgnoresPa(c, r) ==
  /\ c.pc = r.pc /\ c.priv = r.priv
  /\ c.rd_we = r.rd_we
  /\ c.rd_we => c.rd = r.rd /\ c.rd_data = r.rd_data
  /\ c.mem_valid = r.mem_valid
  /\ c.mem_valid => c.mem_write = r.mem_write /\ c.va = r.va
  /\ c.mem_valid /\ c.mem_write =>
       LET m == value_mask_for_size(r.size)
       IN  /\ size_from_byte_mask(c.mask) = r.size
           /\ Masked(normalize_rtl_store_data(c.data, c.mask), m) = Masked(r.data, m)
compare_commit(c, r) ==
  /\ c.pc = r.pc
  /\ c.priv = r.priv
  /\ c.rd_we = r.rd_we
  /\ c.rd_we => c.rd = r.rd /\ c.rd_data = r.rd_data
  /\ c.mem_valid = r.mem_valid
  /\ c.mem_valid =>
       /\ c.mem_write = r.mem_write
       /\ c.va = r.va
       /\ c.pa = r.pa
       /\ c.mem_write => size_from_byte_mask(c.mask) = r.size
       /\ c.mem_write /\ r.mem_write =>
            LET m == value_mask_for_size(r.size)
            IN  Masked(normalize_rtl_store_data(c.data, c.mask), m) = Masked(r.data, m)

(***************************************************************************)
(* The events of an edge.                                                  *)
(***************************************************************************)

\* The window keeps the last Len(PassToken) characters.
push_window(w, ch) ==
  LET v == Append(w, ch)
  IN  IF Len(v) > Len(PassToken) THEN SubSeq(v, Len(v) - Len(PassToken) + 1, Len(v)) ELSE v

uart_event ==
  /\ window' = IF out.uart = None THEN window ELSE push_window(window, out.uart)
  /\ finish' = (finish \/ out.finish \/ (out.uart # None /\ window' = PassToken))

can_sync_exception ==
  started /\ out.retire = None /\ mtimer = None /\ seip = None /\ ref.h.pc = out.expt.pc

\* An accepted interrupt waits for the next retirement that is not on this
\* edge.
pending(event) == [pc |-> event.pc, inst |-> event.inst]
ASSUME PendingAssumption == None \notin [pc : Int, inst : Insts]
seip_event == out.intr # None /\ out.intr.cause = SEI
mtimer_event == out.intr # None /\ out.intr.cause = MTI

\* How many traps of the core the reference has still to take.
Injections == (IF mtimer # None THEN 1 ELSE 0) + (IF seip # None THEN 1 ELSE 0)
Outstanding == deferred + Injections

\* The limits that come with a trap: an interrupt accepted before an earlier
\* trap has reached the reference, and an exception reported as an interrupt
\* that is injected.
LimitsMet(outstanding) ==
  (IF out.took = "interrupt" /\ outstanding > 0 THEN {"order"} ELSE {})
    \cup (IF out.took = "exception" /\ (seip_event \/ mtimer_event) THEN {"pulse"} ELSE {})

Throw == phase' = "thrown"

(***************************************************************************)
(* The loop body.                                                          *)
(***************************************************************************)
\* The condition that ends the loop (or, that forgets $finish and the stop).
OverOnFailure == failed
LoopOver == finish \/ failed

\* An SRET executed in M-mode is a limit too: the trace says it ran in S-mode.
Eval ==
  /\ phase = "eval" /\ ~LoopOver
  /\ phase' = "observe"
  /\ limits' = limits \cup (IF wb' # None /\ InMem.op = "sret" /\ rtl.mode = ModeM
                            THEN {"sret"} ELSE {})
  /\ UNCHANGED <<ref, rtl_order, started, failed, finish, order, mtimer, seip, window, attempt,
                 exit, retired, bad_seen, deferred>>

EvalBubble == Bubble /\ Eval
EvalProgress == rtl_order < MaxRetire /\ Progress /\ Eval

\* No retirement on this edge: a trap owns the boundary at once.
ObserveTrap ==
  /\ phase = "observe" /\ out.retire = None
  /\ uart_event
  /\ LET synced == out.expt # None /\ can_sync_exception
     IN  /\ IF synced
            THEN \E r \in step_non_retiring_trap(ref) :
                   /\ ref' = r
                   /\ IF non_retiring_event(r) THEN phase' = "eval" ELSE Throw
            ELSE phase' = "eval" /\ UNCHANGED ref
         /\ deferred' = IF out.took = "exception" /\ ~synced THEN deferred + 1 ELSE deferred
  /\ seip' = IF seip_event THEN pending(out.intr) ELSE seip
  /\ mtimer' = IF mtimer_event THEN pending(out.intr) ELSE mtimer
  /\ limits' = limits \cup LimitsMet(Outstanding)
  /\ UNCHANGED <<rtlVars, rtl_order, started, failed, order, attempt, exit, retired, bad_seen>>

\* A retirement: comparison starts at the OpenSBI entry.  More traps than step()
\* makes attempts are a limit.
ObserveRetire ==
  /\ phase = "observe" /\ out.retire # None
  /\ uart_event
  /\ rtl_order' = rtl_order + 1
  /\ started' = (started \/ out.retire.pc = StartPc)
  /\ IF started'
     THEN phase' = "step" /\ order' = order + 1 /\ retired' = retired + 1
     ELSE phase' = "eval" /\ UNCHANGED <<order, retired>>
  /\ attempt' = 0
  /\ limits' = limits \cup (IF started' /\ Outstanding >= kMaxNonRetiringSteps
                            THEN {"attempts"} ELSE {})
  /\ UNCHANGED <<rtlVars, ref, failed, mtimer, seip, exit, bad_seen, deferred>>

\* One attempt of WhisperRef::step, repeated while it only enters a trap.
kWfiInstruction == "wfi"
inject_from_wfi ==
  \/ mtimer # None /\ mtimer.inst.op = kWfiInstruction
  \/ seip # None /\ seip.inst.op = kWfiInstruction
inject_epc ==
  IF mtimer # None THEN mtimer.pc + 1 ELSE IF seip # None THEN seip.pc + 1 ELSE 1

StepAttempt ==
  /\ phase = "step"
  /\ \/ /\ \/ attempt >= kMaxNonRetiringSteps
           \/ is_mmio_read(out.retire) /\ scalar_load_size(out.retire.inst) = 0
        /\ Throw /\ UNCHANGED <<ref, attempt, limits>>
     \/ /\ attempt < kMaxNonRetiringSteps
        /\ is_mmio_read(out.retire) => scalar_load_size(out.retire.inst) # 0
        /\ \E r \in attempt_step(ref, out.retire, mtimer # None, seip # None) :
             IF non_retiring_event(r)
             THEN /\ ref' = synchronize_wfi_epc(r, inject_from_wfi, inject_epc)
                  /\ attempt' = attempt + 1
                  /\ limits' = IF r.retired THEN limits \cup {"vector"} ELSE limits
                  /\ UNCHANGED phase
             ELSE /\ ref' = synchronize_time(r, out.retire)
                  /\ IF time_sync_fails(r, out.retire) THEN Throw ELSE phase' = "compare"
                  /\ UNCHANGED <<attempt, limits>>
  /\ UNCHANGED <<rtlVars, rtl_order, started, failed, finish, order, mtimer, seip, window, exit,
                 retired, bad_seen, deferred>>

\* Consume the injections, arm those of this edge, compare, stop.
Compare ==
  /\ phase = "compare"
  /\ mtimer' = IF mtimer_event THEN pending(out.intr) ELSE None
  /\ seip' = IF seip_event THEN pending(out.intr) ELSE None
  /\ failed' = ~compare_commit(out.retire, RefCommit(ref))
  /\ finish' = (finish \/ (~failed' /\ order >= StopOrder))
  /\ phase' = "eval"
  /\ bad_seen' = (bad_seen \/ out.retire.bad)
  /\ deferred' = IF out.took = "exception" THEN 1 ELSE 0
  /\ limits' = limits \cup LimitsMet(0)
  /\ UNCHANGED <<rtlVars, ref, rtl_order, started, order, window, attempt, exit, retired>>

\* The loop ends: finish, failure or, at any time, the cycle limit.
ExitCode == IF failed THEN 2 ELSE IF ~started THEN 3 ELSE 0
End ==
  /\ phase = "eval"
  /\ phase' = "ended" /\ exit' = ExitCode
  /\ UNCHANGED <<rtlVars, ref, rtl_order, started, failed, finish, order, mtimer, seip, window,
                 attempt, histVars>>

Init ==
  /\ RtlInit
  /\ RefInit
  /\ phase = "eval" /\ rtl_order = 0 /\ started = FALSE /\ failed = FALSE /\ finish = FALSE
  /\ order = 0 /\ mtimer = None /\ seip = None /\ window = <<>> /\ attempt = 0
  /\ exit = None
  /\ retired = 0 /\ bad_seen = FALSE /\ deferred = 0 /\ limits = {}

Next ==
  EvalBubble \/ EvalProgress \/ ObserveTrap \/ ObserveRetire \/ StepAttempt \/ Compare \/ End

Spec == Init /\ [][Next]_vars

\* The harness is one thread that runs; the core, whose memory answers, keeps
\* completing or trapping however often it stalls.
FairSpec ==
  /\ Spec
  /\ WF_vars(ObserveTrap \/ ObserveRetire \/ StepAttempt \/ Compare)
  /\ WF_vars(LoopOver /\ End)
  /\ SF_vars(EvalProgress)

(***************************************************************************)
(* Properties                                                              *)
(***************************************************************************)

\* The run has met none of the limits and the core has reported no error.
Clean == ~corrupted /\ limits = {}

\* When the reference has been stepped for a retirement (WhisperRef::step has
\* returned), its whole architectural state, the CSRs that are never compared
\* included, is that of the core behind the retired instruction: no trap was
\* taken twice, skipped or taken at another instruction.
Aligned == phase = "compare" /\ Clean => ref.h = out.retire.after

\* A core that reports no error is neither failed nor lost by an exception of
\* WhisperRef.cpp, whatever the order of stalls, retirements, exceptions and
\* interrupts, unless one of the limits was met.
NoFalseAlarm == failed \/ phase = "thrown" => ~Clean

\* Exit code 0 ("[LOCKSTEP] PASS") means that comparison started, that every
\* retirement seen since was compared and, the limits aside, that none of them
\* was wrong.
PassIsHonest ==
  exit = 0 => started /\ order = retired /\ retired > 0 /\ (bad_seen => limits # {})

\* With a stop order every run whose comparison has started comes to its end.
RunEnds == started ~> (phase \in {"ended", "thrown"})

\* tb_verilator.cpp: an injection is consumed by the next step, which performs
\* the matching interrupt transition; so a correct core passes.
InjectionMatches ==
  failed \/ phase = "thrown" => corrupted \/ limits \ {"order"} # {}
=============================================================================
