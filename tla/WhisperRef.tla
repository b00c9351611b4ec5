----------------------------- MODULE WhisperRef -----------------------------
(***************************************************************************)
(* WhisperRef.cpp: the reference simulator behind the interface the harness*)
(* steps it with.  Whisper itself is external: singleStep takes a pending  *)
(* enabled interrupt, or a trap, or executes one instruction, and the      *)
(* trapped/interrupted metadata of a trap may stay set after it (the       *)
(* comment before the trap-vector CSRs are saved in WhisperRef::step).     *)
(* fail() throws; nothing in the harness loop catches it.                  *)
(***************************************************************************)
EXTENDS RtlTrace

CONSTANTS
  StartPc,              \* OpenSBI entry, where the reference starts
  MmioRanges,           \* base and size of ACLINT, PLIC and UART
  kMaxNonRetiringSteps  \* attempts of step() before it gives up

VARIABLE ref

\* Whether an address is in a range.
address_in_range(a, base, size) == a >= base /\ a - base < size
is_rtl_mmio_address(a) == \E r \in MmioRanges : address_in_range(a, r.base, r.size)
scalar_load_size(i) == IF IsLoad(i) THEN i.size ELSE 0
is_time_csr_instruction(i) == i.op = "time"

\* Loads that do not read RAM read a device the harness knows.
ASSUME DeviceAssumption ==
  \A p \in Programs : \A pc \in DOMAIN p.code :
    IsLoad(p.code[pc]) /\ ~IsRam(p.code[pc]) => is_rtl_mmio_address(Pa(p.code[pc]))

ASSUME AttemptsAssumption == kMaxNonRetiringSteps \in Nat

\* bootrom_linux.S: registers are loaded, then control jumps to OpenSBI, which
\* is elsewhere and whose first instruction does not trap.
ASSUME BootAssumption ==
  /\ {ResetPc, BootEnd, StartPc, BootX} \subseteq Int
  /\ ResetPc < BootEnd /\ StartPc \notin ResetPc .. BootEnd + 1
  /\ \A p \in Programs :
       /\ ResetPc .. BootEnd \subseteq DOMAIN p.code /\ StartPc \in DOMAIN p.code
       /\ \A pc \in ResetPc .. BootEnd - 1 : p.code[pc].op = "li"
       /\ p.code[BootEnd - 1].arg = BootX
       /\ p.code[BootEnd].op = "jump" /\ p.code[BootEnd].arg = StartPc
       /\ p.code[StartPc].op \notin {"ecall", "illegal"}

(***************************************************************************)
(* External: the hart of Whisper.  dev is its backing memory for device    *)
(* addresses, mip the interrupt bits the harness drives, retired whether   *)
(* the last step completed an instruction.                                 *)
(***************************************************************************)
Whisper(h) ==
  [h |-> h, dev |-> 0, mip |-> {}, trapped |-> FALSE, interrupted |-> FALSE,
   cause |-> NoCause, retired |-> FALSE, inst |-> Inst("li", 0), before |-> h]

\* An instruction completes; time is what TIME shows, stale whether trap
\* metadata stays set.
retire_step(r, i, time, stale) ==
  [r EXCEPT !.h = Execute(r.h, i, IsRam(i), IF IsRam(i) THEN r.h.ram ELSE r.dev, time),
            !.dev = IF IsWrite(i) /\ ~IsRam(i)
                    THEN Insert(@, Lane(i.addr), i.size, Stored(r.h, i)) ELSE @,
            !.trapped = @ /\ stale, !.interrupted = @ /\ stale,
            !.retired = TRUE, !.inst = i, !.before = r.h]

trap_step(r, i, h, isIntr, cause) ==
  [r EXCEPT !.h = h, !.trapped = ~isIntr, !.interrupted = isIntr, !.cause = cause,
            !.retired = FALSE, !.inst = i, !.before = r.h]

singleStep(r) ==
  LET i == Code(r.h.pc)
      c == ExptCause(r.h, i)
  IN  IF IntrEnabled(r.h, r.mip)
      THEN {trap_step(r, i, Interrupt(r.h, prog, r.mip, r.h.pc), TRUE, IntrCause(r.h, r.mip))}
      ELSE IF c # NoCause
      THEN {trap_step(r, i, Exception(r.h, prog, i), FALSE, c)}
      ELSE {retire_step(r, i, time, stale) : time \in Times, stale \in BOOLEAN}

(***************************************************************************)
(* The interface.                                                          *)
(***************************************************************************)

\* Replaces MTIP and SEIP by the one-shot injections and no other bit.
synchronize_interrupts(r, rtl_mtip, rtl_seip) ==
  [r EXCEPT !.mip = (IF rtl_mtip THEN {MTI} ELSE {}) \cup (IF rtl_seip THEN {SEI} ELSE {})]

\* Whether the step ended in a trap vector with trap metadata set.
trap_target(tvec, r) == Vector(tvec, r.interrupted, r.cause)
entered_mtvec(r) == r.h.pc = trap_target(prog.mtvec, r)
entered_stvec(r) == r.h.pc = trap_target(prog.stvec, r)
non_retiring_event(r) ==
  (r.trapped \/ r.interrupted) /\ (entered_mtvec(r) \/ entered_stvec(r))

\* Seeds the device word a load of the core has read, which the reference
\* cannot know, with the value the core's register shows (or, puts that value
\* always at the word's first byte).
is_mmio_read(c) == c.mem_valid /\ ~c.mem_write /\ is_rtl_mmio_address(c.pa)
SeedsFirstByte(r, c) ==
  IF is_mmio_read(c)
  THEN [r EXCEPT !.dev = Insert(@, 0, scalar_load_size(c.inst), c.rd_data) % 2^WordSize]
  ELSE r
seed_mmio_read(r, c) ==
  IF is_mmio_read(c)
  THEN [r EXCEPT !.dev = Insert(@, Lane(c.pa), scalar_load_size(c.inst), c.rd_data) % 2^WordSize]
  ELSE r

\* The core's EPC of an interrupt taken at a WFI is the address behind it
\* (or, of the WFI itself).
KeepsWfiEpc(r, from_wfi, epc) == r
synchronize_wfi_epc(r, from_wfi, epc) ==
  IF ~(r.interrupted /\ from_wfi) THEN r
  ELSE IF entered_mtvec(r) THEN [r EXCEPT !.h.mepc = epc]
  ELSE [r EXCEPT !.h.sepc = epc]

\* TIME counts the core's clock: the reference takes the core's value.
time_sync_fails(r, c) ==
  /\ is_time_csr_instruction(c.inst)
  /\ ~(c.rd_we /\ c.rd # 0 /\ WritesRd(r.inst) /\ c.rd = 1)
synchronize_time(r, c) ==
  IF is_time_csr_instruction(c.inst) THEN [r EXCEPT !.h.x = c.rd_data] ELSE r

\* The RefCommit of the instruction the last step retired.
RefCommit(r) ==
  LET i == r.inst IN
  [pc |-> r.before.pc, priv |-> r.before.mode,
   rd_we |-> WritesRd(i), rd |-> IF WritesRd(i) THEN 1 ELSE 0,
   rd_data |-> IF WritesRd(i) THEN r.h.x ELSE 0,
   mem_valid |-> IsMem(i), mem_write |-> IsWrite(i), va |-> i.addr,
   pa |-> IF IsMem(i) THEN Pa(i) ELSE 0, size |-> i.size,
   data |-> IF IsWrite(i) THEN Stored(r.before, i) ELSE r.h.x]

\* One attempt of step(): the states of the reference after it.
attempt_step(r, c, rtl_mtip, rtl_seip) ==
  singleStep(seed_mmio_read(synchronize_interrupts(r, rtl_mtip, rtl_seip), c))

\* step_non_retiring_trap(false, false): the trap of an exception pulse.
step_non_retiring_trap(r) == singleStep(synchronize_interrupts(r, FALSE, FALSE))

\* Entry state: OpenSBI's first instruction with the boot registers poked.
RefInit == ref = Whisper(ResetHart(StartPc, BootX))
=============================================================================
