------------------------------ MODULE RtlTrace ------------------------------
(***************************************************************************)
(* What the simulated core shows the lockstep harness: core.sv's retire    *)
(* trace and trap pulses.  An instruction takes effect in MEM and retires  *)
(* from WB on the next clock edge; a trap is taken, and its pulse given, in*)
(* MEM.  One edge can therefore show an older instruction retiring and a   *)
(* younger one trapping.                                                   *)
(*                                                                         *)
(* Interrupt levels, device data and the TIME counter are inputs.  A       *)
(* retirement may be reported wrongly once: the errors of the core that the*)
(* comparison is for.                                                      *)
(***************************************************************************)
EXTENDS Hart, Sequences, FiniteSets

CONSTANTS
  Programs,    \* code, mtvec and stvec, one of which a run executes
  ResetPc,     \* where the boot ROM starts
  BootEnd,     \* its last instruction
  BootX,       \* what the boot ROM leaves in x
  RamBase,     \* physical address of the RAM word
  DeviceWords, \* words a device may answer with
  Times,       \* values of the TIME counter
  MaxIrqs,     \* how many interrupts the core accepts in a run
  Errors,      \* fields of a retirement the core may get wrong
  None         \* no retirement, no event

VARIABLES
  prog,        \* the program that runs
  rtl,         \* architectural state behind the instruction in MEM
  wb,          \* the WB stage: a retirement or None
  out,         \* the ports the harness samples after the edge
  txq,         \* characters on their way to the UART
  irqs,        \* interrupts accepted
  corrupted    \* a retirement has been reported wrongly

rtlVars == <<prog, rtl, wb, out, txq, irqs, corrupted>>

IsRam(i) == IsMem(i) /\ Pa(i) >= RamBase

\* AMOs are made on RAM.
WellFormed(i) == i \in Insts /\ WithinWord(i) /\ (i.op = "amo" => IsRam(i))

\* Code of well-formed instructions; an interrupt's handler in M-mode is not
\* its handler in S-mode.
ASSUME ProgramAssumption ==
  \A p \in Programs :
    /\ DOMAIN p.code \subseteq Int
    /\ \A pc \in DOMAIN p.code : WellFormed(p.code[pc])
    /\ p.mtvec.base \in Int /\ p.stvec.base \in Int
    /\ \A c \in {MTI, SEI} : Vector(p.mtvec, TRUE, c) # Vector(p.stvec, TRUE, c)

ASSUME InputAssumption ==
  RamBase \in Int /\ DeviceWords \subseteq Int /\ Times \subseteq Int

(***************************************************************************)
(* The retirement of instruction i executed in state h, as core.sv reports *)
(* it.  Stores show an unshifted value and mask, AMOs those of the bus.    *)
(***************************************************************************)
retire_arch_store_mask(size) == 0 .. size - 1
retire_store_mask(size, addr) == {l + Lane(addr) : l \in 0 .. size - 1}

retire_priv(h, i) ==
  CASE i.op = "mret" -> ModeM
    [] i.op = "sret" -> ModeS
    [] OTHER         -> h.mode

Retirement(h, i, h2) ==
  [inst |-> i, pc |-> h.pc, priv |-> retire_priv(h, i),
   rd_we |-> WritesRd(i), rd |-> IF WritesRd(i) THEN 1 ELSE 0,
   rd_data |-> IF WritesRd(i) THEN h2.x ELSE 0,
   mem_valid |-> IsMem(i), mem_write |-> IsWrite(i), va |-> i.addr,
   pa |-> IF IsMem(i) THEN Pa(i) ELSE 0,
   mask |-> CASE i.op = "amo" -> retire_store_mask(i.size, i.addr)
              [] IsWrite(i) /\ i.op # "amo" -> retire_arch_store_mask(i.size)
              [] OTHER        -> {},
   data |-> CASE i.op = "amo" -> Insert(h.ram, Lane(i.addr), i.size, Stored(h, i))
              [] IsWrite(i) /\ i.op # "amo" -> Stored(h, i)
              [] OTHER        -> 0,
   after |-> h2, bad |-> FALSE]

Retirements ==
  [inst : Insts, pc : Int, priv : Modes, rd_we : BOOLEAN, rd : Int, rd_data : Int,
   mem_valid : BOOLEAN, mem_write : BOOLEAN, va : Int, pa : Int, mask : SUBSET Int,
   data : Int, after : Harts, bad : BOOLEAN]

\* Where the reference takes the core's value, a wrong one is not an error.
Authoritative(c) == c.inst.op = "time" \/ (IsLoad(c.inst) /\ c.pa < RamBase)

CanErr(c, f) ==
  CASE f = "rd"                       -> c.rd_we
    [] f = "rd_data"                  -> c.rd_we /\ ~Authoritative(c)
    [] f \in {"mem_write", "va", "pa"} -> c.mem_valid
    [] f \in {"mask", "data"}         -> c.mem_write
    [] OTHER                          -> TRUE

ASSUME ErrorsAssumption ==
  Errors \subseteq {"pc", "priv", "rd_we", "rd", "rd_data", "mem_valid", "mem_write", "va", "pa",
                    "mask", "data"}

\* Retirement c with field f wrong.
Wrong(c, f) ==
  LET w == [c EXCEPT !.bad = TRUE] IN
  CASE f = "pc"        -> [w EXCEPT !.pc = @ + 1]
    [] f = "priv"      -> [w EXCEPT !.priv = IF @ = ModeM THEN ModeS ELSE ModeM]
    [] f = "rd_we"     -> [w EXCEPT !.rd_we = ~@, !.rd = 1 - @, !.rd_data = 0]
    [] f = "rd"        -> [w EXCEPT !.rd = 2]
    [] f = "rd_data"   -> [w EXCEPT !.rd_data = (@ + 1) % 2^WordSize]
    [] f = "mem_valid" -> [w EXCEPT !.mem_valid = ~@, !.mem_write = FALSE]
    [] f = "mem_write" -> [w EXCEPT !.mem_write = ~@]
    [] f = "va"        -> [w EXCEPT !.va = @ + 1]
    [] f = "pa"        -> [w EXCEPT !.pa = @ + 1]
    [] f = "mask"      -> [w EXCEPT !.mask = @ \ {CHOOSE l \in @ : TRUE}]
    [] f = "data"      -> [w EXCEPT !.data = (@ + 2^(CHOOSE l \in w.mask : TRUE)) % 2^WordSize]

(***************************************************************************)
(* The ports after an edge: what WB retires, an exception or an interrupt  *)
(* pulse with the pc, the cause and the instruction in MEM, a character    *)
(* that reaches the UART, and $finish.  took, which the core does not show,*)
(* is the trap that was really taken.                                      *)
(***************************************************************************)
Code(pc) == IF pc \in DOMAIN prog.code THEN prog.code[pc] ELSE Inst("illegal", 0)
InMem == Code(rtl.pc)

Pulse(cause) == [pc |-> rtl.pc, cause |-> cause, inst |-> InMem]
Pulses == [pc : Int, cause : Int, inst : Insts]

ASSUME NoneAssumption ==
  None \notin Retirements \cup Pulses \cup Int \cup {"exception", "interrupt"}
Ports(took, expt, intr, finish) ==
  \E sends \in BOOLEAN :
    /\ sends => txq # <<>>
    /\ out' = [retire |-> wb, took |-> took, expt |-> expt, intr |-> intr,
               uart |-> IF sends THEN Head(txq) ELSE None, finish |-> finish]
    /\ LET sent == IF sends THEN Tail(txq) ELSE txq
       IN  txq' = IF InMem.op = "putc" /\ wb' # None THEN Append(sent, InMem.arg) ELSE sent

\* MEM has nothing to complete: a stall or a bubble.
Bubble ==
  /\ wb' = None
  /\ Ports(None, None, None, FALSE)
  /\ UNCHANGED <<prog, rtl, irqs, corrupted>>

\* The instruction in MEM completes; it is in WB at the next edge.
Complete ==
  /\ ExptCause(rtl, InMem) = NoCause
  /\ \E word \in DeviceWords, time \in Times :
       rtl' = Execute(rtl, InMem, IsRam(InMem), IF IsRam(InMem) THEN rtl.ram ELSE word, time)
  /\ LET c == Retirement(rtl, InMem, rtl')
     IN  \/ wb' = c /\ UNCHANGED corrupted
         \/ /\ ~corrupted /\ corrupted' = TRUE
            /\ \E f \in Errors : CanErr(c, f) /\ wb' = Wrong(c, f)
  /\ Ports(None, None, None, InMem.op = "exit")
  /\ UNCHANGED <<prog, irqs>>

\* The instruction in MEM raises an exception, which wins over an interrupt
\* raised in the same cycle; the pulse is then that of an interrupt with the
\* exception's cause (trap_interrupt_o is raise_interrupt alone).
TakeException ==
  /\ ExptCause(rtl, InMem) # NoCause
  /\ rtl' = Exception(rtl, prog, InMem)
  /\ wb' = None
  /\ LET p == Pulse(ExptCause(rtl, InMem))
     IN  \/ Ports("exception", p, None, FALSE)
         \/ /\ \E pend \in SUBSET {MTI, SEI} : IntrEnabled(rtl, pend)
            /\ Ports("exception", None, p, FALSE)
  /\ UNCHANGED <<prog, irqs, corrupted>>

\* An interrupt is taken in place of the instruction in MEM; a WFI counts as
\* done.
TakeInterrupt ==
  /\ irqs < MaxIrqs
  /\ ExptCause(rtl, InMem) = NoCause
  /\ \E pend \in SUBSET {MTI, SEI} :
       /\ IntrEnabled(rtl, pend)
       /\ rtl' = Interrupt(rtl, prog, pend, IF InMem.op = "wfi" THEN rtl.pc + 1 ELSE rtl.pc)
       /\ wb' = None
       /\ Ports("interrupt", None, Pulse(IntrCause(rtl, pend)), FALSE)
  /\ irqs' = irqs + 1
  /\ UNCHANGED <<prog, corrupted>>

Progress == Complete \/ TakeException \/ TakeInterrupt

NoOutput ==
  [retire |-> None, took |-> None, expt |-> None, intr |-> None, uart |-> None, finish |-> FALSE]

RtlInit ==
  /\ prog \in Programs
  /\ rtl = ResetHart(ResetPc, 0)
  /\ wb = None
  /\ out = NoOutput
  /\ txq = <<>>
  /\ irqs = 0
  /\ corrupted = FALSE
=============================================================================
