-------------------------------- MODULE Hart --------------------------------
(***************************************************************************)
(* The architectural state of the hart and what an instruction, a trap and *)
(* a trap return do to it: csrunit.sv and the MEM and WB stages of core.sv,*)
(* as far as the retire trace shows them.  The reference simulator Whisper *)
(* executes the same architecture, so RtlTrace and WhisperRef both use     *)
(* these operators.                                                        *)
(*                                                                         *)
(* Data is scaled: a byte of the code is one bit, so a doubleword is a     *)
(* number below 2^8 and a byte lane is a bit position.  An instruction     *)
(* takes one code address.  One general register, x, stands for them all.  *)
(***************************************************************************)
EXTENDS Integers

CONSTANTS
  Medeleg,     \* exception causes handled in S-mode
  Mideleg,     \* interrupt causes handled in S-mode
  PaOffset     \* physical address = virtual address + PaOffset

ModeU == 0
ModeS == 1
ModeM == 3
Modes == {ModeU, ModeS, ModeM}

\* Interrupt causes the harness knows, and no cause.
MTI == 7
SEI == 9
NoCause == 0

WordSize == 8
Lane(addr) == addr % WordSize

\* Translation keeps the byte lane of an address.
ASSUME PaAssumption == PaOffset \in Int /\ PaOffset % WordSize = 0

(***************************************************************************)
(* Instructions: an operation, an access size in bytes, a virtual address  *)
(* and an immediate; fields an operation does not use are 0.               *)
(***************************************************************************)
Ops ==
  {"li", "alu", "load", "loadu", "store", "amo", "putc", "exit", "time", "rdmepc", "rdsepc",
   "jump", "wfi", "ecall", "illegal", "mret", "sret", "setup", "skipm", "skips"}
Insts == [op : Ops, size : Int, addr : Int, arg : Int]
Inst(op, arg) == [op |-> op, size |-> 0, addr |-> 0, arg |-> arg]
MemInst(op, size, addr, arg) == [op |-> op, size |-> size, addr |-> addr, arg |-> arg]

WritesRd(i) ==
  i.op \in {"li", "alu", "load", "loadu", "amo", "time", "rdmepc", "rdsepc"}
IsLoad(i) == i.op \in {"load", "loadu"}
IsWrite(i) == i.op \in {"store", "amo", "putc", "exit"}
IsMem(i) == IsLoad(i) \/ IsWrite(i)
Pa(i) == i.addr + PaOffset

\* Accesses lie within a word, aligned or not; module Lsu has those that do not.
WithinWord(i) ==
  IsMem(i) => i.size \in {1, 2, 4, 8} /\ Lane(i.addr) + i.size <= WordSize

\* The bytes of word w from lane on, and w with those bytes replaced.
Extract(w, lane, size) == (w \div 2^lane) % 2^size
Insert(w, lane, size, v) == w + ((v % 2^size) - Extract(w, lane, size)) * 2^lane
SignExtend(v, size) == IF v >= 2^(size - 1) THEN v + 2^WordSize - 2^size ELSE v

(***************************************************************************)
(* Traps.  An exception is raised by the instruction in MEM; an interrupt  *)
(* is taken in its place if it is enabled in the current mode.             *)
(***************************************************************************)
ExptCause(h, i) ==
  CASE i.op = "ecall"                      -> 8 + h.mode
    [] i.op = "illegal"                    -> 2
    [] i.op = "mret" /\ h.mode # ModeM     -> 2
    [] i.op = "sret" /\ h.mode = ModeU     -> 2
    [] OTHER                               -> NoCause

ExptMode(h, c) == IF h.mode = ModeM \/ c \notin Medeleg THEN ModeM ELSE ModeS

\* What is pending for M-mode comes before what is delegated.
ToM(h, pend) == (h.mode # ModeM \/ h.mie) /\ pend \ Mideleg # {}
ToS(h, pend) ==
  (h.mode = ModeU \/ (h.mode = ModeS /\ h.sie)) /\ pend \cap Mideleg # {}
IntrEnabled(h, pend) == ToM(h, pend) \/ ToS(h, pend)
IntrMode(h, pend) == IF ToM(h, pend) THEN ModeM ELSE ModeS
IntrCause(h, pend) ==
  LET p == IF ToM(h, pend) THEN pend \ Mideleg ELSE pend \cap Mideleg
  IN  IF MTI \in p THEN MTI ELSE SEI

\* tvec is a base and a mode bit: interrupts are vectored, exceptions are not.
Vector(tvec, isIntr, cause) == tvec.base + (IF isIntr /\ tvec.vectored THEN cause ELSE 0)

\* Trap entry: the return address, the cause, the stacked mode and enable.
Trap(h, p, mode, isIntr, cause, epc) ==
  IF mode = ModeM
  THEN [h EXCEPT !.pc = Vector(p.mtvec, isIntr, cause), !.mode = ModeM,
                 !.mepc = epc, !.mcause = <<isIntr, cause>>,
                 !.mpp = h.mode, !.mpie = h.mie, !.mie = FALSE]
  ELSE [h EXCEPT !.pc = Vector(p.stvec, isIntr, cause), !.mode = ModeS,
                 !.sepc = epc, !.scause = <<isIntr, cause>>,
                 !.spp = h.mode, !.spie = h.sie, !.sie = FALSE]

Exception(h, p, i) ==
  LET c == ExptCause(h, i) IN Trap(h, p, ExptMode(h, c), FALSE, c, h.pc)

Interrupt(h, p, pend, epc) ==
  Trap(h, p, IntrMode(h, pend), TRUE, IntrCause(h, pend), epc)

(***************************************************************************)
(* Execution.  word is the word of memory or device the instruction reads, *)
(* time what the TIME counter shows.                                       *)
(***************************************************************************)
Result(h, i, word, time) ==
  CASE i.op = "li"     -> i.arg
    [] i.op = "alu"    -> (h.x + 1) % 2^WordSize
    [] i.op = "loadu"  -> Extract(word, Lane(i.addr), i.size)
    [] i.op \in {"load", "amo"} -> SignExtend(Extract(word, Lane(i.addr), i.size), i.size)
    [] i.op = "time"   -> time
    [] i.op = "rdmepc" -> h.mepc
    [] i.op = "rdsepc" -> h.sepc
    [] OTHER           -> 0

\* What an instruction writes to memory; "amo" is AMOSWAP.
Stored(h, i) == IF i.op \in {"putc", "exit"} THEN i.arg ELSE h.x % 2^i.size

\* Trap returns and writes of CSRs; "setup" is the firmware's way into S-mode.
Csrs(h, i) ==
  CASE i.op = "mret"  -> [h EXCEPT !.mode = h.mpp, !.mie = h.mpie, !.mpie = TRUE, !.mpp = ModeU]
    [] i.op = "sret"  -> [h EXCEPT !.mode = h.spp, !.sie = h.spie, !.spie = TRUE, !.spp = ModeU]
    [] i.op = "setup" -> [h EXCEPT !.mepc = i.arg, !.mpp = ModeS, !.sie = TRUE]
    [] i.op = "skipm" -> [h EXCEPT !.mepc = h.mepc + 1]
    [] i.op = "skips" -> [h EXCEPT !.sepc = h.sepc + 1]
    [] OTHER          -> h

NextPc(h, i) ==
  CASE i.op = "jump" -> i.arg
    [] i.op = "mret" -> h.mepc
    [] i.op = "sret" -> h.sepc
    [] OTHER         -> h.pc + 1

\* isRam says whether the address is RAM, which the hart state holds.
Execute(h, i, isRam, word, time) ==
  [Csrs(h, i) EXCEPT
     !.pc = NextPc(h, i),
     !.x = IF WritesRd(i) THEN Result(h, i, word, time) ELSE @,
     !.ram = IF IsWrite(i) /\ isRam
             THEN Insert(@, Lane(i.addr), i.size, Stored(h, i)) ELSE @]

(***************************************************************************)
(* The states of a hart, and the one after reset.                          *)
(***************************************************************************)
Harts ==
  [pc : Int, mode : Modes, mepc : Int, sepc : Int,
   mcause : BOOLEAN \X Int, scause : BOOLEAN \X Int,
   mpp : Modes, spp : Modes, mie : BOOLEAN, mpie : BOOLEAN,
   sie : BOOLEAN, spie : BOOLEAN, x : Int, ram : Int]
ResetHart(pc, x) ==
  [pc |-> pc, mode |-> ModeM, mepc |-> 0, sepc |-> 0,
   mcause |-> <<FALSE, NoCause>>, scause |-> <<FALSE, NoCause>>,
   mpp |-> ModeU, spp |-> ModeU, mie |-> FALSE, mpie |-> FALSE,
   sie |-> FALSE, spie |-> FALSE, x |-> x, ram |-> 0]
=============================================================================
