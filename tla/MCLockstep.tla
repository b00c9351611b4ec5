----------------------------- MODULE MCLockstep -----------------------------
(***************************************************************************)
(* Programs for the lockstep harness.  A boot ROM of two instructions, two *)
(* instructions of firmware that enter S-mode, then the program; the trap  *)
(* handlers read the return address, so that a trap taken at the wrong     *)
(* instruction shows.                                                      *)
(***************************************************************************)
EXTENDS Lockstep, TLC

MCRanges == {[base |-> 16, size |-> 8]}
Dev == 0    \* virtual address of a device word, 16 physical
Ram == 8    \* virtual address of the RAM word, 24 physical

Firmware ==
  50 :> Inst("li", BootX) @@ 51 :> Inst("jump", StartPc)
    @@ 1 :> Inst("setup", 3) @@ 2 :> Inst("mret", 0)
Vectored == [base |-> 20, vectored |-> TRUE]
Direct == [base |-> 20, vectored |-> FALSE]
SVectored == [base |-> 32, vectored |-> TRUE]
SDirect == [base |-> 32, vectored |-> FALSE]

\* Exceptions skip the instruction, interrupts return to it.
VectoredHandlers ==
  20 :> Inst("skipm", 0) @@ 21 :> Inst("mret", 0)
    @@ 27 :> Inst("rdmepc", 0) @@ 28 :> Inst("mret", 0)
    @@ 32 :> Inst("skips", 0) @@ 33 :> Inst("sret", 0)
    @@ 41 :> Inst("rdsepc", 0) @@ 42 :> Inst("sret", 0)
DirectHandlers ==
  20 :> Inst("rdmepc", 0) @@ 21 :> Inst("mret", 0)
    @@ 32 :> Inst("rdsepc", 0) @@ 33 :> Inst("sret", 0)

Program(code, handlers, m, s) ==
  [code |-> code @@ Firmware @@ handlers, mtvec |-> m, stvec |-> s]

\* Traps: calls, an illegal instruction left to S-mode, WFI, arithmetic.
TrapProgram ==
  Program(3 :> Inst("illegal", 0) @@ 4 :> Inst("ecall", 0) @@ 5 :> Inst("wfi", 0)
            @@ 6 :> Inst("alu", 0) @@ 7 :> Inst("jump", 3),
          VectoredHandlers, Vectored, SVectored)

\* The first instruction of the external interrupt's handler traps.
NestedProgram ==
  Program(3 :> Inst("wfi", 0) @@ 4 :> Inst("jump", 3) @@ 41 :> Inst("ecall", 0)
            @@ 42 :> Inst("rdsepc", 0) @@ 43 :> Inst("sret", 0),
          VectoredHandlers, Vectored, SVectored)

\* A handler's first instruction traps, and that of the trap it enters: two
\* traps or, behind an interrupt, three before an instruction retires.
DeepProgram ==
  Program(3 :> Inst("illegal", 0) @@ 4 :> Inst("jump", 3) @@ 32 :> Inst("ecall", 0)
            @@ 33 :> Inst("skips", 0) @@ 34 :> Inst("sret", 0) @@ 41 :> Inst("illegal", 0),
          VectoredHandlers, Vectored, SVectored)

\* Firmware that leaves M-mode with SRET.
SretProgram ==
  Program(1 :> Inst("skips", 0) @@ 2 :> Inst("sret", 0), VectoredHandlers, Vectored, SVectored)

\* The handlers of both modes at one address, whatever the cause.
DirectProgram ==
  Program(3 :> Inst("wfi", 0) @@ 4 :> Inst("illegal", 0) @@ 5 :> Inst("jump", 3),
          DirectHandlers, Direct, SDirect)

\* Memory and devices: stores, AMOs and loads of every alignment, TIME.
MemProgram ==
  Program(3 :> MemInst("store", 8, Ram, 0) @@ 4 :> MemInst("amo", 4, Ram + 4, 0)
            @@ 5 :> MemInst("load", 2, Ram + 4, 0) @@ 6 :> MemInst("load", 1, Dev + 7, 0)
            @@ 7 :> MemInst("store", 2, Ram + 3, 0) @@ 8 :> Inst("time", 0)
            @@ 9 :> MemInst("loadu", 4, Dev + 4, 0) @@ 10 :> Inst("jump", 5),
          VectoredHandlers, Vectored, SVectored)

\* The S-mode payload of opensbi_payload.c: SBI calls, whose firmware here
\* prints, then the write that ends the simulation, then WFI for ever.
sbi_call == Inst("ecall", 0)
sim_exit_success == MemInst("exit", 8, Dev, 1)
payload_main ==
  3 :> sbi_call @@ 4 :> sbi_call @@ 5 :> sim_exit_success
    @@ 6 :> Inst("wfi", 0) @@ 7 :> Inst("jump", 6)
PayloadProgram ==
  Program(payload_main @@ 20 :> MemInst("putc", 1, Dev, 0) @@ 21 :> Inst("skipm", 0)
            @@ 22 :> Inst("mret", 0),
          VectoredHandlers, Vectored, SVectored)

\* Output that contains the token behind a false start.
TokenProgram ==
  Program(3 :> MemInst("putc", 1, Dev, 1) @@ 4 :> MemInst("putc", 1, Dev, 1)
            @@ 5 :> MemInst("putc", 1, Dev, 0) @@ 6 :> Inst("jump", 3),
          VectoredHandlers, Vectored, SVectored)

MCPrograms ==
  {TrapProgram, NestedProgram, DeepProgram, SretProgram, DirectProgram, MemProgram,
   PayloadProgram, TokenProgram}
MCToken == <<1, 0>>
=============================================================================
