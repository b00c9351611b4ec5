# TLA+ models of MiNTs-CPU and its lockstep harness

MiNTs-CPU is an in-order RV64IMAC core with its SoC, written in SystemVerilog,
and a C++ harness that simulates it with Verilator and compares every retired
instruction with the reference simulator Whisper. This directory holds TLA+
models of the parts of both that are hard to test, the TLC runs that check them
and the TLAPS proofs about them. Paths below are relative to the repository's
root (`rtl/cache/dcache.sv`, `tb/tb_verilator.cpp`).

The hardware is modelled one step per clock cycle: the registers are the
variables, the combinational signals are operators over them, and a nonblocking
assignment is a primed variable. The harness is modelled one action per part of
its loop body, the process one action per call that can fail or be interrupted.

## 1. Inventory

How a data access travels:

```
 core.sv (MEM stage) -> memunit.sv -> dcache.sv -> amounit.sv --+
                          |  (translation, PTW)                 | top.sv mux
 inst_fetcher.sv -> icache.sv ----------------------------------+
                                                                v
                                         mmio_controller.sv -> ROM, debug, ACLINT,
                                           |                    PLIC, UART, DMA regs
                                           v
                       dma.sv ------> ram_arbiter.sv -> memory.sv
```

| Component | State | Operations | What makes it correct |
|---|---|---|---|
| Data cache, store buffer (`rtl/cache/dcache.sv`) | lines (valid, dirty, tag, data), FSM, saved request, fill, write-back and flush registers, ring of stores | accept load / store / bypass / atomic, drain, fill, write back, invalidate, flush scan, fast load | a load returns the last store; no store is lost; bypasses are ordered; a flush publishes memory; everything completes |
| Load/store unit (`src/memunit.sv`) | FSM, request registers, owner of the outstanding answer | start, translate, access, split access, fault, discard | one answer per access, abandoned answers are not misused, no partial store before a fault |
| Atomic unit (`src/amounit.sv`) | FSM, saved request, reservation, fetched and written word | load, store, LR, SC, AMO, reservation clear | each request looks indivisible; SC succeeds only with its reservation |
| I/D multiplexer (`src/top.sv`) | owner of the outstanding request | grant | the answer goes to the asker |
| MMIO controller (`src/mmio_controller.sv`) | one saved request, issued flag | accept, issue, complete | every request is answered once |
| RAM arbiter, RAM (`src/ram_arbiter.sv`, `src/memory.sv`) | owner, write pipeline | grant, read, two-step write | a read sees all granted writes; no starvation |
| DMA (`src/dma.sv`) | registers, status, copy FSM | program, start, clear, read, write, finish | the copy is right, contained, ends and is reported honestly |
| Instruction cache and fetcher (`rtl/cache/icache.sv`, `src/inst_fetcher.sv`) | lines, fetch FSM, queues | fetch, fill, prefetch, redirect, fence.i | instructions of a stale path are dropped; fence.i makes earlier stores visible |
| Translation (`rtl/mmu/*.sv`, `src/sv39_ptw.sv`) | TLB entries, walk FSM | lookup, walk, refill, flush | no stale translation after a flush |
| CSRs and traps (`src/csrunit.sv`) | CSRs, privilege | read, write, trap, return, interrupt | at most one trap per instruction, delegation and priority |
| UART, PLIC, ACLINT | registers, FIFO, pending bits, timer | register accesses, host input, claim, complete | no interrupt is lost or stuck |
| PMP, mul/div, ALU, decoder, RVC | none or one operation | compute | equals the reference definition |
| Lockstep loop (`tb/tb_verilator.cpp`) | orders, pending injections, UART window, failed and finished flags | sample an edge, arm and consume injections, step, compare, stop | a correct core passes, a wrong one does not, the run ends |
| Whisper reference (`tools/whisper_lockstep/WhisperRef.cpp`) | a Whisper system and hart | configure, load, reset, step, step over a trap, synchronise interrupts, MMIO, WFI and TIME | it is where the core is, after every retirement |
| Simulation process (`main` of `tb/tb_verilator.cpp`) | terminal settings, handlers, environment, cycle count | set up, run, return, handle signals | the terminal is restored, the set-up is complete, a limit is kept |

The hard behaviours are cycle-level races: two blocks that update the same
register in one cycle (drain and enqueue), an event in the one cycle in which a
state machine is frozen (`invalidate`), answers of a request that has been
replaced, stale copies (cache against buffer against memory), arbitration under
load. In the harness they are two executions that have to meet at the same
instruction although traps retire nothing, and a process that a signal or a
failing call may stop between any two steps. There is no crash recovery and no
message loss: the buses are synchronous and answer once. `PROJECT.json` lists
the hazards at their lines.

## 2. Plan

Done, in this order: `DCache` with its proofs; `AmoUnit`, which implements
`AtomicPort`; `MemBus` with `Dma`; `Uart`, `Plic` and their composition
`IrqPath`; `Lsu`, the whole of `memunit.sv` with the MEM stage; the lockstep
harness, composed of `Hart`, `RtlTrace`, `WhisperRef` and `Lockstep`;
`SimProcess`; then the proofs about `AmoUnit`, `Uart`, `Plic`, `IrqPath`,
`MemBus`, `SimProcess`, `Lsu` and the lockstep harness.

Left:

1. `Icache`, fetcher, and `FenceI`, which composes the instruction side with the
   store buffer: does the fetch after `fence.i` see earlier stores although
   low-priority drains lose against fetches (`src/top.sv:265`)?
2. `Tlb`, `Translation`, `Ptw`: flush against a walk under way.
3. `Aclint`; the CSR accesses of `csrunit.sv`.
4. Pure algorithms: PMP matching, multiplier and divider, against references.

Every safety property that a run of the existing modules checks and expects to
hold is proved (section 5); what remains there is liveness.

## 3. Models

### DCache (`DCache.tla`, `MCDCache.tla`)

One step, `Clock(rv, flush, wr)`, is a clock cycle. `rv` says whether the memory
port answers in this cycle, `flush` is `invalidate` and `wr` says whether the
atomic the port performs writes. It conjoins

* `Cache`: one action per branch of the `always_ff` block: `Invalidate`,
  `IdleWait`, `AcceptLoadHit`, `AcceptLoadMiss`, `AcceptStore`,
  `AcceptAmoDirty`, `AcceptBypass`, `LoadFillReq`, `LoadFillWait`,
  `WritebackReq`, `FlushScan`, `BypassReq`, `BypassWait`, `Response`;
* `StoreBuffer`: head, tail, count and entries, with drain and enqueue possible
  in the same cycle; the combinational signals (`cpu_ready`,
  `store_buffer_issue_valid`, `fast_load_hit`, ...) keep the code's names;
* `Lsu`: what `memunit.sv` and the MEM stage of `core.sv` do at the cpu port. An
  access is never withdrawn once started, because interrupts are taken only in
  an instruction's first MEM cycle (`can_intr` is `mems_is_new`). A flush comes
  from an `sfence.vma` or satp access, which raises `translation_flush` for one
  cycle while no access is under way, and then redirects the pipeline;
* `MemPort`: the contract of `amounit.sv`, shown separately by `AmoUnit`. One
  request is outstanding, the port is ready when idle or in the cycle of the
  answer, and every request is answered, after any number of cycles;
* `History`: `arch` is the memory as the program wrote it, `owed` counts device
  requests accepted but not handed over.

Data are abstracted: a word is a function from byte lanes to values, a mask is a
set of lanes, an address is `<<tag, index, word>>`. Both values of `WRITE_BACK`
are covered by the constant `WriteBack`. `saved_*` is recorded only on the
bypass path, the only one that reads it. Page-table reads are slow loads.
In write-back mode an atomic on a dirty line is really handed to the port twice
(once in the cycle that starts the write-back): the model keeps that, and the
properties show that the first execution leaves no trace.

### AmoUnit (`AmoUnit.tla`, `AtomicPort.tla`, `AmoAlu.tla`, `MCAmoUnit.tla`)

`AmoUnit` is `amounit.sv`: `Accept` is `accept_request_ff`, which the code
expands in every state that may answer, and the other actions are the FSM
states. In every cycle the cache may present any request or none, the bus may
grant or not, answer or not, and a trap may clear the reservation. `master.rdata`
without `rvalid` is an arbitrary value (`garbage`), because AMOLoadValid computes
a store from it. `AtomicPort` is the specification: a request is taken,
performed in one step and answered; a store-conditional succeeds if the
reservation still stands when it is performed. The refinement mapping makes
"taken" the states before the last memory access and "done" the ones that hold
the answer. `AmoAlu` is the arithmetic on lanes of `LaneWidth` bits.

### Lsu (`Lsu.tla`, `MCLsu.tla`)

`Clock(e)` is a cycle of the MEM stage with its inputs `e`: `memunit` is the
`always_ff` block of `memunit.sv` (`NextState` its FSM, one case per state),
`Stage` is `ex_mem_fifo` and `mems_is_new` of `core.sv`, and `raise_trap` what
`csrunit.sv` decides in the same cycle. The combinational signals that say what
is driven and what has been taken (`first_data_mem_fire`,
`data_fast_load_complete`, ...) keep their names. The data port and the
translation unit are external: the first performs requests in order, as `DCache`
shows, and owes one word at a time; the second answers at once or after reads of
its own. Memory is RAM, ROM and devices: `RamEnd` is `MMAP_RAM_END`, which counts
the words of RAM as bytes and so lies inside RAM, and nobody answers between the
end of ROM and the devices. A store operand consists of the bytes 1 to 8, so that one that goes
astray shows in memory. The history variables are memory when the instruction
came, its data requests, and the instruction that has just left.

`NothingAbandoned` says more than that answers are not mixed up: an instruction
is only ever taken away in its first cycle or in `Fault`, when it has driven
nothing, so `DiscardWaitValid` is never reached. Its mutant, an interrupt in any
cycle, reaches it.

### MemBus and Dma (`MemBus.tla`, `Dma.tla`, `MCMemBus.tla`)

`Clock(i, d)` is a cycle with the requests `i` and `d` on the two ports. `Mux`,
`MmioController`, `RamArbiter`, `Memory` and `DmaClock` are the sequential blocks
of the five files. ROM, debug, ACLINT, PLIC and UART answer one cycle after the
request and are one device here. `golden`, `due`, `waiting` and `disturbed` are
history variables: RAM after all granted requests, the word a read must return,
the port that waits, and whether the core has stored into the source or the
destination of the copy under way, after which the copy need not be one
(`CopyCorrect`). `MCMemBus` runs one of two workloads, chosen in the initial
state: a driver that programs the engine, or stores that race a copy, inside its
regions and beside them.

### Uart, Plic and IrqPath (`Uart.tla`, `Plic.tla`, `IrqPath.tla`, `MCDevices.tla`, `MCIrqPath.tla`)

`UartClock(req, host)` is a cycle of `uart_ns16550.sv` with the request on its
bus and the character that `get_input` hands over: `UartBus`, `RxFifo`, `TxIrq`
and `UartRegisters` are the parts of its `always_ff` block, with the code's
priorities when several of them assign the same register. `rx_owed`,
`thre_owed` and `thre_kept` are history variables: the characters not yet read,
whether software is still to be told that the transmitter is empty, and whether
it was last told by a read of IIR with DLAB set. They record what software reads
(`TellsThre`), not what the UART clears: with DLAB set IIR is answered as usual
but the interrupt stays pending, so `ThreReportedOnce` allows a second report in
that case and no other.
`PlicClock(req, source)` is a cycle of `plic.sv`: `Pending`, `InService`,
`PlicRegisters` and `PlicBus`; `select_loop` is the loop of `select_irq` as a
recursive function and `NextBest` its body. The last source has the second
enable word for itself, and a write of the first one clears it, as in the code.
Software completes only what it has claimed (`Legal`); `plic.sv` does not check
that.

`IrqPath` conjoins both cycles with `mmio_controller.sv`, the wire of
`src/top.sv` and the programs of `core/test/uart_tx_seip.c` and `uart_rx_seip.c`,
joined in one with both interrupts enabled. A step of the program is an
access handed to the controller or the answer of a load. Stores are posted: the
handler may return before its completion has reached the PLIC. `MasksIir` chooses
between two handlers. That of the tests compares the whole byte of IIR with the
cause and calls `fail()` at every interrupt, because the UART sets the FIFO bits
too (`MasksIir = FALSE`; theorem `TestsFail`, section 6). The other one, which the
repository does not contain, looks at the low bits, as drivers for an ns16550 do
(`MasksIir = TRUE`); `irq_path` is about that driver.

### The lockstep harness (`Hart.tla`, `RtlTrace.tla`, `WhisperRef.tla`, `Lockstep.tla`, `MCLockstep.tla`)

Two machines execute the same program and a loop keeps them together.

* `Hart` is the architecture both execute: state of the hart, trap entry and
  return, delegation, interrupt priority, loads, stores and AMOs of part of a
  word. A byte is scaled to one bit, so lanes, masks, sign extension and
  overlapping accesses of a doubleword are numbers below 256; one register
  stands for all. Accesses lie within a word, aligned or not (`WithinWord`);
  those that do not are the subject of `Lsu`.
* `RtlTrace` is what the core shows: an instruction takes effect in MEM and
  retires from WB an edge later, a trap is taken in MEM with a pulse, so an edge
  can show both. The boot ROM lies at a place of its own (`ResetPc` to
  `BootEnd`), loads registers and jumps to the OpenSBI entry. `Bubble`, `Complete`, `TakeException` and `TakeInterrupt` are
  what an edge may do; when interrupts come, what devices and TIME read and how
  long the core stalls are free. Once in a run a field of a retirement may be
  reported wrongly (`Wrong`): the errors the comparison exists for.
* `WhisperRef` is `WhisperRef.cpp`. Whisper is external: `singleStep` takes an
  enabled pending interrupt, or a trap, or executes, and the metadata of a trap
  may stay set afterwards, as the comment at `WhisperRef.cpp:692` says.
  `attempt_step` is one round of the loop in `step`.
* `Lockstep` is the loop body of `tb_verilator.cpp`: `Eval...`, `ObserveTrap` or
  `ObserveRetire`, `StepAttempt` until no trap was entered, `Compare`, `End`.
  The cycle limit may end the loop before any edge. `deferred`, a history
  variable, counts the exceptions the reference has still to take; with the
  pending injections they are what it owes (`Outstanding`).

`Aligned` compares the whole state of the two machines, the CSRs that
`compare_commit` never looks at included. Five situations are known limits of
the harness. `limits` records them when they are met, and `Aligned`,
`NoFalseAlarm` and the last part of `PassIsHonest` speak of runs without them:

* `order`: an interrupt is accepted before an earlier trap has reached the
  reference (finding `lockstep_order`);
* `pulse`: an exception in the cycle of an interrupt is reported as an interrupt
  with the exception's cause (`csrunit.sv:378`);
* `vector`: a retired instruction leads to a trap vector while stale trap
  metadata is still set, and is taken for a trap;
* `sret`: an SRET is executed in M-mode, and the trace says that it ran in S-mode
  (`core.sv:1016`);
* `attempts`: the core takes as many traps before an instruction retires as
  `step` makes attempts (`kMaxNonRetiringSteps`, 16 in `WhisperRef.cpp:674`).

The last two were found while proving `NoFalseAlarm`: without them the invariant
is not inductive, and TLC shows the false alarm with `SretProgram` and
`DeepProgram`.

### SimProcess (`SimProcess.tla`, `MCSimProcess.tla`)

`main` is a list of steps, `set_nonblocking` and the calls of the `WhisperRef`
constructor among them; a step succeeds, fails where the call can fail, or is a
call that Whisper accepts without effect. `Signal` may come before any step. The
environment variables and the files the memories read in the first `eval()` are
state, and so is what Whisper has been told: settings take effect at `reset()`,
which discards poked registers. The loop is reduced to what ends it; the
lockstep part of its body is `Lockstep`. `cycles` is an unsigned number of
`Width` bits, compared as a signed one; `half_cycle` does not overflow in the
model (as a long long it would after 2^62 cycles).

## 4. Runs

| Run | Checks | Shows |
|---|---|---|
| `dcache_wb` | `TypeOK`, `RingShape`, `CachedIsCurrent`, `NothingLost`, `LoadReturnsCurrent`, `BypassOrdered`, `FlushPublishes`, `FlushEnds` | write-back cache: a ring of stores, evictions, atomics on dirty lines, flushes that end and publish |
| `dcache_live` | `DeviceOnce`, `AccessCompletes`, `StoresDrain` | write-through cache (the default build): device accesses; progress without flushes |
| `dcache_flush_hang` | `AccessCompletes`, violated | a fill answer in an invalidate cycle is lost and the cache hangs |
| `dcache_device_twice` | `DeviceOnce`, violated | a device store accepted in an invalidate cycle is issued again |
| `amo` | `CommitIsMemory`, `ScHoldsReservation`, `ImplementsPort`, `EveryRequestPerformed` | atomicity of LR/SC and AMO under traps and bus delays, AMO arithmetic against a reference |
| `lsu` | `ExactlyOnce`, `NothingAbandoned`, `AccessEnds` | whole accesses or none, under faults, splits and interrupts |
| `membus` | `AnswersTheAsker`, `StatusHonest`, `CopyCorrect`, `ReadsCurrent`, `CopyContained`, `CopyEnds`, `EveryRequestAnswered` | DMA driven in any order or raced by stores, under CPU traffic |
| `devices` | `RxFifoIsQueue`, `ThreReportedOnce`, `ServedOnce`, `PendingUntilClaimed` | UART and PLIC, each under any access and input |
| `irq_path` | `HandlerFindsCause`, `ReceivedInOrder`, `AllReceived`, `AllSent` | no interrupt is lost or spurious between UART, PLIC and a driver that masks IIR |
| `lockstep` | `Aligned`, `NoFalseAlarm`, `PassIsHonest`, `RunEnds` | the comparison neither accuses a correct core nor passes a wrong one |
| `lockstep_order` | `InjectionMatches`, violated | two interrupts close together make a correct core fail |
| `sim_process` | `TerminalRestored`, `LoopReady`, `LimitedRunEnds` | set-up, signals, failures and the cycle limit |

Bounds. The cache has two lines of two words and a buffer of two entries, the
smallest the parameter checks of `dcache.sv` allow: fills wrap, buffers fill,
head and tail wrap. Two tags make lines conflict, two lanes let accesses overlap
in part, two values tell old from new. The proofs remove these bounds for the
safety properties, and cover both write modes. `AmoUnit` has two words of two
one-bit lanes: a whole word is then a two-bit number, on which sign, carry and
borrow differ from each other, and an operation on one lane shows a carry that
leaves it; nothing in the unit depends on more. `MemBus` has four words of RAM, a
source and a destination region of up to two words, an unaligned source and an
empty copy. Requests are chosen from small sets in any order, so no counter needs
a cap: `owed` saturates at -1, which is already an error.

`Lsu` has two pages of RAM of two words each, which translation exchanges, one
word of ROM and a device page: accesses lie in a word, across words, across
pages, across `MMAP_RAM_END` and behind it, and across the end of ROM, and page
tables have two levels. An access meets at most two words
and one page boundary, so more pages add nothing.

The UART's ring has three entries, the PLIC two sources, one for each enable
word (`IrqPath` has three), and three priorities, which is enough for wrapping, a
full ring, equal priorities and a threshold between two of them. `MaxRx` and `MaxTx` of `IrqPath` bound the characters
received (one more than the ring holds) and sent.

`lockstep` runs eight programs (`MCLockstep`): traps of every kind, a trap in the
first instruction of a handler, a chain of them, firmware that leaves M-mode with
SRET, handlers at one address whatever the cause, memory and devices, the S-mode
payload of `platform/opensbi_payload.c`, and the pass token behind a false start.
Two interrupts (`MaxIrqs`) are enough for one to nest in the other; `StopOrder` 7
lets each program return from a handler and go on, and `MaxRetire` 9 leaves room
for the boot ROM and traps around it. `kMaxNonRetiringSteps` is scaled from 16 to
3, so that two traps in a row are within the limit and three reach it; the proofs
hold for every number. One error per run is enough, because the run stops at it.

`sim_process` has a `Width` of 3, so cycle counts of both signs; two calls
(`MaxIgnored`) may be ignored by Whisper; a run without a limit is followed for
four half cycles (`MaxHalfCycles`).

The three violations are disagreements between the code and a test or a comment
of the repository; `PROJECT.json` quotes them under `findings`. For the passing
liveness run of the cache, flushes are switched off (`FlushEnabled = FALSE`) for
exactly that reason: with them, `AccessCompletes` is violated. Deadlock is not
checked where the program stops: the harness and the process end.

Fairness. `DCache`: the clock ticks (`WF(Next)`) and the memory port answers a
request it holds (`WF(Answer)`): below it `amounit.sv` performs each request
(`EveryRequestPerformed`) and `mmio_controller.sv` answers it
(`EveryRequestAnswered`). `AmoUnit`: `WF(Progress)`, the bus answers and grants
the data side again and again; data requests win over fetches (`src/top.sv:265`)
except drains latched as low-priority, which are granted when the fetcher
pauses. `Lsu`: `WF(Answered)`, the data port (`AccessCompletes`) and the
translation unit answer again and again. `MemBus`: only the clock ticks.
`IrqPath`: the clock ticks, and the core executes: main's and the handler's next
access is made and an interrupt that stays pending is taken; nothing is assumed
of the devices. `Lockstep`: the harness is one thread that runs, and the core,
whose memory answers, does not stall for ever (`SF(EvalProgress)`, strong because
a bubble may come in between). `SimProcess`: the process runs (`WF(Step)`), no
signal has to come, and standard input may stay silent for ever.

`MCDevices` drives UART and PLIC each alone in one run (`under_test`).

## 5. Proofs

Eight modules hold proofs. Each theorem holds for every value of the constants
that satisfies the assumptions of the module it is about; TLC evaluates those
assumptions on the instances of section 4. None of the properties is inductive:
each rests on an invariant that was first checked with TLC on the instance of
its run and then proved, with one lemma per action, state or conjunct that can be
disturbed.

| Module | Theorem | States |
|---|---|---|
| `DCacheTypes` | `TypeCorrect` | `Spec => []TypeOK` |
| `DCacheProofs` | `RingCorrect` | `Spec => []RingShape` |
| | `LinesCoherent` | `Spec => []CachedIsCurrent` |
| | `StoresKept` | `Spec => []NothingLost` |
| | `LoadsCurrent` | `Spec => []LoadReturnsCurrent` |
| | `BypassesOrdered` | `Spec => []BypassOrdered` |
| | `FlushesPublish` | `Spec => FlushPublishes` |
| | `DevicesOnce` | `~FlushEnabled => (Spec => []DeviceOnce)` |
| `AmoProofs` | `CommitsAreMemory` | `Spec => []CommitIsMemory` |
| | `ScReserved` | `Spec => []ScHoldsReservation` |
| | `UnitImplementsPort` | `AluCorrect => (Spec => ImplementsPort)` |
| `LsuProofs` | `AccessExactlyOnce` | `Spec => []ExactlyOnce` |
| | `NothingIsAbandoned` | `Spec => []NothingAbandoned` |
| `MemBusProofs` | `TypeCorrect` | `Spec => []TypeOK` |
| | `AskerAnswered` | `Spec => []AnswersTheAsker` |
| | `ReadsAreCurrent` | `Spec => []ReadsCurrent` |
| | `StatusIsHonest` | `Spec => []StatusHonest` |
| | `CopyIsContained` | `Spec => CopyContained` |
| | `CopiesAreCorrect` | `Spec => []CopyCorrect` |
| `IrqPathProofs` | `SourcesServedOnce` | `PlicSpec => []ServedOnce` |
| | `PendingKept` | `PlicSpec => PendingUntilClaimed` |
| | `RingIsQueue` | `UartSpec => []RxFifoIsQueue` |
| | `ThreOnce` | `UartSpec => []ThreReportedOnce` |
| | `CauseIsFound` | `MasksIir => (Spec => []HandlerFindsCause)` |
| | `TestsFail` | `Spec => []TestsAcceptNothing` |
| | `OrderIsKept` | `Spec => []ReceivedInOrder` |
| `SimProofs` | `TerminalIsRestored` | `Spec => []TerminalRestored` |
| | `LoopIsReady` | `Spec => []LoopReady` |
| | `LoopIsOnTime` | `Spec => []LoopOnTime` |
| `LockstepProofs` | `Invariance` | `Spec => []Inv` |
| | `ReferenceAligned` | `Spec => []Aligned` |
| | `CorrectCorePasses` | `Spec => []NoFalseAlarm` |
| | `PassMeansCompared` | `Spec => []PassIsHonest` |

**DCache.** For every number of lines, words, slots, tags and values, in both
write modes (`GeometryAssumption`: at least two lines, one word, two slots;
`DataAssumption`: non-empty sets, `NoRsp` is no word, a fast access is a load).
`IInv` adds what the FSM knows in each state: which words of a fill are already
current; that the buffer is empty while a fill or a bypass is under way; that the
answer on the port belongs to the word the FSM waits for; that a line being
written back is valid and dirty and which of its words memory already holds; that
a flush scan has cleaned every line before `flush_index`; what the load/store
unit waits for in each cache state; that `saved` is the request of the bypass
path. The central step is the store buffer: a drain moves the oldest entry to
memory, so `Held` has to be shown for the shifted ring, which rests on lemmas
about `Wrap`, `SlotOf` and `Youngest`.

**AmoUnit.** For every set of requests, addresses and words
(`RequestAssumption`). The invariant says in which states the bus owes an answer,
which operation each state serves, and that the word an AMO has fetched is the
one in memory until it is stored. The refinement is proved step by step: a
request is performed when the bus takes its last access, an SC that fails when it
fails, and all other cycles stutter or are traps of the port. Its two hypotheses
on the arithmetic, `AluAssumption` (lanes outside the mask are kept) and
`AluCorrect` (it computes what the port's `Update` says), are what the run `amo`
compares on bounded words.

**Lsu.** For every page size that is a multiple of 8, page table, memory map and
set of instructions (`LsuAssumption`). `LsuInv` says, per state of `memunit.sv`,
which words the instruction has requested and what memory and the outstanding
answer hold because of it; in the first cycle and without an instruction nothing
is under way. An instruction can then leave only where its access is complete, or
by a trap before it has begun. Below it lie lemmas about bytes: translation keeps
the lane, the bytes of an access within a page are adjacent, a word is in RAM or
ROM as a whole, and the two shifted halves of a store or a load join to the bytes
the instruction names.

**MemBus and Dma.** For every RAM size, RAM base and set of requests
(`MemBusAssumption`, `RequestOK`; fetches do not write). `BusInv` ties the saved
request, the issued flag, the port that waits and the owner of the RAM together,
says how the RAM lags behind the granted requests by the write in its pipeline,
and counts how far a copy is. A start of the engine cannot race a write of its
registers, because the start pulse is raised by the very request that is still
being answered. Addresses wrap at the end of RAM, so `CopyContained` and
`CopyCorrect` need that two addresses that meet once after wrapping advance
alike. `CopiesAreCorrect` assumes nothing about what the core does beside the
regions of the copy: its invariant (`UndisturbedInv`) is about the words of the
regions only, which a grant to the core leaves alone unless it sets `disturbed`.

**Uart, Plic, IrqPath.** For every ring depth, number of sources and set of
accesses that the registers understand (`UartAccessOK`, `PlicAccessOK`), and any
number of characters. `PathInv` follows an interrupt: the line stays up from the
latch to the access that finds its cause, a source is in service from the claim
to the completion on the bus, posted stores included, and a transmission is in
one place at a time. The invariant holds for both handlers, and so does
`OrderIsKept`; a handler that has failed never completes, so its source stays in
service. `ThreOnce` is about any accesses, DLAB included; the program of `IrqPath`
leaves DLAB alone (`NeverKept`), so each report it reads is the last. What the loop of `select_irq` returns is shown by taking the
least index at which a claim about it would fail, out of a finite interval.

**SimProcess.** For every width of the counter and set of runs (`SimAssumption`).
The invariant is the bookkeeping of `main`: before and behind each step, whose
settings the terminal has and which handlers are in place, what the environment
and the memories hold, which settings, registers and images the reference has
been given, and how edges and half cycles relate. `LoopOnTime` is the
safety half of `LimitedRunEnds`: a run that its limit ends has run for just that
many cycles.

**Lockstep.** For every program, delegation, trap vector, set of devices, TIME
values, number of interrupts, stop order, token and number of attempts. What is
assumed of them, by name: translation keeps the lane (`PaAssumption`); code is
made of instructions whose accesses lie within a word, AMOs go to RAM, and an
interrupt has different handlers in M- and S-mode, by which
`synchronize_wfi_epc` tells the modes apart (`ProgramAssumption`); loads beside
RAM go to devices the harness knows (`DeviceAssumption`); the boot ROM loads
registers and jumps to an OpenSBI that is elsewhere and does not begin with a
trap (`BootAssumption`); and types (`InputAssumption`, `ErrorsAssumption`,
`AttemptsAssumption`, `NoneAssumption`, `PendingAssumption`).

The invariant relates two machines that are seldom in the same state: the core
is ahead by the instruction in WB, by the one being compared and by every trap
the reference has not been shown. `Inv` says that as long as no limit is met the
run is in one of three situations. `Tracks`: the reference, after the traps it
owes (`Owes`: at most one injected interrupt with the core's return address, then
a chain of exceptions), is in the state in which the core executed the oldest
instruction not yet compared, and what the core reports of that instruction is
its retirement or that with one field wrong. `Caught`: an error has ended the
run. `Lost`: it was in the boot ROM, which is not compared. There is one clause
of `Tracks` per phase of the loop body, and one lemma per action: an edge extends
what is owed (`EdgeStep`), an observed trap is taken at once or owed
(`ObserveTrapTracks`), an attempt pays one trap and the last one executes the
instruction (`StepAttemptTracks`), a comparison leaves both together
(`CompareTracks`). `Books` is the bookkeeping for the exit code.

Below it lie what the comparison is worth: `RightAccepted` and `WrongRejected`
say that `compare_commit` accepts what a correct core reports and rejects each of
the eleven errors, through `normalize_rtl_store_data` and the masks of stores and
atomics, for each of the 21 lanes and sizes an access within a word can have; and
`StepInterrupt`, `StepException` and `StepExecute`, what one step of the reference
does. `Exception` and `Interrupt` entries keep a taken interrupt masked
(`InterruptDisables`, `RaiseDisables`), so the reference does not take the
injection of one interrupt twice while it works off a chain.

Only model-checked:

* liveness (`AccessCompletes`, `StoresDrain`, `FlushEnds`, `EveryRequestPerformed`,
  `AccessEnds`, `CopyEnds`, `EveryRequestAnswered`, `AllReceived`, `AllSent`,
  `RunEnds`, `LimitedRunEnds`): the prover's rules for fairness need ENABLED;
* the AMO arithmetic against the reference, which is data of a bounded width.

## 6. Not modelled, and observations

Section 2 lists what is planned. Left out for good: performance counters,
tracing and messages; the decoder, ALU and compressed-instruction tables, which
Whisper lockstep compares with a reference simulator; the unused
`src/membus_arbiter_cpu_prio.sv`; plusarg parsing; test benches and build
scripts. `tools/whisper_lockstep/whisper_api_smoke.cpp` calls `step()` without
arguments, which `WhisperRef.hpp` does not allow, so it is not part of a working
build. Of the interrupts the harness synchronises only the timer and the
supervisor external one, and the models have only those. That `pokeMemory` may
fail is left out: the devices lie inside the memory Whisper is given.
`PROJECT.json` gives the reason for each component.

What the work on the models showed beside the findings:

* A request to an address no device claims is never answered
  (`get_device_ready` and `get_device_rvalid` are 0, `mmio_controller.sv:151`,
  `:164`) and blocks both ports, although the comment at
  `mmio_controller.sv:138` says it is discarded. `Docs/DMA.md:34` gives the DMA
  base as such an address; `src/eei.sv:86` has 0x3000_0000.
* `is_normal_memory` looks at the first byte only (`memunit.sv:202`): a
  misaligned access that crosses the end of ROM performs its first half and then
  waits for ever, since nobody answers behind it. `AccessEnds` excludes it
  (`RunsPastRom`). Behind RAM this cannot happen: `get_device` gives every address
  from `MMAP_RAM_BEGIN` on to RAM.
* `MMAP_RAM_END` adds 2^`RAM_ADDR_WIDTH` to the begin of RAM, which has as many
  8-byte words (`memunit.sv:139`, `dcache.sv:27`, `eei.sv:52`): seven eighths of
  RAM are not cached, and misaligned accesses to them trap.
* IIR reads as 0xC0 or'ed with the cause (`uart_ns16550.sv:53`). The handlers of
  the tests compare it with the bare cause and call `fail()` when it differs:
  `if (iir != 0x02)` (`core/test/uart_tx_seip.c:86`), `if (iir != 0x04)`
  (`uart_rx_seip.c:78`), and alike `uart_tx_irq.c:78`, `plic_uart_irq.c:75` and
  `plic_seip.c:82`; `uart_regs.c:40` expects 0x01 with nothing pending.
  `TestsFail` proves that such handlers accept no interrupt, and TLC shows it: with
  `MasksIir = FALSE` in `MCIrqPath.cfg`, `HandlerFindsCause` is violated by the
  first interrupt that is taken.
* With DLAB set a read of IIR reports a transmit-empty interrupt as 0xC2
  (`uart_ns16550.sv:53` does not look at DLAB) but does not clear it (`iir_read`,
  `:107`, does): software is told again at its next read.
* IER keeps four bits (`uart_ns16550.sv:191`); `core/test/uart_regs.c:44` expects
  to read back 0x55.
* `lockstep_exception_value_o` does not carry the value of an exception that the
  CSR unit raises itself (`core.sv:1055`), and `retire_priv_o` reports S for an
  SRET executed in M-mode (`core.sv:1016`), which the harness then compares with
  M (limit `sret`).
* An AMO on a device is never seeded with the core's value (`is_mmio_read` asks
  for a read), so its result differs from the reference's; `WellFormed` leaves
  such programs out.
* When a timer and an external interrupt are pending together,
  `inject_from_wfi` may come from one and `inject_epc` from the other
  (`tb_verilator.cpp:749-757`).
* A read of TIME into x0 and an LR from a device address make `step` throw
  (`WhisperRef.cpp:887`, `:732`). Nothing in the loop catches what `fail` throws:
  the process is aborted without exit code 2 and leaves the terminal raw.
* Results of device loads and TIME reads are taken from the core, so an error in
  them is not detected (`Authoritative`).
* A signal between `tcsetattr` and `signal` leaves the terminal raw, and
  `O_NONBLOCK` is never cleared. `_Exit(signum)` gives SIGINT and SIGQUIT the
  exit codes 2 and 3, which also stand for a mismatch and for a comparison that
  never started.
* A cycle count of 2^63 or more (`-1`, say) ends the run before its first cycle,
  and an open but silent pipe on standard input stops the simulation in `read`.
