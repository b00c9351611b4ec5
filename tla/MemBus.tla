------------------------------- MODULE MemBus -------------------------------
(***************************************************************************)
(* The memory system below the core, one step per clock cycle: the I/D     *)
(* multiplexer of src/top.sv, mmio_controller.sv (one request outstanding),*)
(* the CPU-priority RAM arbiter of ram_arbiter.sv, the RAM of memory.sv,   *)
(* and the DMA engine (module Dma) which is both a device of the bus and a *)
(* second master of the RAM.                                               *)
(*                                                                         *)
(*  - In every cycle the instruction and the data port may each present    *)
(*    any request or none: the units above withdraw requests, and present  *)
(*    new ones while one is outstanding.                                   *)
(*  - ROM, debug, ACLINT, PLIC and UART are one device "DEV": ready, with  *)
(*    the answer one cycle after the request.                              *)
(*  - A word is a function from byte lanes to values.                      *)
(*  - waiting, golden, due, disturbed are history variables: the port with *)
(*    an unanswered request, the RAM after every request the arbiter       *)
(*    granted, the word that the RAM read under way must return, and that  *)
(*    the core has stored into the regions of the copy under way.          *)
(***************************************************************************)
EXTENDS Dma

CONSTANTS
  RamWords,             \* 2^RAM_ADDR_WIDTH
  Lanes, Vals,
  IReqs, DReqs,         \* requests: dev, addr or reg, wen, value, mask, low
  InitRam,
  None

RamIdx == 0 .. RamWords - 1

\* A request of a port: an address and a word for the RAM, a number for the
\* address and length registers of the DMA engine.
RequestOK(r) ==
  /\ r.dev \in {"RAM", "DMA", "DEV", "UNKNOWN"} /\ r.wen \in BOOLEAN
  /\ r.dev = "RAM" => r.addr \in Nat /\ r.value \in Word /\ r.mask \subseteq Lanes
  /\ r.dev = "DMA" /\ r.wen /\ r.addr \in {"SRC", "DST", "LEN"} => r.value \in Nat

ASSUME MemBusAssumption ==
  /\ RamWords \in Nat \ {0} /\ RamBegin \in Nat
  /\ Word = [Lanes -> Vals] /\ ZeroWord \in Word
  /\ InitRam \subseteq [RamIdx -> Word] /\ InitRam # {}
  /\ \A r \in IReqs \cup DReqs : RequestOK(r)
  /\ \A r \in IReqs : ~r.wen
  /\ None \notin IReqs \cup DReqs \cup Word

VARIABLES
  memarb_last_i,
  req_saved, req_issued,             \* req_saved.valid is req_saved # None
  astate, last_is_cpu,
  mem_state, mem_saved, mem_rvalid, mem_rdata, ram,
  dev_rvalid,
  waiting, golden, due, disturbed

busVars == <<memarb_last_i, req_saved, req_issued>>
ramVars == <<astate, last_is_cpu, mem_state, mem_saved, mem_rvalid, mem_rdata, ram>>
vars == <<dmaVars, busVars, ramVars, dev_rvalid, waiting, golden, due, disturbed>>

-----------------------------------------------------------------------------
(***************************************************************************)
(* The multiplexer: i and d are the requests of the two ports.             *)
(***************************************************************************)
memarb_select_d(i, d) == d # None /\ ~(d.low /\ i # None)
memarb_issue_is_i(i, d) == i # None /\ ~memarb_select_d(i, d)
mmio_membus(i, d) == IF memarb_select_d(i, d) THEN d ELSE i

mmio_ready == req_saved = None

(***************************************************************************)
(* mmio_controller: the saved request is driven until its device takes it. *)
(***************************************************************************)
Drives(dev) == req_saved # None /\ ~req_issued /\ req_saved.dev = dev

addr_to_ramaddr(a) == (a \div 8) % RamWords

(***************************************************************************)
(* The RAM arbiter.                                                        *)
(***************************************************************************)
cpu_valid == Drives("RAM")
out_valid == astate = "A_IDLE" /\ (cpu_valid \/ dma_ram_valid)
out_fire == out_valid /\ mem_state = "Ready"
out_req ==
  IF cpu_valid
    THEN [addr |-> req_saved.addr - RamBegin, wen |-> req_saved.wen,
          wdata |-> req_saved.value, wmask |-> req_saved.mask]
    ELSE [addr |-> dma_ram_addr, wen |-> dma_ram_wen, wdata |-> rd_buf, wmask |-> Lanes]

cpu_ready == out_fire /\ cpu_valid
DmaWaitsForIdleBus == out_fire /\ ~cpu_valid /\ req_saved = None
dma_ready == out_fire /\ ~cpu_valid
out_rvalid == astate = "A_WAIT" /\ mem_rvalid

ReadyFromRam == cpu_ready
get_device_ready ==
  CASE req_saved.dev = "RAM"     -> cpu_ready
    [] req_saved.dev = "UNKNOWN" -> FALSE
    [] OTHER                     -> TRUE

get_device_rvalid ==
  /\ req_saved # None
  /\ CASE req_saved.dev = "RAM" -> out_rvalid /\ last_is_cpu
       [] req_saved.dev = "DMA" -> mmio_rvalid_q
       [] req_saved.dev = "DEV" -> dev_rvalid
       [] OTHER                 -> FALSE

i_rvalid == get_device_rvalid /\ memarb_last_i
d_rvalid == get_device_rvalid /\ ~memarb_last_i

-----------------------------------------------------------------------------
MuxUnguarded(i, d) == memarb_last_i' = memarb_issue_is_i(i, d)

Mux(i, d) ==
  memarb_last_i' = IF mmio_ready /\ mmio_membus(i, d) # None
                     THEN memarb_issue_is_i(i, d) ELSE memarb_last_i

MmioController(i, d) ==
  IF mmio_ready
    THEN req_saved' = mmio_membus(i, d) /\ req_issued' = FALSE
    ELSE LET finish == req_issued /\ get_device_rvalid IN
         /\ req_saved' = IF finish THEN None ELSE req_saved
         /\ req_issued' = (~finish /\ (req_issued \/ get_device_ready))

RamArbiter ==
  \/ /\ astate = "A_IDLE"
     /\ astate' = IF out_fire THEN "A_WAIT" ELSE astate
     /\ last_is_cpu' = IF out_fire THEN cpu_valid ELSE last_is_cpu
  \/ /\ astate = "A_WAIT"
     /\ astate' = IF mem_rvalid THEN "A_IDLE" ELSE astate
     /\ UNCHANGED last_is_cpu

merge(old, new, mask) == [l \in Lanes |-> IF l \in mask THEN new[l] ELSE old[l]]

\* memory.sv: a read is answered in the next cycle, a write is merged into
\* the word read with it one cycle later and answered after that.  What the
\* saved registers hold without a request is never read.
MemoryReady ==
  /\ mem_state = "Ready"
  /\ IF out_valid
       THEN LET w == ram[addr_to_ramaddr(out_req.addr)] IN
            /\ mem_state' = IF out_req.wen THEN "WriteValid" ELSE "Ready"
            /\ mem_rvalid' = ~out_req.wen
            /\ mem_rdata' = w
            /\ mem_saved' = [addr |-> addr_to_ramaddr(out_req.addr), rdata |-> w,
                             wdata |-> out_req.wdata, wmask |-> out_req.wmask]
       ELSE /\ mem_rvalid' = FALSE
            /\ UNCHANGED <<mem_state, mem_rdata, mem_saved>>
  /\ UNCHANGED ram

WholeWordWrite ==
  /\ mem_state = "WriteValid" /\ mem_state' = "Ready"
  /\ mem_rvalid' = TRUE /\ mem_rdata' = mem_saved.rdata
  /\ ram' = [ram EXCEPT ![mem_saved.addr] = mem_saved.wdata]
  /\ UNCHANGED mem_saved

MemoryWriteValid ==
  /\ mem_state = "WriteValid" /\ mem_state' = "Ready"
  /\ mem_rvalid' = TRUE /\ mem_rdata' = mem_saved.rdata
  /\ ram' = [ram EXCEPT ![mem_saved.addr] =
               merge(mem_saved.rdata, mem_saved.wdata, mem_saved.wmask)]
  /\ UNCHANGED mem_saved

Memory == MemoryReady \/ MemoryWriteValid

Devices == dev_rvalid' = Drives("DEV")

DmaRequest ==
  IF Drives("DMA")
    THEN [valid |-> TRUE, wen |-> req_saved.wen, reg |-> req_saved.addr,
          value |-> req_saved.value]
    ELSE [valid |-> FALSE, wen |-> FALSE, reg |-> "CTRL", value |-> {}]

\* The words a copy reads and writes.
Idx(a, k) == addr_to_ramaddr(a - RamBegin + 8 * k)
SrcWords == {Idx(r_src, k) : k \in 0 .. r_len \div 8 - 1}
DstWords == {Idx(r_dst, k) : k \in 0 .. r_len \div 8 - 1}

History(i, d) ==
  /\ waiting' = IF mmio_ready /\ mmio_membus(i, d) # None
                  THEN (IF memarb_select_d(i, d) THEN "d" ELSE "i")
                ELSE IF i_rvalid \/ d_rvalid THEN "none" ELSE waiting
  /\ IF ~out_fire THEN UNCHANGED <<golden, due>>
     ELSE LET a == addr_to_ramaddr(out_req.addr) IN
          /\ golden' = IF out_req.wen
                         THEN [golden EXCEPT ![a] = merge(@, out_req.wdata, out_req.wmask)]
                         ELSE golden
          /\ due' = IF out_req.wen THEN None ELSE golden[a]
  /\ disturbed' =
       /\ dma_active
       /\ \/ disturbed
          \/ /\ cpu_ready /\ out_req.wen
             /\ addr_to_ramaddr(out_req.addr) \in SrcWords \cup DstWords

-----------------------------------------------------------------------------
Init ==
  /\ DmaInit
  /\ memarb_last_i = FALSE /\ req_saved = None /\ req_issued = FALSE
  /\ astate = "A_IDLE" /\ last_is_cpu = TRUE
  /\ mem_state = "Ready" /\ mem_rvalid = FALSE /\ mem_rdata = ZeroWord
  /\ mem_saved = [addr |-> 0, rdata |-> ZeroWord, wdata |-> ZeroWord, wmask |-> {}]
  /\ ram \in InitRam
  /\ dev_rvalid = FALSE
  /\ waiting = "none" /\ golden = ram /\ due = None /\ disturbed = FALSE

Clock(i, d) ==
  /\ Mux(i, d)
  /\ MmioController(i, d)
  /\ RamArbiter
  /\ Memory
  /\ Devices
  /\ DmaClock(DmaRequest, dma_ready, out_rvalid /\ ~last_is_cpu, mem_rdata)
  /\ History(i, d)

Next == \E i \in IReqs \cup {None}, d \in DReqs \cup {None} : Clock(i, d)

Spec == Init /\ [][Next]_vars
FairSpec == Spec /\ WF_vars(Next)

-----------------------------------------------------------------------------
(***************************************************************************)
(* Properties.                                                             *)
(***************************************************************************)

\* Every register holds a value of its type.
TypeOK ==
  /\ memarb_last_i \in BOOLEAN /\ req_issued \in BOOLEAN
  /\ req_saved \in IReqs \cup DReqs \cup {None}
  /\ astate \in {"A_IDLE", "A_WAIT"} /\ last_is_cpu \in BOOLEAN
  /\ mem_state \in {"Ready", "WriteValid"}
  /\ mem_rvalid \in BOOLEAN /\ mem_rdata \in Word
  /\ mem_saved \in [addr : RamIdx, rdata : Word, wdata : Word, wmask : SUBSET Lanes]
  /\ ram \in [RamIdx -> Word] /\ golden \in [RamIdx -> Word]
  /\ dma_state \in {"IDLE", "READ_REQ", "READ_WAIT", "WRITE_REQ", "DONE", "ERR"}
  /\ rd_buf \in Word /\ rem \in Nat
  /\ waiting \in {"none", "i", "d"}
  /\ due \in Word \cup {None} /\ disturbed \in BOOLEAN

\* An answer goes to the port that asked, and only after its device took the
\* request (req_core.rvalid itself does not look at req_issued).
AnswersTheAsker ==
  /\ i_rvalid => waiting = "i"
  /\ d_rvalid => waiting = "d"
  /\ get_device_rvalid => req_issued

\* A RAM read returns the word as all requests granted before it leave it,
\* although memory.sv commits a write a cycle after accepting it.
ReadsCurrent ==
  /\ out_rvalid /\ due # None => mem_rdata = due
  /\ mem_state = "Ready" => ram = golden

\* A STATUS read without busy means the copy is over and in RAM: the polling
\* loop of the driver may go on to read the destination.
StatusHonest ==
  Drives("DMA") /\ req_saved.addr = "STATUS" /\ ~st_busy =>
    /\ dma_state \notin {"READ_REQ", "READ_WAIT", "WRITE_REQ"} /\ ~start_pulse
    /\ ram = golden

\* When the engine reports a copy between disjoint regions done, every word
\* of the destination has the source's value, unless the core has stored into
\* one of the regions meanwhile (dma.sv, S_READ_WAIT and S_WRITE_REQ).
CopyCorrect ==
  dma_state = "DONE" /\ r_len # 0 /\ SrcWords \cap DstWords = {} /\ ~disturbed =>
    \A k \in 0 .. r_len \div 8 - 1 : golden[Idx(r_dst, k)] = golden[Idx(r_src, k)]

\* The engine changes RAM only inside the destination region.
CopyContained ==
  [][\A a \in RamIdx : golden'[a] # golden[a] /\ ~cpu_valid => a \in DstWords]_vars

\* Every request the controller takes is answered, and leaves the controller
\* free for the next one.
EveryRequestAnswered == (req_saved # None) ~> (req_saved = None /\ waiting = "none")

\* A copy ends however much traffic the core makes, although the arbiter
\* always prefers the core: mmio_controller leaves the RAM port free for a
\* cycle after each answer.
CopyEnds == (dma_state = "READ_REQ") ~> (dma_state = "IDLE")
=============================================================================
