---------------------------- MODULE MemBusProofs ----------------------------
(***************************************************************************)
(* Proofs about the memory system: an answer goes to the port that asked,  *)
(* RAM reads are current, the DMA engine's STATUS is honest, it writes     *)
(* only inside its destination, and it copies correctly.                   *)
(***************************************************************************)
EXTENDS MemBus, TLAPS

Active == {"READ_REQ", "READ_WAIT", "WRITE_REQ"}

\* The registers, those of the DMA engine included.
RegType ==
  /\ TypeOK
  /\ r_src \in Nat /\ r_dst \in Nat /\ r_len \in Nat
  /\ st_busy \in BOOLEAN /\ mmio_rvalid_q \in BOOLEAN /\ start_pulse \in BOOLEAN
  /\ cur_src \in Int /\ cur_dst \in Int
  /\ dev_rvalid \in BOOLEAN

\* The port recorded for the outstanding request.
PortInv ==
  /\ req_issued => req_saved # None
  /\ req_saved = None => waiting = "none"
  /\ req_saved # None => waiting = IF memarb_last_i THEN "i" ELSE "d"

\* A device works only for the request that was issued to it.
IssuedInv ==
  /\ astate = "A_WAIT" /\ last_is_cpu =>
       req_saved # None /\ req_issued /\ req_saved.dev = "RAM"
  /\ dev_rvalid => req_saved # None /\ req_issued /\ req_saved.dev = "DEV"
  /\ mmio_rvalid_q => req_saved # None /\ req_issued /\ req_saved.dev = "DMA"
  /\ start_pulse => mmio_rvalid_q

\* The RAM lags behind the granted requests by the write in its pipeline.
RamInv ==
  /\ mem_rvalid => astate = "A_WAIT" /\ mem_state = "Ready"
  /\ mem_rvalid /\ due # None => mem_rdata = due
  /\ mem_state = "Ready" => ram = golden
  /\ mem_state = "WriteValid" =>
       /\ astate = "A_WAIT" /\ due = None
       /\ mem_saved.rdata = ram[mem_saved.addr]
       /\ golden = [ram EXCEPT ![mem_saved.addr] =
                      merge(mem_saved.rdata, mem_saved.wdata, mem_saved.wmask)]

\* busy covers the copy and the last write's commit.
BusyInv ==
  /\ dma_state \in Active => st_busy
  /\ mem_state = "WriteValid" /\ ~last_is_cpu => st_busy

\* How far a copy is: its pointers, and the words left.
Copied == r_len \div 8 - rem \div 8
CopyInv ==
  dma_state \in Active =>
    /\ r_len = 8 * (r_len \div 8) /\ rem = 8 * (rem \div 8)
    /\ 0 < rem /\ rem <= r_len
    /\ cur_src = r_src - RamBegin + 8 * Copied
    /\ cur_dst = r_dst - RamBegin + 8 * Copied

BusInv == RegType /\ PortInv /\ IssuedInv /\ RamInv /\ BusyInv /\ CopyInv

\* What a copy has done so far, if the core has not stored into its regions.
CopiedUpTo(n) ==
  SrcWords \cap DstWords = {} =>
    \A k \in 0 .. n - 1 : golden[Idx(r_dst, k)] = golden[Idx(r_src, k)]
DataInv ==
  /\ dma_state \in Active => CopiedUpTo(Copied)
  /\ dma_state = "READ_WAIT" =>
       /\ astate = "A_WAIT" /\ ~last_is_cpu
       /\ due = golden[Idx(r_src, Copied)]
  /\ dma_state = "WRITE_REQ" => rd_buf = golden[Idx(r_src, Copied)]
  /\ dma_state = "DONE" /\ r_len # 0 => CopiedUpTo(r_len \div 8)
UndisturbedInv == ~disturbed => DataInv

-----------------------------------------------------------------------------
(***************************************************************************)
(* The request on the bus and the one on the RAM port.                     *)
(***************************************************************************)

\* Every RAM address falls into the RAM (addr_to_ramaddr drops the upper bits).
LEMMA RamAddress == ASSUME NEW x \in Int PROVE addr_to_ramaddr(x) \in RamIdx
<1>1. x \div 8 \in Int
  OBVIOUS
<1>2. RamWords \in Nat \ {0}
  BY MemBusAssumption
<1>3. \A y \in Int : y % RamWords \in RamIdx
  BY <1>2 DEF RamIdx
<1> QED
  BY <1>1, <1>3 DEF addr_to_ramaddr

\* Merging into a word gives a word.
LEMMA MergeWord ==
  ASSUME NEW old \in Word, NEW new \in Word, NEW mask PROVE merge(old, new, mask) \in Word
BY MemBusAssumption DEF merge

\* The multiplexer passes one of the requests, or none.
LEMMA MuxRequest ==
  ASSUME NEW i \in IReqs \cup {None}, NEW d \in DReqs \cup {None}
  PROVE  /\ mmio_membus(i, d) \in IReqs \cup DReqs \cup {None}
         /\ mmio_membus(i, d) # None =>
              memarb_issue_is_i(i, d) = ~memarb_select_d(i, d)
         /\ memarb_select_d(i, d) \in BOOLEAN /\ memarb_issue_is_i(i, d) \in BOOLEAN
BY DEF mmio_membus, memarb_issue_is_i, memarb_select_d

\* The memory-mapped port of the DMA engine sees a request exactly while the
\* controller drives one to it.
LEMMA RegisterAccess ==
  /\ DmaRequest.valid = Drives("DMA")
  /\ \A reg : Writes(DmaRequest, reg) => Drives("DMA") /\ req_saved.wen /\ req_saved.addr = reg
  /\ Drives("DMA") => DmaRequest.value = req_saved.value
<1>1. CASE Drives("DMA")
  <2>1. DmaRequest = [valid |-> TRUE, wen |-> req_saved.wen, reg |-> req_saved.addr,
                      value |-> req_saved.value]
    BY <1>1 DEF DmaRequest
  <2>2. DmaRequest.valid = TRUE
    BY <2>1
  <2>3. Drives("DMA") = TRUE
    BY <1>1 DEF Drives
  <2> QED
    BY <2>1, <2>2, <2>3 DEF Writes
<1>2. CASE ~Drives("DMA")
  <2>1. DmaRequest = [valid |-> FALSE, wen |-> FALSE, reg |-> "CTRL", value |-> {}]
    BY <1>2 DEF DmaRequest
  <2>2. DmaRequest.valid = FALSE
    BY <2>1
  <2>3. Drives("DMA") = FALSE
    BY <1>2 DEF Drives
  <2> QED
    BY <2>1, <2>2, <2>3 DEF Writes
<1> QED
  BY <1>1, <1>2

\* The request that the arbiter presents to the RAM is well formed.
LEMMA OutRequest ==
  ASSUME RegType, out_valid
  PROVE  /\ out_req.addr \in Int /\ addr_to_ramaddr(out_req.addr) \in RamIdx
         /\ out_req.wen \in BOOLEAN /\ out_req.wdata \in Word /\ out_req.wmask \subseteq Lanes
<1>1. CASE cpu_valid
  <2>1. RequestOK(req_saved)
    BY <1>1, MemBusAssumption DEF cpu_valid, Drives, RegType, TypeOK
  <2>2. /\ req_saved.addr \in Nat /\ req_saved.wen \in BOOLEAN
        /\ req_saved.value \in Word /\ req_saved.mask \subseteq Lanes
    BY <1>1, <2>1 DEF RequestOK, cpu_valid, Drives
  <2>3. out_req = [addr |-> req_saved.addr - RamBegin, wen |-> req_saved.wen,
                   wdata |-> req_saved.value, wmask |-> req_saved.mask]
    BY <1>1 DEF out_req
  <2>4. req_saved.addr - RamBegin \in Int
    BY <2>2, MemBusAssumption
  <2> QED
    BY <2>2, <2>3, <2>4, RamAddress
<1>2. CASE ~cpu_valid
  <2>1. out_req = [addr |-> dma_ram_addr, wen |-> dma_ram_wen, wdata |-> rd_buf, wmask |-> Lanes]
    BY <1>2 DEF out_req
  <2>2. dma_ram_addr \in Int
    BY DEF RegType, dma_ram_addr
  <2>3. dma_ram_wen \in BOOLEAN
    BY DEF dma_ram_wen
  <2>4. rd_buf \in Word
    BY DEF RegType, TypeOK
  <2> QED
    BY <2>1, <2>2, <2>3, <2>4, RamAddress
<1> QED
  BY <1>1, <1>2

-----------------------------------------------------------------------------
(***************************************************************************)
(* The invariant, part by part, over one clock cycle.                      *)
(***************************************************************************)

LEMMA InitInv == Init => BusInv
<1> SUFFICES ASSUME Init PROVE BusInv
  OBVIOUS
<1>1. ram \in [RamIdx -> Word]
  BY MemBusAssumption DEF Init
<1>2. 0 \in RamIdx /\ ZeroWord \in Word
  BY MemBusAssumption DEF RamIdx
<1>3. TypeOK
  BY <1>1, <1>2 DEF Init, DmaInit, TypeOK
<1>3b. /\ st_busy \in BOOLEAN /\ mmio_rvalid_q \in BOOLEAN /\ start_pulse \in BOOLEAN
       /\ dev_rvalid \in BOOLEAN
  BY DEF Init, DmaInit
<1>3c. r_src \in Nat /\ r_dst \in Nat /\ r_len \in Nat /\ cur_src \in Int /\ cur_dst \in Int
  BY DEF Init, DmaInit
<1>3a. RegType
  BY <1>3, <1>3b, <1>3c DEF RegType
<1>4. PortInv /\ IssuedInv /\ RamInv
  BY DEF Init, DmaInit, PortInv, IssuedInv, RamInv
<1>5. BusyInv /\ CopyInv
  BY DEF Init, DmaInit, BusyInv, CopyInv, Active
<1> QED
  BY <1>3a, <1>4, <1>5 DEF BusInv

\* A device that answers does so for the request issued to it.
LEMMA AnswersIssued ==
  ASSUME IssuedInv, get_device_rvalid PROVE req_issued
BY DEF IssuedInv, get_device_rvalid, out_rvalid

\* No request is taken from the core while one is outstanding, and the
\* controller and the device agree on when a request is issued.
LEMMA PortStep ==
  ASSUME BusInv, NEW i \in IReqs \cup {None}, NEW d \in DReqs \cup {None}, Clock(i, d)
  PROVE  PortInv'
<1> USE DEF BusInv
<1>1. CASE mmio_ready /\ mmio_membus(i, d) # None
  <2>1. waiting' = IF memarb_select_d(i, d) THEN "d" ELSE "i"
    BY <1>1 DEF Clock, History
  <2>2. memarb_last_i' = ~memarb_select_d(i, d)
    BY <1>1, MuxRequest DEF Clock, Mux
  <2>3. req_saved' = mmio_membus(i, d) /\ req_issued' = FALSE
    BY <1>1 DEF Clock, MmioController
  <2> QED
    BY <1>1, <2>1, <2>2, <2>3 DEF PortInv
<1>2. CASE mmio_ready /\ mmio_membus(i, d) = None
  <2>1. req_saved = None /\ waiting = "none" /\ ~get_device_rvalid
    BY <1>2 DEF mmio_ready, PortInv, get_device_rvalid
  <2>2. waiting' = waiting
    BY <1>2, <2>1 DEF Clock, History, i_rvalid, d_rvalid
  <2>3. req_saved' = None /\ req_issued' = FALSE
    BY <1>2 DEF Clock, MmioController
  <2> QED
    BY <2>1, <2>2, <2>3 DEF PortInv
<1>3. CASE ~mmio_ready
  <2>1. req_saved # None /\ memarb_last_i' = memarb_last_i
    BY <1>3 DEF mmio_ready, Clock, Mux
  <2>2. memarb_last_i \in BOOLEAN
    BY DEF RegType, TypeOK
  <2>3. CASE get_device_rvalid
    <3>1. req_issued
      BY <2>3, AnswersIssued
    <3>2. req_saved' = None /\ req_issued' = FALSE
      BY <1>3, <2>3, <3>1 DEF Clock, MmioController
    <3>3. waiting' = "none"
      BY <1>3, <2>2, <2>3 DEF Clock, History, i_rvalid, d_rvalid
    <3> QED
      BY <3>2, <3>3 DEF PortInv
  <2>4. CASE ~get_device_rvalid
    <3>1. req_saved' = req_saved
      BY <1>3, <2>4 DEF Clock, MmioController
    <3>2. waiting' = waiting
      BY <1>3, <2>4 DEF Clock, History, i_rvalid, d_rvalid
    <3> QED
      BY <2>1, <3>1, <3>2 DEF PortInv
  <2> QED
    BY <2>3, <2>4
<1> QED
  BY <1>1, <1>2, <1>3

\* What the controller does with the outstanding request.
LEMMA ControllerStep ==
  ASSUME BusInv, NEW i \in IReqs \cup {None}, NEW d \in DReqs \cup {None}, Clock(i, d),
         req_saved # None
  PROVE  /\ get_device_rvalid => req_issued
         /\ ~get_device_rvalid =>
              /\ req_saved' = req_saved
              /\ req_issued' = (req_issued \/ get_device_ready)
         /\ get_device_rvalid => req_saved' = None /\ req_issued' = FALSE
<1>1. get_device_rvalid => req_issued
  BY AnswersIssued DEF BusInv
<1>2. req_issued \in BOOLEAN
  BY DEF BusInv, RegType, TypeOK
<1>3. ~mmio_ready
  BY DEF mmio_ready
<1>4. /\ req_saved' = IF req_issued /\ get_device_rvalid THEN None ELSE req_saved
      /\ req_issued' = (~(req_issued /\ get_device_rvalid) /\ (req_issued \/ get_device_ready))
  BY <1>3 DEF Clock, MmioController
<1>5. CASE get_device_rvalid
  BY <1>1, <1>4, <1>5
<1>6. CASE ~get_device_rvalid
  BY <1>4, <1>6
<1> QED
  BY <1>1, <1>5, <1>6
\* Devices take up only the request that is driven to them, which is then
\* issued; the RAM is done with the CPU's request when it answers.
LEMMA IssuedStep ==
  ASSUME BusInv, NEW i \in IReqs \cup {None}, NEW d \in DReqs \cup {None}, Clock(i, d)
  PROVE  IssuedInv'
<1> USE DEF BusInv
<1>1. ASSUME NEW dev \in {"RAM", "DMA", "DEV"}, Drives(dev), dev = "RAM" => cpu_ready
      PROVE  req_saved' # None /\ req_issued' /\ req_saved'.dev = dev
  <2>1. req_saved # None /\ ~req_issued /\ req_saved.dev = dev
    BY <1>1 DEF Drives
  <2>2. ~get_device_rvalid
    BY <2>1, AnswersIssued
  <2>3. get_device_ready
    BY <1>1, <2>1 DEF get_device_ready
  <2> QED
    BY <2>1, <2>2, <2>3, ControllerStep
<1>2. dev_rvalid' = Drives("DEV")
  BY DEF Clock, Devices
<1>3. mmio_rvalid_q' = Drives("DMA")
  BY RegisterAccess DEF Clock, DmaClock, MmioRegisters
<1>4. start_pulse' => mmio_rvalid_q'
  BY DEF Clock, DmaClock, MmioRegisters, Writes
<1>5. ASSUME astate' = "A_WAIT", last_is_cpu'
      PROVE  req_saved' # None /\ req_issued' /\ req_saved'.dev = "RAM"
  <2>1. CASE astate = "A_IDLE"
    <3>1. out_fire /\ cpu_valid
      BY <1>5, <2>1 DEF Clock, RamArbiter
    <3> QED
      BY <3>1, <1>1 DEF cpu_valid, cpu_ready
  <2>2. CASE astate = "A_WAIT"
    <3>1. ~mem_rvalid /\ last_is_cpu
      BY <1>5, <2>2 DEF Clock, RamArbiter
    <3>2. req_saved # None /\ req_issued /\ req_saved.dev = "RAM"
      BY <2>2, <3>1 DEF IssuedInv
    <3>3. ~get_device_rvalid
      BY <3>1, <3>2 DEF get_device_rvalid, out_rvalid
    <3> QED
      BY <3>2, <3>3, ControllerStep
  <2> QED
    BY <2>1, <2>2 DEF RegType, TypeOK
<1> QED
  BY <1>1, <1>2, <1>3, <1>4, <1>5 DEF IssuedInv

\* The three things the RAM does in a cycle: accept the request the arbiter
\* presents, idle, or commit the write accepted a cycle before.
LEMMA RamCases ==
  ASSUME BusInv, NEW i \in IReqs \cup {None}, NEW d \in DReqs \cup {None}, Clock(i, d)
  PROVE  \/ mem_state = "Ready" /\ out_valid /\ MemoryReady
         \/ mem_state = "Ready" /\ ~out_valid /\ MemoryReady
         \/ mem_state = "WriteValid" /\ ~out_valid /\ ~mem_rvalid /\ MemoryWriteValid
BY DEF Clock, Memory, MemoryReady, MemoryWriteValid, out_valid, BusInv, RamInv

\* golden moves with a grant only.
LEMMA GoldenStep ==
  ASSUME BusInv, NEW i \in IReqs \cup {None}, NEW d \in DReqs \cup {None}, Clock(i, d)
  PROVE  /\ ~out_fire => golden' = golden /\ due' = due
         /\ out_fire /\ ~out_req.wen =>
              golden' = golden /\ due' = golden[addr_to_ramaddr(out_req.addr)]
         /\ out_fire /\ out_req.wen =>
              /\ due' = None
              /\ golden' = [golden EXCEPT ![addr_to_ramaddr(out_req.addr)] =
                   merge(golden[addr_to_ramaddr(out_req.addr)], out_req.wdata, out_req.wmask)]
<1>1. CASE ~out_fire
  BY <1>1 DEF Clock, History
<1>2. CASE out_fire
  BY <1>2 DEF Clock, History
<1> QED
  BY <1>1, <1>2

\* The RAM holds what was granted, up to the write in its pipeline.
LEMMA RamStep ==
  ASSUME BusInv, NEW i \in IReqs \cup {None}, NEW d \in DReqs \cup {None}, Clock(i, d)
  PROVE  RamInv'
<1> USE DEF BusInv
<1> DEFINE a == addr_to_ramaddr(out_req.addr)
<1>1. CASE mem_state = "Ready" /\ out_valid /\ MemoryReady
  <2>1. out_fire /\ astate' = "A_WAIT"
    BY <1>1 DEF out_fire, out_valid, Clock, RamArbiter
  <2>2. ram' = ram /\ golden = ram
    BY <1>1 DEF MemoryReady, RamInv
  <2>3. CASE out_req.wen
    <3>1. /\ mem_state' = "WriteValid" /\ mem_rvalid' = FALSE
          /\ mem_saved' = [addr |-> a, rdata |-> ram[a],
                           wdata |-> out_req.wdata, wmask |-> out_req.wmask]
      BY <1>1, <2>3 DEF MemoryReady
    <3>2. /\ due' = None
          /\ golden' = [ram EXCEPT ![a] = merge(ram[a], out_req.wdata, out_req.wmask)]
      BY <2>1, <2>2, <2>3, GoldenStep
    <3>3. /\ mem_saved'.addr = a /\ mem_saved'.rdata = ram[a]
          /\ mem_saved'.wdata = out_req.wdata /\ mem_saved'.wmask = out_req.wmask
      BY <3>1
    <3>4. golden' = [ram' EXCEPT ![mem_saved'.addr] =
                       merge(mem_saved'.rdata, mem_saved'.wdata, mem_saved'.wmask)]
      BY <2>2, <3>2, <3>3
    <3>5. mem_saved'.rdata = ram'[mem_saved'.addr]
      BY <2>2, <3>3
    <3> QED
      BY <2>1, <3>1, <3>2, <3>4, <3>5 DEF RamInv, merge
  <2>4. CASE ~out_req.wen
    <3>1. mem_state' = "Ready" /\ mem_rdata' = ram[a]
      BY <1>1, <2>4 DEF MemoryReady
    <3>2. due' = golden[a] /\ golden' = golden
      BY <2>1, <2>4, GoldenStep
    <3> QED
      BY <2>1, <2>2, <3>1, <3>2 DEF RamInv
  <2> QED
    BY <2>3, <2>4
<1>2. CASE mem_state = "Ready" /\ ~out_valid /\ MemoryReady
  <2>1. mem_rvalid' = FALSE /\ mem_state' = "Ready" /\ ram' = ram
    BY <1>2 DEF MemoryReady
  <2>2. golden' = golden
    BY <1>2, GoldenStep DEF out_fire
  <2> QED
    BY <1>2, <2>1, <2>2 DEF RamInv
<1>3. CASE mem_state = "WriteValid" /\ ~out_valid /\ ~mem_rvalid /\ MemoryWriteValid
  <2>1. mem_state' = "Ready" /\ golden' = golden /\ due' = due
    BY <1>3, GoldenStep DEF out_fire, MemoryWriteValid
  <2>2. astate = "A_WAIT" /\ due = None
    BY <1>3 DEF RamInv
  <2>3. astate' = "A_WAIT"
    BY <1>3, <2>2 DEF Clock, RamArbiter
  <2>4. ram' = golden
    BY <1>3 DEF RamInv, MemoryWriteValid
  <2> QED
    BY <2>1, <2>2, <2>3, <2>4 DEF RamInv
<1> QED
  BY <1>1, <1>2, <1>3, RamCases

\* busy is set from the start of a copy until its last write is in the RAM.
LEMMA BusyStep ==
  ASSUME BusInv, NEW i \in IReqs \cup {None}, NEW d \in DReqs \cup {None}, Clock(i, d)
  PROVE  BusyInv'
<1> USE DEF BusInv
<1>1. ASSUME dma_state' \in Active PROVE st_busy'
  <2>1. CASE dma_state = "IDLE"
    BY <1>1, <2>1 DEF Active, Clock, DmaClock, DmaIdle, DmaRead, DmaWrite, DmaFinish
  <2>2. CASE dma_state # "IDLE"
    <3>1. dma_state \in Active /\ st_busy' = st_busy
      BY <1>1, <2>2 DEF Active, Clock, DmaClock, DmaIdle, DmaRead, DmaWrite, DmaFinish
    <3> QED
      BY <3>1 DEF BusyInv
  <2> QED
    BY <2>1, <2>2
<1>2. ASSUME mem_state' = "WriteValid", ~last_is_cpu' PROVE st_busy'
  <2>1. mem_state = "Ready" /\ out_valid /\ out_req.wen
    BY <1>2, RamCases DEF MemoryReady, MemoryWriteValid
  <2>2. ~cpu_valid
    BY <1>2, <2>1 DEF Clock, RamArbiter, out_valid, out_fire
  <2>3. dma_state = "WRITE_REQ"
    BY <2>1, <2>2 DEF out_req, dma_ram_wen
  <2> QED
    BY <2>3 DEF BusyInv, Active, Clock, DmaClock, DmaIdle, DmaRead, DmaWrite, DmaFinish
<1> QED
  BY <1>1, <1>2 DEF BusyInv

\* The registers of the engine change only while it is idle, and never in the
\* cycle in which a start captures them.
LEMMA RegistersStep ==
  ASSUME BusInv, NEW i \in IReqs \cup {None}, NEW d \in DReqs \cup {None}, Clock(i, d)
  PROVE  /\ dma_state # "IDLE" \/ start_pulse => UNCHANGED <<r_src, r_dst, r_len>>
         /\ r_src' \in Nat /\ r_dst' \in Nat /\ r_len' \in Nat
<1>1. /\ r_src' = IF Writes(DmaRequest, "SRC") /\ ~dma_active THEN DmaRequest.value ELSE r_src
      /\ r_dst' = IF Writes(DmaRequest, "DST") /\ ~dma_active THEN DmaRequest.value ELSE r_dst
      /\ r_len' = IF Writes(DmaRequest, "LEN") /\ ~dma_active THEN DmaRequest.value ELSE r_len
  BY DEF Clock, DmaClock, MmioRegisters
<1>2. start_pulse => ~Drives("DMA")
  BY DEF BusInv, IssuedInv, Drives
<1>3. ASSUME NEW reg \in {"SRC", "DST", "LEN"}, Writes(DmaRequest, reg)
      PROVE  DmaRequest.value \in Nat
  <2>1. /\ DmaRequest.value = req_saved.value /\ req_saved # None /\ req_saved.dev = "DMA"
        /\ req_saved.wen /\ req_saved.addr = reg
    BY <1>3, RegisterAccess DEF Drives
  <2>2. RequestOK(req_saved)
    BY <2>1, MemBusAssumption DEF BusInv, RegType, TypeOK
  <2> QED
    BY <2>1, <2>2 DEF RequestOK
<1>4. r_src \in Nat /\ r_dst \in Nat /\ r_len \in Nat
  BY DEF BusInv, RegType
<1>5. \A reg : start_pulse => ~Writes(DmaRequest, reg)
  BY <1>2, RegisterAccess
<1>6. dma_state # "IDLE" \/ start_pulse => UNCHANGED <<r_src, r_dst, r_len>>
  BY <1>1, <1>5 DEF dma_active
<1> QED
  BY <1>1, <1>3, <1>4, <1>6

\* A copy walks over its words one by one.
LEMMA CopyStep ==
  ASSUME BusInv, NEW i \in IReqs \cup {None}, NEW d \in DReqs \cup {None}, Clock(i, d)
  PROVE  CopyInv'
<1> SUFFICES ASSUME dma_state' \in Active PROVE CopyInv'
  BY DEF CopyInv
<1>1. r_src \in Nat /\ r_dst \in Nat /\ r_len \in Nat /\ rem \in Nat /\ RamBegin \in Nat
      /\ cur_src \in Int /\ cur_dst \in Int
  BY MemBusAssumption DEF BusInv, RegType, TypeOK
<1>2. dma_state # "IDLE" \/ start_pulse => r_src' = r_src /\ r_dst' = r_dst /\ r_len' = r_len
  BY RegistersStep
<1>3. CASE DmaIdle(DmaRequest)
  <2>1. /\ start_pulse /\ r_len # 0
        /\ ~is_bad_align(r_len)
        /\ cur_src' = r_src - RamBegin /\ cur_dst' = r_dst - RamBegin /\ rem' = r_len
    BY <1>3 DEF DmaIdle, Active
  <2>2. r_len % 8 = 0
    BY <2>1 DEF is_bad_align
  <2>3. r_len = 8 * (r_len \div 8)
    BY <1>1, <2>2
  <2> QED
    BY <1>1, <1>2, <2>1, <2>3 DEF CopyInv, Copied
<1>4. CASE UNCHANGED <<cur_src, cur_dst, rem>> /\ dma_state \in Active
  BY <1>2, <1>4 DEF CopyInv, Copied, BusInv, Active
<1>5. CASE /\ dma_state = "WRITE_REQ" /\ rem # 8
           /\ cur_src' = cur_src + 8 /\ cur_dst' = cur_dst + 8 /\ rem' = rem - 8
  <2>1. /\ r_len = 8 * (r_len \div 8) /\ rem = 8 * (rem \div 8)
        /\ 0 < rem /\ rem <= r_len
        /\ cur_src = r_src - RamBegin + 8 * (r_len \div 8 - rem \div 8)
        /\ cur_dst = r_dst - RamBegin + 8 * (r_len \div 8 - rem \div 8)
    BY <1>5 DEF CopyInv, Copied, BusInv, Active
  <2>2. (rem - 8) \div 8 = rem \div 8 - 1 /\ rem > 8
    BY <1>1, <1>5, <2>1
  <2>3. r_src' = r_src /\ r_dst' = r_dst /\ r_len' = r_len
    BY <1>2, <1>5
  <2> QED
    BY <1>1, <1>5, <2>1, <2>2, <2>3 DEF CopyInv, Copied
<1>6. \/ DmaIdle(DmaRequest)
      \/ DmaRead(DmaRequest, dma_ready, out_rvalid /\ ~last_is_cpu, mem_rdata)
      \/ DmaWrite(DmaRequest, dma_ready)
      \/ DmaFinish(DmaRequest)
  BY DEF Clock, DmaClock
<1>7. CASE DmaRead(DmaRequest, dma_ready, out_rvalid /\ ~last_is_cpu, mem_rdata)
  BY <1>4, <1>7 DEF DmaRead, Active
<1>8. CASE DmaWrite(DmaRequest, dma_ready)
  BY <1>4, <1>5, <1>8 DEF DmaWrite, Active
<1>9. CASE DmaFinish(DmaRequest)
  BY <1>9 DEF DmaFinish, Active
<1> QED
  BY <1>3, <1>6, <1>7, <1>8, <1>9

\* Every register keeps its type.
LEMMA TypeStep ==
  ASSUME BusInv, NEW i \in IReqs \cup {None}, NEW d \in DReqs \cup {None}, Clock(i, d)
  PROVE  RegType'
<1> USE DEF BusInv
<1> DEFINE a == addr_to_ramaddr(out_req.addr)
<1>1. TypeOK
  BY DEF RegType
<1>2. memarb_last_i' \in BOOLEAN /\ req_issued' \in BOOLEAN
  BY <1>1, MuxRequest DEF TypeOK, Clock, Mux, MmioController
<1>3. req_saved' \in IReqs \cup DReqs \cup {None}
  BY <1>1, MuxRequest DEF TypeOK, Clock, MmioController
<1>4. astate' \in {"A_IDLE", "A_WAIT"} /\ last_is_cpu' \in BOOLEAN
  BY <1>1 DEF TypeOK, Clock, RamArbiter, cpu_valid, Drives
<1>5. dev_rvalid' \in BOOLEAN
  BY DEF Clock, Devices, Drives
<1>6. waiting' \in {"none", "i", "d"}
  BY <1>1 DEF TypeOK, Clock, History
<1>7. /\ mmio_rvalid_q' \in BOOLEAN /\ start_pulse' \in BOOLEAN
  <2>1. mmio_rvalid_q' = Drives("DMA")
    BY RegisterAccess DEF Clock, DmaClock, MmioRegisters
  <2> QED
    BY <2>1 DEF Drives, Clock, DmaClock, MmioRegisters
<1>8. r_src' \in Nat /\ r_dst' \in Nat /\ r_len' \in Nat
  BY RegistersStep
<1>9. /\ mem_state' \in {"Ready", "WriteValid"} /\ mem_rvalid' \in BOOLEAN
      /\ mem_rdata' \in Word /\ ram' \in [RamIdx -> Word]
      /\ mem_saved' \in [addr : RamIdx, rdata : Word, wdata : Word, wmask : SUBSET Lanes]
  <2>1. CASE mem_state = "Ready" /\ out_valid /\ MemoryReady
    <3>1. /\ a \in RamIdx /\ ram[a] \in Word /\ out_req.wen \in BOOLEAN
          /\ out_req.wdata \in Word /\ out_req.wmask \subseteq Lanes
      BY <1>1, <2>1, OutRequest DEF TypeOK
    <3>2. /\ mem_state' = IF out_req.wen THEN "WriteValid" ELSE "Ready"
          /\ mem_rdata' = ram[a] /\ ram' = ram
          /\ mem_saved' = [addr |-> a, rdata |-> ram[a],
                           wdata |-> out_req.wdata, wmask |-> out_req.wmask]
      BY <2>1 DEF MemoryReady
    <3>3. mem_rvalid' \in BOOLEAN
      BY <2>1 DEF MemoryReady
    <3>4. mem_saved' \in [addr : RamIdx, rdata : Word, wdata : Word, wmask : SUBSET Lanes]
      BY <3>1, <3>2
    <3> QED
      BY <1>1, <3>1, <3>2, <3>3, <3>4 DEF TypeOK
  <2>2. CASE mem_state = "Ready" /\ ~out_valid /\ MemoryReady
    BY <1>1, <2>2 DEF TypeOK, MemoryReady
  <2>3. CASE mem_state = "WriteValid" /\ ~out_valid /\ ~mem_rvalid /\ MemoryWriteValid
    <3>1. /\ mem_saved.rdata \in Word /\ mem_saved.wdata \in Word /\ mem_saved.addr \in RamIdx
      BY <1>1 DEF TypeOK
    <3>2. merge(mem_saved.rdata, mem_saved.wdata, mem_saved.wmask) \in Word
      BY <3>1, MergeWord
    <3>3. ram' \in [RamIdx -> Word]
      BY <1>1, <2>3, <3>1, <3>2 DEF TypeOK, MemoryWriteValid
    <3> QED
      BY <1>1, <2>3, <3>1, <3>3 DEF TypeOK, MemoryWriteValid
  <2> QED
    BY <2>1, <2>2, <2>3, RamCases
<1>10. golden' \in [RamIdx -> Word] /\ due' \in Word \cup {None}
  <2>1. CASE ~out_fire
    BY <1>1, <2>1, GoldenStep DEF TypeOK
  <2>2. CASE out_fire
    <3>1. a \in RamIdx /\ golden[a] \in Word /\ out_req.wdata \in Word
      BY <1>1, <2>2, OutRequest DEF TypeOK, out_fire
    <3>2. merge(golden[a], out_req.wdata, out_req.wmask) \in Word
      BY <3>1, MergeWord
    <3> QED
      BY <1>1, <2>2, <3>1, <3>2, GoldenStep DEF TypeOK
  <2> QED
    BY <2>1, <2>2
<1>11. dma_state' \in {"IDLE", "READ_REQ", "READ_WAIT", "WRITE_REQ", "DONE", "ERR"}
  BY <1>1 DEF TypeOK, Clock, DmaClock, DmaIdle, DmaRead, DmaWrite, DmaFinish
<1>12. rd_buf' \in Word
  BY <1>1 DEF TypeOK, Clock, DmaClock, DmaIdle, DmaRead, DmaWrite, DmaFinish
<1>13. st_busy' \in BOOLEAN
  BY DEF RegType, Clock, DmaClock, DmaIdle, DmaRead, DmaWrite, DmaFinish
<1>14. cur_src' \in Int /\ cur_dst' \in Int /\ rem' \in Nat
  <2>1. r_src \in Nat /\ r_dst \in Nat /\ r_len \in Nat /\ rem \in Nat /\ RamBegin \in Nat
        /\ cur_src \in Int /\ cur_dst \in Int
    BY <1>1, MemBusAssumption DEF RegType, TypeOK
  <2>2. dma_state = "WRITE_REQ" => rem >= 8
    <3>1. dma_state = "WRITE_REQ" => rem = 8 * (rem \div 8) /\ 0 < rem
      BY DEF CopyInv, Active
    <3> QED
      BY <2>1, <3>1
  <2> QED
    BY <2>1, <2>2 DEF Clock, DmaClock, DmaIdle, DmaRead, DmaWrite, DmaFinish
<1>15. disturbed' \in BOOLEAN
  BY DEF Clock, History
<1>16. TypeOK'
  BY <1>2, <1>3, <1>4, <1>6, <1>9, <1>10, <1>11, <1>12, <1>14, <1>15 DEF TypeOK
<1> QED
  BY <1>5, <1>7, <1>8, <1>13, <1>14, <1>16 DEF RegType

-----------------------------------------------------------------------------
LEMMA InductiveBus == BusInv /\ [Next]_vars => BusInv'
<1> SUFFICES ASSUME BusInv, [Next]_vars PROVE BusInv'
  OBVIOUS
<1>1. CASE Next
  <2>1. PICK i \in IReqs \cup {None}, d \in DReqs \cup {None} : Clock(i, d)
    BY <1>1 DEF Next
  <2> QED
    BY <2>1, TypeStep, PortStep, IssuedStep, RamStep, BusyStep, CopyStep DEF BusInv
<1>2. CASE UNCHANGED vars
  BY <1>2 DEF vars, dmaVars, busVars, ramVars, BusInv, RegType, TypeOK, PortInv, IssuedInv,
              RamInv, BusyInv, CopyInv, Copied, merge
<1> QED
  BY <1>1, <1>2

LEMMA BusAlways == Spec => []BusInv
<1> QED
  BY InitInv, InductiveBus, PTL DEF Spec

\* Every register of the memory system holds a value of its type.
THEOREM TypeCorrect == Spec => []TypeOK
<1>1. BusInv => TypeOK
  BY DEF BusInv, RegType
<1> QED
  BY <1>1, BusAlways, PTL

\* An answer goes to the port that asked and only after its device took the
\* request (src/top.sv routes by memarb_last_i, mmio_controller.sv passes the
\* device's rvalid on without looking at req_issued).
THEOREM AskerAnswered == Spec => []AnswersTheAsker
<1>1. BusInv => AnswersTheAsker
  <2> SUFFICES ASSUME BusInv PROVE AnswersTheAsker
    OBVIOUS
  <2>1. get_device_rvalid => req_issued
    BY AnswersIssued DEF BusInv
  <2>2. get_device_rvalid => req_saved # None
    BY DEF get_device_rvalid
  <2> QED
    BY <2>1, <2>2 DEF BusInv, PortInv, AnswersTheAsker, i_rvalid, d_rvalid
<1> QED
  BY <1>1, BusAlways, PTL

\* A RAM read returns the word as all requests granted before it leave it,
\* although memory.sv commits a write a cycle after it accepted it.
THEOREM ReadsAreCurrent == Spec => []ReadsCurrent
<1>1. BusInv => ReadsCurrent
  BY DEF BusInv, RamInv, ReadsCurrent, out_rvalid
<1> QED
  BY <1>1, BusAlways, PTL

\* A STATUS read without busy means that the copy is over and in the RAM.
THEOREM StatusIsHonest == Spec => []StatusHonest
<1>1. BusInv => StatusHonest
  <2> SUFFICES ASSUME BusInv, Drives("DMA"), ~st_busy
               PROVE  /\ dma_state \notin {"READ_REQ", "READ_WAIT", "WRITE_REQ"} /\ ~start_pulse
                      /\ ram = golden
    BY DEF StatusHonest
  <2>1. req_saved.dev = "DMA" /\ ~req_issued
    BY DEF Drives
  <2>2. ~start_pulse /\ (astate = "A_WAIT" => ~last_is_cpu)
    BY <2>1 DEF BusInv, IssuedInv
  <2>3. mem_state = "Ready"
    BY <2>2 DEF BusInv, BusyInv, RamInv, RegType, TypeOK
  <2> QED
    BY <2>2, <2>3 DEF BusInv, BusyInv, RamInv, Active
<1> QED
  BY <1>1, BusAlways, PTL

\* What the engine writes lies inside its destination region.
LEMMA WriteInside ==
  ASSUME BusInv, dma_state = "WRITE_REQ"
  PROVE  /\ Copied \in 0 .. r_len \div 8 - 1
         /\ addr_to_ramaddr(cur_dst) = Idx(r_dst, Copied)
         /\ addr_to_ramaddr(cur_dst) \in DstWords
<1>1. /\ r_len \in Nat /\ rem \in Nat /\ r_len = 8 * (r_len \div 8) /\ rem = 8 * (rem \div 8)
      /\ 0 < rem /\ rem <= r_len
      /\ cur_dst = r_dst - RamBegin + 8 * Copied
  BY DEF BusInv, RegType, TypeOK, CopyInv, Active
<1>2. Copied \in 0 .. r_len \div 8 - 1
  BY <1>1 DEF Copied
<1>3. addr_to_ramaddr(cur_dst) = Idx(r_dst, Copied)
  BY <1>1 DEF Idx
<1> QED
  BY <1>2, <1>3 DEF DstWords

\* The engine changes the RAM only inside the destination region (dma.sv,
\* S_WRITE_REQ), however its registers are written while it runs.
THEOREM CopyIsContained == Spec => CopyContained
<1>1. BusInv /\ [Next]_vars =>
        [\A a \in RamIdx : golden'[a] # golden[a] /\ ~cpu_valid => a \in DstWords]_vars
  <2> SUFFICES ASSUME BusInv, Next, NEW a \in RamIdx, golden'[a] # golden[a], ~cpu_valid
               PROVE  a \in DstWords
    OBVIOUS
  <2>1. PICK i \in IReqs \cup {None}, d \in DReqs \cup {None} : Clock(i, d)
    BY DEF Next
  <2>2. out_fire /\ out_req.wen
    BY <2>1, GoldenStep
  <2>3. dma_state = "WRITE_REQ" /\ out_req.addr = cur_dst
    BY <2>2 DEF out_req, dma_ram_wen, dma_ram_addr
  <2>4. /\ golden' = [golden EXCEPT ![addr_to_ramaddr(cur_dst)] =
              merge(golden[addr_to_ramaddr(cur_dst)], out_req.wdata, out_req.wmask)]
        /\ golden \in [RamIdx -> Word]
    BY <2>1, <2>2, <2>3, GoldenStep DEF BusInv, RegType, TypeOK
  <2>5. a = addr_to_ramaddr(cur_dst)
    BY <2>4
  <2> QED
    BY <2>3, <2>5, WriteInside
<1> QED
  BY <1>1, BusAlways, PTL DEF Spec, CopyContained

-----------------------------------------------------------------------------
(***************************************************************************)
(* What a copy does to the data.                                           *)
(***************************************************************************)

\* Division with remainder has one answer.
LEMMA Remainder ==
  ASSUME NEW N \in Nat \ {0}, NEW q \in Int, NEW r \in 0 .. N - 1
  PROVE  (N * q + r) % N = r
OBVIOUS

LEMMA Division ==
  ASSUME NEW N \in Nat \ {0}, NEW z \in Int
  PROVE  \E q \in Int, r \in 0 .. N - 1 : z = N * q + r /\ z % N = r
OBVIOUS

\* Two words of a region that wrap onto the same RAM word do so in every region.
LEMMA WrapsAlike ==
  ASSUME NEW a \in Int, NEW b \in Int, NEW k \in Int, NEW j \in Int, Idx(a, k) = Idx(a, j)
  PROVE  Idx(b, k) = Idx(b, j)
<1> DEFINE x == (a - RamBegin) \div 8
           y == (b - RamBegin) \div 8
<1>1. RamWords \in Nat \ {0} /\ RamBegin \in Nat
  BY MemBusAssumption
<1>2. x \in Int /\ y \in Int
  BY <1>1
<1>3. /\ Idx(a, k) = (x + k) % RamWords /\ Idx(a, j) = (x + j) % RamWords
      /\ Idx(b, k) = (y + k) % RamWords /\ Idx(b, j) = (y + j) % RamWords
  <2>1. \A c, m \in Int : (c + 8 * m) \div 8 = c \div 8 + m
    OBVIOUS
  <2>2. a - RamBegin \in Int /\ b - RamBegin \in Int
    BY <1>1
  <2> QED
    BY <2>1, <2>2 DEF Idx, addr_to_ramaddr
<1> HIDE DEF x, y
<1>4. \A z \in Int : \E q \in Int, r \in 0 .. RamWords - 1 :
         z = RamWords * q + r /\ z % RamWords = r
  BY <1>1, Division
<1> DEFINE u == x + k
           v == x + j
           w == y + k
<1>4a. u \in Int /\ v \in Int /\ w \in Int
  BY <1>2
<1> HIDE DEF u, v, w
<1>5. PICK q1 \in Int, r \in 0 .. RamWords - 1 : u = RamWords * q1 + r /\ u % RamWords = r
  BY <1>4, <1>4a
<1>6. PICK q2 \in Int, r2 \in 0 .. RamWords - 1 : v = RamWords * q2 + r2 /\ v % RamWords = r2
  BY <1>4, <1>4a
<1>7. PICK q3 \in Int, s \in 0 .. RamWords - 1 : w = RamWords * q3 + s /\ w % RamWords = s
  BY <1>4, <1>4a
<1> USE DEF u, v, w
<1>8. r = r2
  BY <1>3, <1>5, <1>6
<1>9. y + j = RamWords * q3 - RamWords * q1 + RamWords * q2 + s
  BY <1>1, <1>2, <1>5, <1>6, <1>7, <1>8
<1>10. y + j = RamWords * (q3 - q1 + q2) + s
  BY <1>1, <1>9
<1> DEFINE q == q3 - q1 + q2
<1>11. q \in Int /\ y + j = RamWords * q + s
  BY <1>10
<1> HIDE DEF q
<1>12. (y + j) % RamWords = s
  BY <1>1, <1>11, Remainder
<1> QED
  BY <1>3, <1>7, <1>12

\* The words of the regions are words of the RAM.
LEMMA RegionsInRam ==
  ASSUME BusInv
  PROVE  /\ \A n \in Int : Idx(r_src, n) \in RamIdx /\ Idx(r_dst, n) \in RamIdx
         /\ SrcWords \cup DstWords \subseteq RamIdx
<1>1. r_src \in Nat /\ r_dst \in Nat /\ RamBegin \in Nat /\ r_len \in Nat
  BY MemBusAssumption DEF BusInv, RegType, TypeOK
<1>2. \A n \in Int : r_src - RamBegin + 8 * n \in Int /\ r_dst - RamBegin + 8 * n \in Int
  BY <1>1
<1>3. \A n \in Int : Idx(r_src, n) \in RamIdx /\ Idx(r_dst, n) \in RamIdx
  BY <1>2, RamAddress DEF Idx
<1>4. \A k \in 0 .. r_len \div 8 - 1 : k \in Int
  BY <1>1
<1> QED
  BY <1>3, <1>4 DEF SrcWords, DstWords

\* Without a store of the core into the regions of a copy, only a write of the
\* engine changes their words.
LEMMA GoldenByEngine ==
  ASSUME BusInv, NEW i \in IReqs \cup {None}, NEW d \in DReqs \cup {None}, Clock(i, d),
         dma_state # "IDLE", ~disturbed'
  PROVE  /\ ~(dma_state = "WRITE_REQ" /\ dma_ready) =>
              \A a \in SrcWords \cup DstWords : golden'[a] = golden[a]
         /\ dma_state = "WRITE_REQ" /\ dma_ready =>
              golden' = [golden EXCEPT ![Idx(r_dst, Copied)] = rd_buf]
<1>1. ASSUME cpu_ready, out_req.wen
      PROVE  addr_to_ramaddr(out_req.addr) \notin SrcWords \cup DstWords
  BY <1>1 DEF Clock, History, dma_active
<1>2. ~cpu_valid /\ out_req.wen => dma_state = "WRITE_REQ"
  BY DEF out_req, dma_ram_wen
<1>3. ASSUME ~(dma_state = "WRITE_REQ" /\ dma_ready), NEW a \in SrcWords \cup DstWords
      PROVE  golden'[a] = golden[a]
  <2>1. CASE out_fire /\ out_req.wen
    <3>1. cpu_ready
      BY <1>2, <1>3, <2>1 DEF dma_ready, cpu_ready
    <3>2. a # addr_to_ramaddr(out_req.addr)
      BY <1>1, <1>3, <2>1, <3>1
    <3> QED
      BY <1>3, <2>1, <3>2, GoldenStep, RegionsInRam DEF BusInv, RegType, TypeOK
  <2>2. CASE ~(out_fire /\ out_req.wen)
    BY <2>2, GoldenStep
  <2> QED
    BY <2>1, <2>2
<1>4. ASSUME dma_state = "WRITE_REQ", dma_ready
      PROVE  golden' = [golden EXCEPT ![Idx(r_dst, Copied)] = rd_buf]
  <2>1. /\ out_fire /\ out_req.wen /\ out_req.addr = cur_dst
        /\ out_req.wdata = rd_buf /\ out_req.wmask = Lanes
    BY <1>4 DEF dma_ready, out_req, dma_ram_wen, dma_ram_addr
  <2>2. addr_to_ramaddr(cur_dst) = Idx(r_dst, Copied)
    BY <1>4, WriteInside
  <2>3. \A old \in Word : merge(old, rd_buf, Lanes) = rd_buf
    <3>1. rd_buf \in [Lanes -> Vals]
      BY MemBusAssumption DEF BusInv, RegType, TypeOK
    <3> QED
      BY <3>1 DEF merge
  <2>4. golden \in [RamIdx -> Word] /\ Idx(r_dst, Copied) \in RamIdx
    BY <2>1, <2>2, OutRequest DEF BusInv, RegType, TypeOK, out_fire
  <2>5. golden' = [golden EXCEPT ![Idx(r_dst, Copied)] =
                     merge(golden[Idx(r_dst, Copied)], rd_buf, Lanes)]
    BY <2>1, <2>2, GoldenStep
  <2> QED
    BY <2>3, <2>4, <2>5
<1> QED
  BY <1>3, <1>4

\* One more word is copied, and the words copied before stay equal.
LEMMA OneMoreWord ==
  ASSUME BusInv, DataInv,
         NEW i \in IReqs \cup {None}, NEW d \in DReqs \cup {None}, Clock(i, d),
         dma_state = "WRITE_REQ", dma_ready, ~disturbed',
         SrcWords \cap DstWords = {},
         NEW k \in 0 .. Copied
  PROVE  golden'[Idx(r_dst, k)] = golden'[Idx(r_src, k)]
<1>1. golden' = [golden EXCEPT ![Idx(r_dst, Copied)] = rd_buf]
  BY GoldenByEngine
<1>2. golden \in [RamIdx -> Word] /\ r_src \in Nat /\ r_dst \in Nat /\ RamBegin \in Nat
  BY MemBusAssumption DEF BusInv, RegType, TypeOK
<1>3. Copied \in 0 .. r_len \div 8 - 1 /\ k \in 0 .. r_len \div 8 - 1 /\ r_len \div 8 \in Int
      /\ Copied \in Int /\ k \in Int
  <2>1. r_len \in Nat
    BY DEF BusInv, RegType
  <2> QED
    BY <2>1, WriteInside
<1>4. \A n \in Int : Idx(r_src, n) \in RamIdx /\ Idx(r_dst, n) \in RamIdx
  BY RegionsInRam
<1>5. Idx(r_src, k) # Idx(r_dst, Copied)
  BY <1>3 DEF SrcWords, DstWords
<1>6. golden'[Idx(r_src, k)] = golden[Idx(r_src, k)]
  BY <1>1, <1>2, <1>3, <1>4, <1>5
<1>7. CASE Idx(r_dst, k) = Idx(r_dst, Copied)
  <2>1. Idx(r_src, k) = Idx(r_src, Copied)
    BY <1>2, <1>3, <1>7, WrapsAlike
  <2>2. golden'[Idx(r_dst, k)] = rd_buf
    BY <1>1, <1>2, <1>3, <1>4, <1>7
  <2> QED
    BY <1>6, <2>1, <2>2 DEF DataInv
<1>8. CASE Idx(r_dst, k) # Idx(r_dst, Copied)
  <2>1. golden'[Idx(r_dst, k)] = golden[Idx(r_dst, k)]
    BY <1>1, <1>2, <1>3, <1>4, <1>8
  <2>2. k \in 0 .. Copied - 1
    <3>1. k # Copied
      BY <1>8
    <3> QED
      BY <1>3, <3>1
  <2>3. golden[Idx(r_dst, k)] = golden[Idx(r_src, k)]
    BY <2>2 DEF DataInv, CopiedUpTo, Active
  <2> QED
    BY <1>6, <2>1, <2>3
<1> QED
  BY <1>7, <1>8

\* A copy keeps the words it has copied, and holds the word it is copying.
LEMMA DataStep ==
  ASSUME BusInv, UndisturbedInv,
         NEW i \in IReqs \cup {None}, NEW d \in DReqs \cup {None}, Clock(i, d),
         ~disturbed'
  PROVE  DataInv'
<1> DEFINE rv == out_rvalid /\ ~last_is_cpu
<1>0. dma_state # "IDLE" => DataInv
  BY DEF UndisturbedInv, Clock, History, dma_active
<1>1. dma_state # "IDLE" \/ start_pulse => r_src' = r_src /\ r_dst' = r_dst /\ r_len' = r_len
  BY RegistersStep
<1>2. ASSUME dma_state # "IDLE", rem' = rem
      PROVE  Copied' = Copied /\ Idx(r_src', Copied') = Idx(r_src, Copied)
  BY <1>1, <1>2 DEF Copied
<1> DEFINE Kept == \A a \in SrcWords \cup DstWords : golden'[a] = golden[a]
<1>3. ASSUME dma_state # "IDLE", Kept, NEW n \in Int, n <= r_len \div 8, CopiedUpTo(n)
      PROVE  CopiedUpTo(n)'
  <2>1. \A k \in 0 .. n - 1 : k \in 0 .. r_len \div 8 - 1
    BY <1>3 DEF BusInv, RegType
  <2>2. \A k \in 0 .. n - 1 : Idx(r_src, k) \in SrcWords /\ Idx(r_dst, k) \in DstWords
    BY <2>1 DEF SrcWords, DstWords
  <2>3. /\ SrcWords' = SrcWords /\ DstWords' = DstWords
        /\ \A k : Idx(r_src', k) = Idx(r_src, k) /\ Idx(r_dst', k) = Idx(r_dst, k)
    BY <1>1, <1>3 DEF SrcWords, DstWords, Idx, addr_to_ramaddr
  <2>4. \A k : Idx(r_src, k)' = Idx(r_src', k) /\ Idx(r_dst, k)' = Idx(r_dst', k)
    BY DEF Idx, addr_to_ramaddr
  <2> QED
    BY <1>3, <2>2, <2>3, <2>4 DEF CopiedUpTo
\* The word being copied is one of the regions' words.
<1>3a. ASSUME dma_state \in Active
       PROVE  /\ Copied \in Int /\ Copied <= r_len \div 8
              /\ Idx(r_src, Copied) \in SrcWords
  <2>1. /\ r_len \in Nat /\ rem \in Nat /\ r_len = 8 * (r_len \div 8) /\ rem = 8 * (rem \div 8)
        /\ 0 < rem /\ rem <= r_len
    BY <1>3a DEF BusInv, RegType, TypeOK, CopyInv
  <2>2. Copied \in 0 .. r_len \div 8 - 1
    BY <2>1 DEF Copied
  <2> QED
    BY <2>1, <2>2 DEF SrcWords
<1>4. CASE DmaIdle(DmaRequest)
  <2>1. CASE dma_state' = "READ_REQ"
    <3>1. rem' = r_len /\ r_len' = r_len /\ r_len \in Nat
      BY <1>1, <1>4, <2>1 DEF DmaIdle, BusInv, RegType
    <3>2. Copied' = 0
      BY <3>1 DEF Copied
    <3>3. CopiedUpTo(Copied)'
      BY <3>2 DEF CopiedUpTo
    <3> QED
      BY <2>1, <3>3 DEF DataInv
  <2>2. CASE dma_state' = "DONE"
    <3>1. r_len' = 0
      BY <1>1, <1>4, <2>2 DEF DmaIdle
    <3> QED
      BY <2>2, <3>1 DEF DataInv, Active
  <2>3. CASE dma_state' \in {"IDLE", "ERR"}
    BY <2>3 DEF DataInv, Active
  <2> QED
    BY <1>4, <2>1, <2>2, <2>3 DEF DmaIdle
<1>5. CASE DmaRead(DmaRequest, dma_ready, rv, mem_rdata)
  <2>1. /\ rem' = rem /\ dma_state \in Active /\ dma_state # "IDLE"
        /\ dma_state' \in Active /\ dma_state # "WRITE_REQ"
    BY <1>5 DEF DmaRead, Active
  <2>0. Kept /\ DataInv
    BY <1>0, <2>1, GoldenByEngine
  <2>2. CopiedUpTo(Copied)'
    <3>1. CopiedUpTo(Copied)
      BY <2>0, <2>1 DEF DataInv
    <3>0. PICK n : n = Copied
      OBVIOUS
    <3>2. CopiedUpTo(n) /\ Copied' = n /\ n \in Int /\ n <= r_len \div 8
      BY <1>2, <1>3a, <2>1, <3>0, <3>1
    <3>3. CopiedUpTo(n)'
      BY <1>3, <2>0, <2>1, <3>2
    <3> QED
      BY <3>2, <3>3 DEF CopiedUpTo
  <2>3. CASE dma_state = "READ_REQ" /\ dma_ready
    <3>1. /\ out_fire /\ ~cpu_valid /\ out_req.addr = cur_src /\ out_req.wen = FALSE
          /\ dma_state' = "READ_WAIT"
      BY <1>5, <2>3 DEF DmaRead, dma_ready, out_req, dma_ram_addr, dma_ram_wen
    <3>2. astate' = "A_WAIT" /\ ~last_is_cpu'
      BY <3>1 DEF Clock, RamArbiter, out_fire, out_valid
    <3>3. due' = golden[addr_to_ramaddr(cur_src)]
      BY <3>1, GoldenStep
    <3>4. addr_to_ramaddr(cur_src) = Idx(r_src, Copied)
      BY <2>1 DEF BusInv, CopyInv, Idx
    <3>5. due' = golden'[Idx(r_src', Copied')]
      BY <1>2, <1>3a, <2>0, <2>1, <3>3, <3>4
    <3>6. Idx(r_src', Copied') = Idx(r_src, Copied)'
      BY DEF Idx, addr_to_ramaddr, Copied
    <3> QED
      BY <2>2, <3>1, <3>2, <3>5, <3>6 DEF DataInv
  <2>4. CASE dma_state = "READ_REQ" /\ ~dma_ready
    <3>1. dma_state' = "READ_REQ"
      BY <1>5, <2>4 DEF DmaRead
    <3> QED
      BY <2>2, <3>1 DEF DataInv
  <2>5. CASE dma_state = "READ_WAIT"
    <3>1. /\ astate = "A_WAIT" /\ ~last_is_cpu /\ due = golden[Idx(r_src, Copied)]
          /\ ~out_fire /\ due' = due
      BY <2>0, <2>5, GoldenStep DEF DataInv, out_fire, out_valid
    <3>2. Idx(r_src', Copied') = Idx(r_src, Copied)'
      BY DEF Idx, addr_to_ramaddr, Copied
    <3>3. golden'[Idx(r_src, Copied)'] = golden[Idx(r_src, Copied)]
      BY <1>2, <1>3a, <2>0, <2>1, <3>2
    <3>4. CASE mem_rvalid
      <4>1. dma_state' = "WRITE_REQ" /\ rd_buf' = mem_rdata
        BY <1>5, <2>5, <3>1, <3>4 DEF DmaRead, out_rvalid
      <4>2. due # None
        <5>1. Idx(r_src, Copied) \in RamIdx
          <6>1. cur_src \in Int /\ addr_to_ramaddr(cur_src) = Idx(r_src, Copied)
            BY <2>1 DEF BusInv, CopyInv, Idx, RegType
          <6> QED
            BY <6>1, RamAddress
        <5> QED
          BY <3>1, <5>1, MemBusAssumption DEF BusInv, RegType, TypeOK
      <4>3. mem_rdata = due
        BY <3>4, <4>2 DEF BusInv, RamInv
      <4> QED
        BY <2>2, <3>1, <3>3, <4>1, <4>3 DEF DataInv
    <3>5. CASE ~mem_rvalid
      <4>1. dma_state' = "READ_WAIT"
        BY <1>5, <2>5, <3>5 DEF DmaRead, out_rvalid
      <4>2. astate' = "A_WAIT" /\ last_is_cpu' = last_is_cpu
        BY <3>1, <3>5 DEF Clock, RamArbiter
      <4> QED
        BY <2>2, <3>1, <3>3, <4>1, <4>2 DEF DataInv
    <3> QED
      BY <3>4, <3>5
  <2> QED
    BY <1>5, <2>3, <2>4, <2>5 DEF DmaRead
<1>6. CASE DmaWrite(DmaRequest, dma_ready)
  <2>0. dma_state = "WRITE_REQ" /\ DataInv /\ dma_state \in Active
    BY <1>0, <1>6 DEF DmaWrite, Active
  <2>1. CASE ~dma_ready
    <3>1. /\ Kept /\ rem' = rem /\ dma_state' = "WRITE_REQ" /\ rd_buf' = rd_buf
          /\ Copied' = Copied
      BY <1>2, <1>6, <2>0, <2>1, GoldenByEngine DEF DmaWrite
    <3>2. CopiedUpTo(Copied)'
      <4>0. PICK n : n = Copied
        OBVIOUS
      <4>1. CopiedUpTo(n) /\ Copied' = n /\ n \in Int /\ n <= r_len \div 8
        BY <1>3a, <2>0, <3>1, <4>0 DEF DataInv
      <4>2. CopiedUpTo(n)'
        BY <1>3, <2>0, <3>1, <4>1
      <4> QED
        BY <4>1, <4>2 DEF CopiedUpTo
    <3>3. Idx(r_src', Copied') = Idx(r_src, Copied)'
      BY DEF Idx, addr_to_ramaddr, Copied
    <3>4. rd_buf' = golden'[Idx(r_src, Copied)']
      BY <1>2, <1>3a, <2>0, <3>1, <3>3 DEF DataInv
    <3> QED
      BY <3>1, <3>2, <3>4 DEF DataInv
  <2>2. CASE dma_ready
    <3>1. rem' = rem - 8 /\ dma_state' = IF rem = 8 THEN "DONE" ELSE "READ_REQ"
      BY <1>6, <2>2 DEF DmaWrite
    <3>2. /\ r_len \in Nat /\ rem \in Nat /\ rem = 8 * (rem \div 8) /\ 0 < rem
          /\ r_src' = r_src /\ r_dst' = r_dst /\ r_len' = r_len
      BY <1>1, <2>0 DEF BusInv, RegType, TypeOK, CopyInv, Active
    <3>3. Copied' = Copied + 1 /\ Copied \in Int
      BY <3>1, <3>2 DEF Copied
    <3>0. PICK n : n = Copied + 1
      OBVIOUS
    <3>4. ASSUME SrcWords \cap DstWords = {}, NEW k \in 0 .. n - 1
          PROVE  golden'[Idx(r_dst, k)] = golden'[Idx(r_src, k)]
      <4>1. k \in 0 .. Copied
        BY <3>0, <3>3, <3>4
      <4> QED
        BY <2>0, <2>2, <3>4, <4>1, OneMoreWord
    <3>5. CopiedUpTo(n)'
      BY <3>2, <3>4 DEF CopiedUpTo, SrcWords, DstWords, Idx, addr_to_ramaddr
    <3>6. CASE rem = 8
      <4>1. n = r_len \div 8 /\ r_len' = r_len
        BY <3>0, <3>2, <3>6 DEF Copied
      <4>2. CopiedUpTo(r_len \div 8)'
        BY <3>5, <4>1 DEF CopiedUpTo
      <4> QED
        BY <3>1, <3>6, <4>2 DEF DataInv, Active
    <3>7. CASE rem # 8
      <4>1. CopiedUpTo(Copied)'
        BY <3>0, <3>3, <3>5 DEF CopiedUpTo
      <4> QED
        BY <3>1, <3>7, <4>1 DEF DataInv
    <3> QED
      BY <3>6, <3>7
  <2> QED
    BY <2>1, <2>2
<1>7. CASE DmaFinish(DmaRequest)
  BY <1>7 DEF DmaFinish, DataInv, Active
<1> QED
  BY <1>4, <1>5, <1>6, <1>7 DEF Clock, DmaClock

\* A copy between disjoint regions that the engine reports done has copied every
\* word, wrap-around included, unless the core has stored into the regions.
THEOREM CopiesAreCorrect == Spec => []CopyCorrect
<1>1. Init => UndisturbedInv
  BY DEF Init, DmaInit, UndisturbedInv, DataInv, Active
<1>2. BusInv /\ UndisturbedInv /\ [Next]_vars => UndisturbedInv'
  <2> SUFFICES ASSUME BusInv, UndisturbedInv, [Next]_vars PROVE UndisturbedInv'
    OBVIOUS
  <2>1. CASE Next
    <3>1. PICK i \in IReqs \cup {None}, d \in DReqs \cup {None} : Clock(i, d)
      BY <2>1 DEF Next
    <3> QED
      BY <3>1, DataStep DEF UndisturbedInv
  <2>2. CASE UNCHANGED vars
    BY <2>2 DEF vars, dmaVars, busVars, ramVars, UndisturbedInv, DataInv, CopiedUpTo, SrcWords,
                DstWords, Idx, addr_to_ramaddr, Copied
  <2> QED
    BY <2>1, <2>2
<1>3. UndisturbedInv => CopyCorrect
  BY DEF UndisturbedInv, DataInv, CopiedUpTo, CopyCorrect
<1> QED
  BY <1>1, <1>2, <1>3, BusAlways, PTL DEF Spec
=============================================================================
