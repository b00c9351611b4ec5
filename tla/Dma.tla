-------------------------------- MODULE Dma ---------------------------------
(***************************************************************************)
(* The DMA engine of src/dma.sv: registers written over the memory-mapped  *)
(* port, and a state machine that copies RAM eight bytes at a time through *)
(* its own port of the RAM arbiter.  DmaClock is one clock cycle; module   *)
(* MemBus supplies its inputs.                                             *)
(***************************************************************************)
EXTENDS Integers

CONSTANTS RamBegin, Word, ZeroWord

VARIABLES
  r_src, r_dst, r_len,
  st_busy, st_done, st_err,
  mmio_rvalid_q, mmio_rdata_q, start_pulse,
  dma_state, cur_src, cur_dst, rem, rd_buf

dmaVars == <<r_src, r_dst, r_len, st_busy, st_done, st_err, mmio_rvalid_q,
             mmio_rdata_q, start_pulse, dma_state, cur_src, cur_dst, rem, rd_buf>>

dma_active == dma_state # "IDLE"

is_bad_align(a) == a % 8 # 0

\* The request on the RAM port.
dma_ram_valid == dma_state \in {"READ_REQ", "WRITE_REQ"}
dma_ram_wen == dma_state = "WRITE_REQ"
dma_ram_addr == IF dma_ram_wen THEN cur_dst ELSE cur_src

\* An answer over the memory-mapped port: the register read, the status bits.
\* The interrupt-enable bit that CTRL keeps is left out: nothing uses it.
DmaAnswer(reg) ==
  CASE reg = "STATUS" -> [busy |-> st_busy, done |-> st_done, err |-> st_err]
    [] reg = "SRC"    -> r_src
    [] reg = "DST"    -> r_dst
    [] reg = "LEN"    -> r_len
    [] OTHER          -> 0

\* mm is the request that fires on the memory-mapped port in this cycle:
\* valid, wen, reg, value (for CTRL the set of bits written as one).
Writes(mm, reg) == mm.valid /\ mm.wen /\ mm.reg = reg

MmioRegisters(mm) ==
  /\ mmio_rvalid_q' = mm.valid
  /\ mmio_rdata_q' = IF ~mm.valid THEN mmio_rdata_q
                     ELSE IF mm.wen THEN 0 ELSE DmaAnswer(mm.reg)
  /\ start_pulse' = (Writes(mm, "CTRL") /\ "START" \in mm.value /\ ~dma_active)
  /\ r_src' = IF Writes(mm, "SRC") /\ ~dma_active THEN mm.value ELSE r_src
  /\ r_dst' = IF Writes(mm, "DST") /\ ~dma_active THEN mm.value ELSE r_dst
  /\ r_len' = IF Writes(mm, "LEN") /\ ~dma_active THEN mm.value ELSE r_len

\* done and err after the CTRL write of this cycle; the state machine's own
\* assignments come later in the block and win.
cleared(mm, bit) == bit /\ ~(Writes(mm, "CTRL") /\ "CLEAR_DONE" \in mm.value)

\* IDLE: a start captures the registers, unless there is nothing to copy.
DmaIdle(mm) ==
  LET bad == is_bad_align(r_src) \/ is_bad_align(r_dst) \/ is_bad_align(r_len)
      go  == start_pulse /\ ~bad /\ r_len # 0
  IN /\ dma_state = "IDLE"
     /\ dma_state' = IF ~start_pulse THEN "IDLE" ELSE IF bad THEN "ERR"
                     ELSE IF r_len = 0 THEN "DONE" ELSE "READ_REQ"
     /\ st_busy' = go
     /\ st_done' = IF start_pulse THEN ~bad /\ r_len = 0 ELSE cleared(mm, st_done)
     /\ st_err' = IF start_pulse THEN bad ELSE cleared(mm, st_err)
     /\ cur_src' = IF go THEN r_src - RamBegin ELSE cur_src
     /\ cur_dst' = IF go THEN r_dst - RamBegin ELSE cur_dst
     /\ rem' = IF go THEN r_len ELSE rem
     /\ UNCHANGED rd_buf

DropsBusy(mm, ready, rvalid, rdata) ==
  /\ \/ /\ dma_state = "READ_REQ"
        /\ dma_state' = IF ready THEN "READ_WAIT" ELSE dma_state
        /\ UNCHANGED rd_buf
     \/ /\ dma_state = "READ_WAIT"
        /\ dma_state' = IF rvalid THEN "WRITE_REQ" ELSE dma_state
        /\ rd_buf' = IF rvalid THEN rdata ELSE rd_buf
  /\ st_busy' = FALSE
  /\ st_done' = cleared(mm, st_done) /\ st_err' = cleared(mm, st_err)
  /\ UNCHANGED <<cur_src, cur_dst, rem>>

DmaRead(mm, ready, rvalid, rdata) ==
  /\ \/ /\ dma_state = "READ_REQ"
        /\ dma_state' = IF ready THEN "READ_WAIT" ELSE dma_state
        /\ UNCHANGED rd_buf
     \/ /\ dma_state = "READ_WAIT"
        /\ dma_state' = IF rvalid THEN "WRITE_REQ" ELSE dma_state
        /\ rd_buf' = IF rvalid THEN rdata ELSE rd_buf
  /\ st_done' = cleared(mm, st_done) /\ st_err' = cleared(mm, st_err)
  /\ UNCHANGED <<st_busy, cur_src, cur_dst, rem>>

SourceStays(mm, ready) ==
  /\ dma_state = "WRITE_REQ"
  /\ dma_state' = IF ~ready THEN dma_state ELSE IF rem = 8 THEN "DONE" ELSE "READ_REQ"
  /\ cur_dst' = IF ready THEN cur_dst + 8 ELSE cur_dst
  /\ rem' = IF ready THEN rem - 8 ELSE rem
  /\ st_done' = cleared(mm, st_done) /\ st_err' = cleared(mm, st_err)
  /\ UNCHANGED <<st_busy, cur_src, rd_buf>>

OneWordTooMany(mm, ready) ==
  /\ dma_state = "WRITE_REQ"
  /\ dma_state' = IF ~ready THEN dma_state ELSE IF rem = 0 THEN "DONE" ELSE "READ_REQ"
  /\ cur_src' = IF ready THEN cur_src + 8 ELSE cur_src
  /\ cur_dst' = IF ready THEN cur_dst + 8 ELSE cur_dst
  /\ rem' = IF ready THEN rem - 8 ELSE rem
  /\ st_done' = cleared(mm, st_done) /\ st_err' = cleared(mm, st_err)
  /\ UNCHANGED <<st_busy, rd_buf>>

\* A write counts as finished when it is accepted.
DmaWrite(mm, ready) ==
  /\ dma_state = "WRITE_REQ"
  /\ dma_state' = IF ~ready THEN dma_state ELSE IF rem = 8 THEN "DONE" ELSE "READ_REQ"
  /\ cur_src' = IF ready THEN cur_src + 8 ELSE cur_src
  /\ cur_dst' = IF ready THEN cur_dst + 8 ELSE cur_dst
  /\ rem' = IF ready THEN rem - 8 ELSE rem
  /\ st_done' = cleared(mm, st_done) /\ st_err' = cleared(mm, st_err)
  /\ UNCHANGED <<st_busy, rd_buf>>

DmaFinish(mm) ==
  /\ dma_state \in {"DONE", "ERR"} /\ dma_state' = "IDLE"
  /\ st_busy' = FALSE
  /\ st_done' = (dma_state = "DONE" \/ cleared(mm, st_done))
  /\ st_err' = cleared(mm, st_err)
  /\ UNCHANGED <<cur_src, cur_dst, rem, rd_buf>>

DmaClock(mm, ready, rvalid, rdata) ==
  /\ MmioRegisters(mm)
  /\ \/ DmaIdle(mm)
     \/ DmaRead(mm, ready, rvalid, rdata)
     \/ DmaWrite(mm, ready)
     \/ DmaFinish(mm)

DmaInit ==
  /\ r_src = 0 /\ r_dst = 0 /\ r_len = 0
  /\ st_busy = FALSE /\ st_done = FALSE /\ st_err = FALSE
  /\ mmio_rvalid_q = FALSE /\ mmio_rdata_q = 0 /\ start_pulse = FALSE
  /\ dma_state = "IDLE" /\ cur_src = 0 /\ cur_dst = 0 /\ rem = 0
  /\ rd_buf = ZeroWord
=============================================================================
