------------------------------- MODULE DCache -------------------------------
(***************************************************************************)
(* The data cache and store buffer of rtl/cache/dcache.sv, one step per    *)
(* clock cycle, between the load/store unit that drives its cpu port and   *)
(* the memory port below it.                                               *)
(*                                                                         *)
(*  - A word is a function from its byte lanes to values; a write mask is  *)
(*    the set of lanes it enables.                                         *)
(*  - A cacheable word address is <<tag, index, word>>.  Uncached is the   *)
(*    set of word addresses outside the cacheable window (devices, and RAM *)
(*    that is_ram does not cover).                                         *)
(*  - The memory port is the contract amounit.sv offers (module AmoUnit    *)
(*    shows it does): at most one request outstanding; ready when none is, *)
(*    or in the cycle its answer arrives; every request, writes included,  *)
(*    is answered by one rvalid pulse, after any number of cycles.         *)
(*  - arch and owed are history variables: the memory the program has      *)
(*    written so far, and how many accepted requests to uncached words     *)
(*    have not yet been handed to the memory port.                         *)
(*                                                                         *)
(* Performance counters are left out.                                      *)
(***************************************************************************)
EXTENDS Integers, FiniteSets

CONSTANTS
  LineCount,         \* LINE_COUNT
  WordsPerLine,      \* WORDS_PER_LINE
  StoreBufferDepth,  \* STORE_BUFFER_DEPTH
  WriteBack,         \* WRITE_BACK
  Tags,              \* the values of an address tag
  Uncached,          \* word addresses that bypass the cache
  Bytes,             \* byte lanes of a word
  Vals,              \* values of a byte
  CpuOps,            \* the accesses the load/store unit may make
  FlushEnabled,      \* does the core execute sfence.vma / satp accesses
  NoRsp              \* no response

Lines == 0 .. LineCount - 1
Words == 0 .. WordsPerLine - 1
Slots == 0 .. StoreBufferDepth - 1
RamWord == Tags \X Lines \X Words
Addr == RamWord \cup Uncached
Word == [Bytes -> Vals]

Op == [kind : {"load", "store", "amo"}, addr : Addr, mask : SUBSET Bytes,
       wdata : Word, fast : BOOLEAN]

ASSUME GeometryAssumption ==
  /\ LineCount \in Nat /\ LineCount >= 2
  /\ WordsPerLine \in Nat /\ WordsPerLine >= 1
  /\ StoreBufferDepth \in Nat /\ StoreBufferDepth >= 2
  /\ WriteBack \in BOOLEAN
  /\ FlushEnabled \in BOOLEAN

ASSUME DataAssumption ==
  /\ Tags # {} /\ Vals # {}
  /\ Uncached \cap RamWord = {}
  /\ CpuOps # {} /\ CpuOps \subseteq Op
  /\ \A o \in CpuOps : o.fast => o.kind = "load"
  /\ NoRsp \notin Word

ZeroWord == [b \in Bytes |-> CHOOSE v \in Vals : TRUE]
AnyOp == CHOOSE o \in CpuOps : TRUE
AnyTag == CHOOSE t \in Tags : TRUE

\* An index of the store buffer or of the words of a line wraps at its width.
NoWrap(x) == x
Wrap(x) == IF x >= StoreBufferDepth THEN x - StoreBufferDepth ELSE x
WrapWord(x) == IF x >= WordsPerLine THEN x - WordsPerLine ELSE x

VARIABLES
  state, valid, dirty, tags, data,
  saved,                         \* saved_*: the request of the bypass path
  fill,                          \* fill_*: the line being filled
  rsp,                           \* rsp_valid_q, rsp_data_q
  wb,                            \* writeback_*
  flush_active, flush_index,
  sb, sb_head, sb_tail, sb_count, \* store_buffer_*
  lsu_state, lsu_op,             \* memunit.sv: state, req_*
  port, backing,                 \* memory port: pending answer, contents
  arch, owed                     \* history variables

cacheVars == <<state, valid, dirty, tags, data, saved, fill, rsp, wb,
               flush_active, flush_index>>
bufferVars == <<sb, sb_head, sb_tail, sb_count>>
lsuVars == <<lsu_state, lsu_op>>
memVars == <<port, backing>>
vars == <<cacheVars, bufferVars, lsuVars, memVars, arch, owed>>

-----------------------------------------------------------------------------
(***************************************************************************)
(* Functions of dcache.sv.                                                 *)
(***************************************************************************)

is_ram(a) == a \in RamWord

merge_word(old, new, wmask) ==
  [b \in Bytes |-> IF b \in wmask THEN new[b] ELSE old[b]]

\* The slot of the i-th oldest entry.
SlotOf(i) == Wrap(sb_head + i)

store_buffer_overlaps(a, mask) ==
  \E i \in Slots : /\ i < sb_count
                   /\ sb[SlotOf(i)].addr = a
                   /\ sb[SlotOf(i)].wmask \cap mask # {}

dirty_any == \E i \in Lines : valid[i] /\ dirty[i]

HitIgnoresTag(a) == valid[a[2]]
TagHit(a) == valid[a[2]] /\ tags[a[2]] = a[1]

(***************************************************************************)
(* Combinational signals.  rv is mem.rvalid of this cycle.                 *)
(***************************************************************************)

\* The port takes a request when it has none, or as it answers the last one.
mem_ready(rv) == port = NoRsp \/ rv

fast_load_hit ==
  /\ lsu_state = "AccessWaitReady" /\ lsu_op.fast
  /\ state = "Idle" /\ ~flush_active /\ rsp = NoRsp
  /\ is_ram(lsu_op.addr) /\ TagHit(lsu_op.addr)
  /\ ~store_buffer_overlaps(lsu_op.addr, lsu_op.mask)

cpu_valid == lsu_state = "AccessWaitReady" /\ ~fast_load_hit
cpu_cacheable == is_ram(lsu_op.addr) /\ lsu_op.kind # "amo"
cpu_store == cpu_cacheable /\ lsu_op.kind = "store"
cache_hit == cpu_cacheable /\ TagHit(lsu_op.addr)

store_buffer_full == sb_count = StoreBufferDepth

cacheable_store_can_accept_without_drain ==
  cpu_valid /\ cpu_store /\ ((WriteBack /\ cache_hit) \/ ~store_buffer_full)

cacheable_load_can_bypass_store_buffer ==
  /\ cpu_valid /\ cpu_cacheable /\ lsu_op.kind = "load" /\ cache_hit
  /\ ~store_buffer_overlaps(lsu_op.addr, lsu_op.mask)

IssueOnlyWhenFull ==
  /\ state = "Idle" /\ sb_count = StoreBufferDepth
  /\ flush_active \/ ~cacheable_store_can_accept_without_drain

store_buffer_issue_valid ==
  /\ state = "Idle" /\ sb_count # 0
  /\ \/ flush_active
     \/ /\ ~cacheable_store_can_accept_without_drain
        /\ ~cacheable_load_can_bypass_store_buffer

store_buffer_issue_fire(rv) == store_buffer_issue_valid /\ mem_ready(rv)

ReadyIgnoresBuffer(rv) ==
  /\ state = "Idle" /\ ~flush_active /\ rsp = NoRsp
  /\ cpu_store /\ ~(WriteBack /\ cache_hit) => ~(store_buffer_full /\ ~store_buffer_issue_fire(rv))

cpu_ready(rv) ==
  /\ state = "Idle" /\ ~flush_active /\ rsp = NoRsp
  /\ IF cpu_store
       THEN \/ WriteBack /\ cache_hit
            \/ ~(store_buffer_full /\ ~store_buffer_issue_fire(rv))
       ELSE cacheable_load_can_bypass_store_buffer \/ sb_count = 0

flush_busy == WriteBack /\ flush_active

\* An atomic operation that hits a dirty line.
NeverDirty == FALSE
amo_dirty_hit ==
  /\ lsu_op.kind = "amo" /\ is_ram(lsu_op.addr)
  /\ WriteBack /\ TagHit(lsu_op.addr) /\ dirty[lsu_op.addr[2]]

\* A load miss would replace a dirty line.
NoVictim == FALSE
dirty_victim_hit ==
  WriteBack /\ valid[lsu_op.addr[2]] /\ dirty[lsu_op.addr[2]]

\* The request the cache accepts in this cycle; invalidate freezes the FSM.
Accepts(rv, flush) == cpu_valid /\ cpu_ready(rv) /\ ~flush

Enqueues(rv, flush) ==
  Accepts(rv, flush) /\ cpu_store /\ ~(WriteBack /\ cache_hit)

-----------------------------------------------------------------------------
(***************************************************************************)
(* Requests to the memory port (the always_comb case over state).          *)
(***************************************************************************)

Load(a) == [kind |-> "load", addr |-> a, mask |-> {}, wdata |-> ZeroWord,
            fast |-> FALSE]
Store(a, d, m) == [kind |-> "store", addr |-> a, mask |-> m, wdata |-> d,
                   fast |-> FALSE]

FillAddr == <<fill.tag, fill.index, fill.next>>
WritebackAddr == <<wb.tag, wb.index, wb.word>>

\* An accepted request that is not cacheable goes straight to the port.
BypassNow(rv) == cpu_valid /\ cpu_ready(rv) /\ ~cpu_cacheable

mem_valid(rv) ==
  \/ store_buffer_issue_valid
  \/ state = "Idle" /\ BypassNow(rv)
  \/ state \in {"LoadFillReq", "BypassReq", "WritebackReq"}

mem_req ==
  CASE state = "LoadFillReq"  -> Load(FillAddr)
    [] state = "BypassReq"    -> saved
    [] state = "WritebackReq" ->
         Store(WritebackAddr, data[wb.index][wb.word], Bytes)
    [] store_buffer_issue_valid ->
         Store(sb[sb_head].addr, sb[sb_head].wdata, sb[sb_head].wmask)
    [] OTHER -> lsu_op

mem_fire(rv) == mem_valid(rv) /\ mem_ready(rv)

(***************************************************************************)
(* The port applies a request as it accepts it and keeps the answer until  *)
(* rvalid.  An atomic operation leaves the word as it was (LR, a failed SC *)
(* and ~wr) or overwrites its masked lanes (SC, AMO and wr).               *)
(***************************************************************************)
IssuesAtomic(rv) == mem_fire(rv) /\ mem_req.kind = "amo"

MemPort(rv, wr) ==
  IF mem_fire(rv)
    THEN LET r == mem_req IN
         /\ port' = backing[r.addr]
         /\ backing' = IF r.kind = "store" \/ wr
                         THEN [backing EXCEPT ![r.addr] = merge_word(@, r.wdata, r.mask)]
                         ELSE backing
    ELSE /\ port' = IF rv THEN NoRsp ELSE port
         /\ backing' = backing

\* A store is the program's from the cycle its cpu handshake completes; an
\* atomic operation acts when the port performs the request whose answer the
\* load/store unit gets.
StoreHandshake(rv) == cpu_valid /\ cpu_ready(rv) /\ lsu_op.kind = "store"

AnsweredAtomic == ~(state = "Idle" /\ amo_dirty_hit)

AsksDevice(rv) == BypassNow(rv) /\ ~is_ram(lsu_op.addr)

IssuesBypass(rv) ==
  /\ mem_fire(rv) /\ AnsweredAtomic
  /\ state = "BypassReq" \/ (state = "Idle" /\ ~store_buffer_issue_valid)

IssuesDevice(rv) == IssuesBypass(rv) /\ ~is_ram(mem_req.addr)

\* owed saturates at -1: an access was handed over more often than asked for.
History(rv, wr) ==
  /\ arch' = IF wr /\ AnsweredAtomic
               THEN [arch EXCEPT ![mem_req.addr] =
                       merge_word(@, mem_req.wdata, mem_req.mask)]
             ELSE IF StoreHandshake(rv)
               THEN [arch EXCEPT ![lsu_op.addr] =
                       merge_word(@, lsu_op.wdata, lsu_op.mask)]
               ELSE arch
  /\ owed' = IF AsksDevice(rv) <=> IssuesDevice(rv) THEN owed
             ELSE IF AsksDevice(rv) THEN owed + 1
             ELSE IF owed = -1 THEN -1 ELSE owed - 1

-----------------------------------------------------------------------------
(***************************************************************************)
(* The load/store unit: memunit.sv from the point where the physical       *)
(* address is known, in the order the MEM stage of core.sv hands it        *)
(* instructions.  In Init the MEM stage holds no memory access: it is      *)
(* empty, executes another instruction, or (flush) an sfence.vma or satp   *)
(* access that raises translation_flush for one cycle and then redirects   *)
(* the pipeline, which leaves MEM empty for at least one cycle.            *)
(***************************************************************************)
LsuStart ==
  /\ lsu_state = "Init"
  /\ lsu_state' = "AccessWaitReady" /\ lsu_op' \in CpuOps

LsuIdle(flush) ==
  /\ lsu_state \in {"Init", "Redirect"}
  /\ lsu_state' = IF flush THEN "Redirect" ELSE "Init"
  /\ UNCHANGED lsu_op

LsuRequest(rv) ==
  /\ lsu_state = "AccessWaitReady"
  /\ lsu_state' = IF fast_load_hit THEN "Init"
                  ELSE IF ~cpu_ready(rv) THEN lsu_state
                  ELSE IF lsu_op.kind = "store" THEN "Init"
                  ELSE "AccessWaitValid"
  /\ lsu_op' = IF lsu_state' = "Init" THEN AnyOp ELSE lsu_op

LsuResponse ==
  /\ lsu_state = "AccessWaitValid"
  /\ lsu_state' = IF rsp # NoRsp THEN "Init" ELSE lsu_state
  /\ lsu_op' = IF rsp # NoRsp THEN AnyOp ELSE lsu_op

Lsu(rv, flush) ==
  \/ ~flush /\ LsuStart
  \/ LsuIdle(flush)
  \/ LsuRequest(rv)
  \/ LsuResponse

-----------------------------------------------------------------------------
(***************************************************************************)
(* The store buffer: a drained entry leaves at the head, an accepted store *)
(* enters at the tail, possibly in the same cycle.                         *)
(***************************************************************************)
Entry == [addr : RamWord, wdata : Word, wmask : SUBSET Bytes]

CountForgetsEnqueue(rv, flush) ==
  IF store_buffer_issue_fire(rv) THEN sb_count - 1
  ELSE IF Enqueues(rv, flush) THEN sb_count + 1 ELSE sb_count

count_next(rv, flush) ==
  sb_count - (IF store_buffer_issue_fire(rv) THEN 1 ELSE 0)
           + (IF Enqueues(rv, flush) THEN 1 ELSE 0)

StoreBuffer(rv, flush) ==
  /\ sb_head' = IF store_buffer_issue_fire(rv) THEN Wrap(sb_head + 1) ELSE sb_head
  /\ sb_tail' = IF Enqueues(rv, flush) THEN Wrap(sb_tail + 1) ELSE sb_tail
  /\ sb' = IF Enqueues(rv, flush)
             THEN [sb EXCEPT ![sb_tail] = [addr  |-> lsu_op.addr,
                                           wdata |-> lsu_op.wdata,
                                           wmask |-> lsu_op.mask]]
             ELSE sb
  /\ sb_count' = count_next(rv, flush)

-----------------------------------------------------------------------------
(***************************************************************************)
(* The cache FSM, one action per way a cycle can go.                       *)
(***************************************************************************)

\* invalidate: a write-through cache drops every line, a write-back cache
\* starts a flush if anything is dirty or buffered.  The FSM itself does not
\* step in this cycle, whatever the memory port answers.
Invalidate(rv) ==
  /\ rsp' = NoRsp
  /\ fill' = [fill EXCEPT !.allocate = FALSE]
  /\ IF ~WriteBack
       THEN /\ valid' = [i \in Lines |-> FALSE]
            /\ dirty' = [i \in Lines |-> FALSE]
            /\ UNCHANGED <<state, wb, flush_active, flush_index>>
       ELSE /\ UNCHANGED <<valid, dirty>>
            /\ IF dirty_any \/ count_next(rv, TRUE) # 0
                 THEN /\ flush_active' = TRUE /\ flush_index' = 0
                      /\ wb' = [wb EXCEPT !.resume = "fill"]
                      /\ state' = IF state \in {"WritebackReq", "BypassReq", "BypassWait"}
                                    THEN state ELSE "Idle"
                 ELSE UNCHANGED <<state, wb, flush_active, flush_index>>
  /\ UNCHANGED <<tags, data, saved>>

\* A flush scans the lines once the store buffer is empty.
ScanBeforeDrain(rv) == flush_active
ScanOnlyAfterDrain(rv) == flush_active /\ sb_count = 1 /\ count_next(rv, FALSE) = 0
StartsScan(rv) == flush_active /\ count_next(rv, FALSE) = 0

IdleWait(rv) ==
  /\ state = "Idle" /\ ~Accepts(rv, FALSE)
  /\ state' = IF StartsScan(rv) THEN "FlushScan" ELSE state
  /\ rsp' = NoRsp
  /\ UNCHANGED <<valid, dirty, tags, data, saved, fill, wb, flush_active, flush_index>>

AcceptLoadHit(rv) ==
  /\ Accepts(rv, FALSE) /\ lsu_op.kind = "load" /\ cache_hit
  /\ rsp' = data[lsu_op.addr[2]][lsu_op.addr[3]]
  /\ state' = "Response"
  /\ UNCHANGED <<valid, dirty, tags, data, saved, fill, wb, flush_active, flush_index>>

\* A dirty victim is written back before its line is filled.
AcceptLoadMiss(rv) ==
  LET a == lsu_op.addr IN
     /\ Accepts(rv, FALSE) /\ cpu_cacheable /\ lsu_op.kind = "load" /\ ~cache_hit
     /\ fill' = [fill EXCEPT !.tag = a[1], !.index = a[2], !.next = a[3],
                             !.rsp_word = a[3], !.count = 0, !.allocate = TRUE]
     /\ wb' = IF dirty_victim_hit THEN [tag |-> tags[a[2]], index |-> a[2], word |-> 0,
                             resume |-> "fill"] ELSE wb
     /\ state' = IF dirty_victim_hit THEN "WritebackReq" ELSE "LoadFillReq"
     /\ rsp' = NoRsp
     /\ UNCHANGED <<valid, dirty, tags, data, saved, flush_active, flush_index>>

\* Write-through with no write-allocate: a hit also updates the line.
AcceptStore(rv) ==
  /\ Accepts(rv, FALSE) /\ cpu_store
  /\ IF cache_hit
       THEN /\ data' = [data EXCEPT ![lsu_op.addr[2]][lsu_op.addr[3]] =
                          merge_word(@, lsu_op.wdata, lsu_op.mask)]
            /\ dirty' = IF WriteBack THEN [dirty EXCEPT ![lsu_op.addr[2]] = TRUE]
                                     ELSE dirty
       ELSE UNCHANGED <<data, dirty>>
  /\ rsp' = NoRsp
  /\ UNCHANGED <<state, valid, tags, saved, fill, wb, flush_active, flush_index>>

\* An atomic on a dirty line writes the line back and is then issued again
\* from BypassReq: the request of this cycle (BypassNow) may already have been
\* taken by the port, on the stale word below, and its answer is ignored.
AcceptAmoDirty(rv) ==
  LET i == lsu_op.addr[2] IN
  /\ Accepts(rv, FALSE) /\ amo_dirty_hit
  /\ saved' = lsu_op
  /\ wb' = [tag |-> tags[i], index |-> i, word |-> 0, resume |-> "bypass"]
  /\ state' = "WritebackReq"
  /\ rsp' = NoRsp
  /\ UNCHANGED <<valid, dirty, tags, data, fill, flush_active, flush_index>>

\* Every other access that is not cacheable; an atomic drops a clean copy.
\* saved_* is read only on this path, so only this path records it.
AcceptBypass(rv) ==
  LET a == lsu_op.addr
      drop == lsu_op.kind = "amo" /\ is_ram(a) /\ TagHit(a)
  IN /\ Accepts(rv, FALSE) /\ ~cpu_cacheable
     /\ ~amo_dirty_hit
     /\ valid' = IF drop THEN [valid EXCEPT ![a[2]] = FALSE] ELSE valid
     /\ dirty' = IF drop THEN [dirty EXCEPT ![a[2]] = FALSE] ELSE dirty
     /\ saved' = lsu_op
     /\ state' = IF ~mem_ready(rv) THEN "BypassReq"
                 ELSE IF lsu_op.kind = "store" THEN "Idle" ELSE "BypassWait"
     /\ rsp' = NoRsp
     /\ UNCHANGED <<tags, data, fill, wb, flush_active, flush_index>>

LoadFillReq(rv) ==
  /\ state = "LoadFillReq"
  /\ state' = IF mem_ready(rv) THEN "LoadFillWait" ELSE state
  /\ rsp' = NoRsp
  /\ UNCHANGED <<valid, dirty, tags, data, saved, fill, wb, flush_active, flush_index>>

LoadFillWait(rv) ==
  LET words == [fill.words EXCEPT ![fill.next] = port] IN
  /\ state = "LoadFillWait"
  /\ IF ~rv
       THEN /\ rsp' = NoRsp
            /\ UNCHANGED <<state, fill, valid, dirty, tags, data>>
       ELSE /\ rsp' = IF fill.next = fill.rsp_word THEN port ELSE NoRsp
            /\ IF fill.count = WordsPerLine - 1
                 THEN /\ state' = "Idle"
                      /\ fill' = [fill EXCEPT !.words = words, !.allocate = FALSE]
                      /\ IF fill.allocate
                           THEN /\ valid' = [valid EXCEPT ![fill.index] = TRUE]
                                /\ dirty' = [dirty EXCEPT ![fill.index] = FALSE]
                                /\ tags' = [tags EXCEPT ![fill.index] = fill.tag]
                                /\ data' = [data EXCEPT ![fill.index] = words]
                           ELSE UNCHANGED <<valid, dirty, tags, data>>
                 ELSE /\ state' = "LoadFillReq"
                      /\ fill' = [fill EXCEPT !.words = words, !.count = @ + 1,
                                              !.next = WrapWord(@ + 1)]
                      /\ UNCHANGED <<valid, dirty, tags, data>>
  /\ UNCHANGED <<saved, wb, flush_active, flush_index>>

\* What follows the last word depends on why the line was written back.
WritebackReq(rv) ==
  /\ state = "WritebackReq"
  /\ IF ~mem_ready(rv)
       THEN UNCHANGED <<state, wb, valid, dirty, flush_active, flush_index>>
     ELSE IF wb.word # WordsPerLine - 1
       THEN /\ wb' = [wb EXCEPT !.word = @ + 1]
            /\ UNCHANGED <<state, valid, dirty, flush_active, flush_index>>
       ELSE /\ dirty' = [dirty EXCEPT ![wb.index] = FALSE]
            /\ wb' = [wb EXCEPT !.resume = "fill"]
            /\ valid' = IF wb.resume = "fill" THEN valid
                        ELSE [valid EXCEPT ![wb.index] = FALSE]
            /\ LET last == wb.index = LineCount - 1 IN
               /\ state' = CASE wb.resume = "fill"   -> "LoadFillReq"
                             [] wb.resume = "bypass" -> "BypassReq"
                             [] wb.resume = "flush"  -> IF last THEN "Idle" ELSE "FlushScan"
               /\ flush_active' = (flush_active /\ ~(wb.resume = "flush" /\ last))
               /\ flush_index' = IF wb.resume = "flush" /\ ~last
                                   THEN wb.index + 1 ELSE flush_index
  /\ rsp' = NoRsp
  /\ UNCHANGED <<tags, data, saved, fill>>

\* One line per cycle: write it back if dirty, else drop it.
FlushScan ==
  LET i == flush_index IN
  /\ state = "FlushScan"
  /\ IF ~flush_active
       THEN state' = "Idle" /\ UNCHANGED <<wb, valid, dirty, flush_active, flush_index>>
     ELSE IF valid[i] /\ dirty[i]
       THEN /\ wb' = [tag |-> tags[i], index |-> i, word |-> 0, resume |-> "flush"]
            /\ state' = "WritebackReq"
            /\ UNCHANGED <<valid, dirty, flush_active, flush_index>>
       ELSE /\ valid' = [valid EXCEPT ![i] = FALSE]
            /\ dirty' = [dirty EXCEPT ![i] = FALSE]
            /\ flush_active' = (i # LineCount - 1)
            /\ flush_index' = IF i = LineCount - 1 THEN i ELSE i + 1
            /\ state' = IF i = LineCount - 1 THEN "Idle" ELSE state
            /\ UNCHANGED wb
  /\ rsp' = NoRsp
  /\ UNCHANGED <<tags, data, saved, fill>>

BypassReqWaitsForIdle(rv) ==
  /\ state = "BypassReq"
  /\ state' = IF port # NoRsp THEN state
              ELSE IF saved.kind = "store" THEN "Idle" ELSE "BypassWait"
  /\ rsp' = NoRsp
  /\ UNCHANGED <<valid, dirty, tags, data, saved, fill, wb, flush_active, flush_index>>

BypassReq(rv) ==
  /\ state = "BypassReq"
  /\ state' = IF ~mem_ready(rv) THEN state
              ELSE IF saved.kind = "store" THEN "Idle" ELSE "BypassWait"
  /\ rsp' = NoRsp
  /\ UNCHANGED <<valid, dirty, tags, data, saved, fill, wb, flush_active, flush_index>>

BypassWait(rv) ==
  /\ state = "BypassWait"
  /\ state' = IF rv THEN "Response" ELSE state
  /\ rsp' = IF rv THEN port ELSE NoRsp
  /\ UNCHANGED <<valid, dirty, tags, data, saved, fill, wb, flush_active, flush_index>>

Response ==
  /\ state = "Response" /\ state' = "Idle"
  /\ rsp' = NoRsp
  /\ UNCHANGED <<valid, dirty, tags, data, saved, fill, wb, flush_active, flush_index>>

Cache(rv, flush) ==
  \/ flush /\ Invalidate(rv)
  \/ /\ ~flush
     /\ \/ IdleWait(rv)
        \/ AcceptLoadHit(rv)
        \/ AcceptLoadMiss(rv)
        \/ AcceptStore(rv)
        \/ AcceptAmoDirty(rv)
        \/ AcceptBypass(rv)
        \/ LoadFillReq(rv)
        \/ LoadFillWait(rv)
        \/ WritebackReq(rv)
        \/ FlushScan
        \/ BypassReq(rv)
        \/ BypassWait(rv)
        \/ Response

-----------------------------------------------------------------------------
Init ==
  /\ state = "Idle"
  /\ valid = [i \in Lines |-> FALSE] /\ dirty = [i \in Lines |-> FALSE]
  /\ tags = [i \in Lines |-> AnyTag]
  /\ data = [i \in Lines |-> [w \in Words |-> ZeroWord]]
  /\ saved = AnyOp
  /\ fill = [tag |-> AnyTag, index |-> 0, next |-> 0, rsp_word |-> 0, count |-> 0,
             words |-> [w \in Words |-> ZeroWord], allocate |-> FALSE]
  /\ rsp = NoRsp
  /\ wb = [tag |-> AnyTag, index |-> 0, word |-> 0, resume |-> "fill"]
  /\ flush_active = FALSE /\ flush_index = 0
  /\ sb = [s \in Slots |-> [addr |-> <<AnyTag, 0, 0>>, wdata |-> ZeroWord, wmask |-> {}]]
  /\ sb_head = 0 /\ sb_tail = 0 /\ sb_count = 0
  /\ lsu_state = "Init" /\ lsu_op = AnyOp
  /\ port = NoRsp
  /\ backing = [a \in Addr |-> ZeroWord]
  /\ arch = backing
  /\ owed = 0

\* One clock cycle: every register of the cache, the load/store unit and the
\* port takes its next value from the same signals.
Clock(rv, flush, wr) ==
  /\ rv => port # NoRsp
  /\ wr => IssuesAtomic(rv)
  /\ flush => FlushEnabled /\ lsu_state = "Init" /\ ~flush_busy
  /\ MemPort(rv, wr)
  /\ History(rv, wr)
  /\ Lsu(rv, flush)
  /\ StoreBuffer(rv, flush)
  /\ Cache(rv, flush)

Next == \E rv, flush, wr \in BOOLEAN : Clock(rv, flush, wr)

Spec == Init /\ [][Next]_vars

(***************************************************************************)
(* The clock always ticks, and the memory below answers what it accepted.  *)
(***************************************************************************)
Answer == \E flush, wr \in BOOLEAN : Clock(TRUE, flush, wr)
Fairness == WF_vars(Next) /\ WF_vars(Answer)
FairSpec == Spec /\ Fairness

-----------------------------------------------------------------------------
(***************************************************************************)
(* Properties.                                                             *)
(***************************************************************************)

FsmState == {"Idle", "LoadFillReq", "LoadFillWait", "BypassReq", "BypassWait",
             "WritebackReq", "FlushScan", "Response"}

\* Every register holds a value of its type (declarations of dcache.sv).
TypeOK ==
  /\ state \in FsmState
  /\ valid \in [Lines -> BOOLEAN] /\ dirty \in [Lines -> BOOLEAN]
  /\ tags \in [Lines -> Tags]
  /\ data \in [Lines -> [Words -> Word]]
  /\ saved \in CpuOps
  /\ fill \in [tag : Tags, index : Lines, next : Words, rsp_word : Words,
               count : Words, words : [Words -> Word], allocate : BOOLEAN]
  /\ rsp \in Word \cup {NoRsp}
  /\ wb \in [tag : Tags, index : Lines, word : Words,
             resume : {"fill", "bypass", "flush"}]
  /\ flush_active \in BOOLEAN /\ flush_index \in Lines
  /\ sb \in [Slots -> Entry]
  /\ sb_head \in Slots /\ sb_tail \in Slots /\ sb_count \in 0 .. StoreBufferDepth
  /\ lsu_state \in {"Init", "Redirect", "AccessWaitReady", "AccessWaitValid"}
  /\ lsu_op \in CpuOps
  /\ port \in Word \cup {NoRsp}
  /\ backing \in [Addr -> Word] /\ arch \in [Addr -> Word]
  /\ owed \in {-1, 0, 1}

\* The store buffer is a ring: the tail is count entries past the head, so an
\* accepted store never overwrites one that has not been drained.
RingShape == sb_tail = Wrap(sb_head + sb_count)

\* A valid line holds what the program last wrote to each of its words, in
\* every interleaving of hits, fills, evictions, atomics and invalidations.
CachedIsCurrent ==
  \A i \in Lines, w \in Words :
    valid[i] => data[i][w] = arch[<<tags[i], i, w>>]

\* The i-th oldest entry of the store buffer writes lane b of word a.
Covers(i, a, b) ==
  /\ i < sb_count
  /\ sb[SlotOf(i)].addr = a
  /\ b \in sb[SlotOf(i)].wmask

Youngest(i, a, b) ==
  /\ Covers(i, a, b)
  /\ \A j \in Slots : j > i => ~Covers(j, a, b)

\* What lane b of word a will hold below, once the buffer has drained in
\* order, is what the program last wrote.
Held(a, b) ==
  /\ \A i \in Slots : Youngest(i, a, b) => sb[SlotOf(i)].wdata[b] = arch[a][b]
  /\ (\A i \in Slots : ~Covers(i, a, b)) => backing[a][b] = arch[a][b]

\* No store is lost: what is not in a dirty line is held by the buffer or by
\* memory, in every interleaving of drains, fills, evictions and atomics.
NothingLost ==
  \A a \in RamWord : (~TagHit(a) \/ ~dirty[a[2]]) => \A b \in Bytes : Held(a, b)

\* A load gets the program's last value in the lanes it reads, whether the
\* critical word of a fill, a hit, an uncached read or the same-cycle
\* fast_load path answers it.
LoadReturnsCurrent ==
  /\ lsu_state = "AccessWaitValid" /\ lsu_op.kind = "load" /\ rsp # NoRsp =>
       \A b \in lsu_op.mask : rsp[b] = arch[lsu_op.addr][b]
  /\ fast_load_hit =>
       \A b \in lsu_op.mask :
         data[lsu_op.addr[2]][lsu_op.addr[3]][b] = arch[lsu_op.addr][b]

\* Device accesses and atomics are ordered behind every earlier store: when
\* one is handed to the port the buffer is empty and, if it reads, the word
\* below is current.
BypassOrdered ==
  \A rv \in BOOLEAN : (rv => port # NoRsp) /\ IssuesBypass(rv) =>
    /\ sb_count = 0
    /\ mem_req.kind # "store" => backing[mem_req.addr] = arch[mem_req.addr]

\* An accepted request to a device is handed to memory exactly once.
DeviceOnce == owed # -1 /\ (state = "Idle" => owed = 0)

\* When a write-back flush ends, memory holds everything the program wrote:
\* a page-table walk that starts now reads current entries.
FlushPublishes ==
  [][flush_active /\ ~flush_active' =>
       \A a \in RamWord : backing'[a] = arch'[a]]_vars

\* Every access the load/store unit starts completes.
AccessCompletes == (lsu_state = "AccessWaitReady") ~> (lsu_state = "Init")

\* Every buffered store reaches memory, however many hits overtake it.
StoresDrain ==
  \A h \in Slots : (sb_count > 0 /\ sb_head = h) ~> (sb_head # h)

\* A write-back flush ends, so the instruction waiting for it proceeds.
FlushEnds == flush_active ~> ~flush_active

=============================================================================
