----------------------------- MODULE DCacheTypes -----------------------------
(***************************************************************************)
(* Type correctness of DCache, for every geometry, store-buffer depth and  *)
(* set of accesses, and the lemmas about its signals that the other proofs *)
(* share.                                                                  *)
(***************************************************************************)
EXTENDS DCache, TLAPS

\* A device request can be owed only while it waits in BypassReq: what keeps
\* owed, the balance of accepted and issued device requests, at most one.
OwedWaits == owed = 1 => state = "BypassReq" /\ ~is_ram(saved.addr)

TypeInv == TypeOK /\ OwedWaits

-----------------------------------------------------------------------------
(***************************************************************************)
(* Constants and helpers.                                                  *)
(***************************************************************************)

\* The choices Init makes exist.
LEMMA ConstantTypes ==
  ZeroWord \in Word /\ AnyOp \in CpuOps /\ AnyTag \in Tags
BY DataAssumption DEF ZeroWord, AnyOp, AnyTag, Word

\* merge_word yields a word.
LEMMA MergeType ==
  ASSUME NEW old \in Word, NEW new \in Word, NEW wmask
  PROVE  merge_word(old, new, wmask) \in Word
BY DEF merge_word, Word

\* The parts of an access.
LEMMA OpType ==
  ASSUME NEW o \in CpuOps
  PROVE  /\ o.kind \in {"load", "store", "amo"}
         /\ o.addr \in Addr /\ o.mask \in SUBSET Bytes /\ o.wdata \in Word
         /\ is_ram(o.addr) =>
              o.addr[1] \in Tags /\ o.addr[2] \in Lines /\ o.addr[3] \in Words
              /\ o.addr = <<o.addr[1], o.addr[2], o.addr[3]>>
         /\ ~is_ram(o.addr) => o.addr \in Uncached
BY DataAssumption DEF Op, Addr, is_ram, RamWord

\* Slots wrap within the buffer.
LEMMA WrapType ==
  ASSUME NEW h \in Slots, NEW n \in 0 .. StoreBufferDepth
  PROVE  Wrap(h + n) \in Slots
BY GeometryAssumption DEF Wrap, Slots

\* What the cache asks of the memory port is a well-formed request.
LEMMA MemReqType ==
  ASSUME TypeOK
  PROVE  mem_req.addr \in Addr /\ mem_req.wdata \in Word
<1>0. store_buffer_issue_valid => state = "Idle"
  BY DEF store_buffer_issue_valid
<1>1. CASE state = "LoadFillReq"
  <2>1. mem_req = Load(FillAddr)
    BY <1>0, <1>1 DEF mem_req
  <2>2. FillAddr \in Addr
    BY DEF TypeOK, FillAddr, Addr, RamWord
  <2> QED BY <2>1, <2>2, ConstantTypes DEF Load
<1>2. CASE state = "BypassReq"
  <2>1. mem_req = saved
    BY <1>0, <1>2 DEF mem_req
  <2> QED BY <2>1, OpType DEF TypeOK
<1>3. CASE state = "WritebackReq"
  <2>1. mem_req = Store(WritebackAddr, data[wb.index][wb.word], Bytes)
    BY <1>0, <1>3 DEF mem_req
  <2>2. WritebackAddr \in Addr /\ data[wb.index][wb.word] \in Word
    BY DEF TypeOK, WritebackAddr, Addr, RamWord
  <2> QED BY <2>1, <2>2 DEF Store
<1>4. CASE state \notin {"LoadFillReq", "BypassReq", "WritebackReq"} /\ store_buffer_issue_valid
  <2>1. mem_req = Store(sb[sb_head].addr, sb[sb_head].wdata, sb[sb_head].wmask)
    BY <1>4 DEF mem_req
  <2>2. sb[sb_head] \in Entry
    BY DEF TypeOK
  <2> QED BY <2>1, <2>2 DEF Store, Entry, Addr
<1>5. CASE state \notin {"LoadFillReq", "BypassReq", "WritebackReq"} /\ ~store_buffer_issue_valid
  BY <1>5, OpType DEF TypeOK, mem_req
<1> QED BY <1>1, <1>2, <1>3, <1>4, <1>5

-----------------------------------------------------------------------------
(***************************************************************************)
(* Signals.                                                                *)
(***************************************************************************)

\* The cache accepts nothing in a cycle in which the core invalidates.
LEMMA FlushIsQuiet ==
  ASSUME NEW rv, NEW flush \in BOOLEAN, NEW wr, Clock(rv, flush, wr), flush
  PROVE  /\ FlushEnabled /\ lsu_state = "Init" /\ ~flush_busy
         /\ ~cpu_valid
         /\ ~Accepts(rv, flush) /\ ~Enqueues(rv, flush)
         /\ ~StoreHandshake(rv) /\ ~BypassNow(rv)
BY DEF Clock, cpu_valid, Accepts, Enqueues, StoreHandshake, BypassNow

\* A request is accepted in Idle, outside a flush, with no answer pending;
\* unless it is a store or a hit, the store buffer is empty.
LEMMA AcceptSignals ==
  ASSUME NEW rv, cpu_valid, cpu_ready(rv)
  PROVE  /\ state = "Idle" /\ ~flush_active /\ rsp = NoRsp
         /\ lsu_state = "AccessWaitReady"
         /\ cpu_store /\ ~(WriteBack /\ cache_hit) =>
              sb_count # StoreBufferDepth \/ store_buffer_issue_fire(rv)
         /\ ~cpu_cacheable => sb_count = 0 /\ ~store_buffer_issue_valid
         /\ cpu_cacheable /\ lsu_op.kind = "load" /\ ~cache_hit =>
              sb_count = 0 /\ ~store_buffer_issue_valid
BY DEF cpu_valid, cpu_ready, cpu_store, cacheable_load_can_bypass_store_buffer,
       store_buffer_issue_valid, store_buffer_full

\* Where a request to the memory port comes from.
LEMMA FireSignals ==
  ASSUME NEW rv, mem_fire(rv)
  PROVE  /\ mem_ready(rv)
         /\ \/ state = "Idle" /\ store_buffer_issue_fire(rv)
               /\ mem_req = Store(sb[sb_head].addr, sb[sb_head].wdata, sb[sb_head].wmask)
            \/ state = "Idle" /\ BypassNow(rv) /\ ~store_buffer_issue_valid
               /\ mem_req = lsu_op
            \/ state = "LoadFillReq" /\ mem_req = Load(FillAddr)
            \/ state = "BypassReq" /\ mem_req = saved
            \/ state = "WritebackReq"
               /\ mem_req = Store(WritebackAddr, data[wb.index][wb.word], Bytes)
<1>1. mem_ready(rv) /\ mem_valid(rv)
  BY DEF mem_fire
<1>2. CASE store_buffer_issue_valid
  BY <1>1, <1>2 DEF mem_req, store_buffer_issue_valid, store_buffer_issue_fire
<1>3. CASE ~store_buffer_issue_valid /\ state = "Idle" /\ BypassNow(rv)
  BY <1>3, <1>1 DEF mem_req
<1>4. CASE state \in {"LoadFillReq", "BypassReq", "WritebackReq"}
  BY <1>4, <1>1 DEF mem_req, store_buffer_issue_valid
<1> QED BY <1>1, <1>2, <1>3, <1>4 DEF mem_valid

-----------------------------------------------------------------------------
(***************************************************************************)
(* A clock cycle preserves the types, one group of registers at a time.    *)
(***************************************************************************)

\* The memory port and its contents.
LEMMA MemTypes ==
  ASSUME TypeOK, NEW rv \in BOOLEAN, NEW wr \in BOOLEAN, MemPort(rv, wr)
  PROVE  port' \in Word \cup {NoRsp} /\ backing' \in [Addr -> Word]
<1>1. CASE ~mem_fire(rv)
  BY <1>1 DEF MemPort, TypeOK
<1>2. CASE mem_fire(rv)
  <2> DEFINE a == mem_req.addr
             m == merge_word(backing[a], mem_req.wdata, mem_req.mask)
  <2>1. a \in Addr /\ mem_req.wdata \in Word /\ backing \in [Addr -> Word]
    BY MemReqType DEF TypeOK
  <2>2. m \in Word
    BY <2>1, MergeType
  <2>3. port' = backing[a]
        /\ (backing' = [backing EXCEPT ![a] = m] \/ backing' = backing)
    BY <1>2 DEF MemPort
  <2> HIDE DEF a, m
  <2> QED BY <2>1, <2>2, <2>3
<1> QED BY <1>1, <1>2

\* The program's memory.
LEMMA ArchType ==
  ASSUME TypeOK, NEW rv \in BOOLEAN, NEW wr \in BOOLEAN, History(rv, wr)
  PROVE  arch' \in [Addr -> Word]
<1>0. arch \in [Addr -> Word] /\ lsu_op \in CpuOps
  BY DEF TypeOK
<1>1. CASE wr /\ AnsweredAtomic
  <2> DEFINE a == mem_req.addr
             m == merge_word(arch[a], mem_req.wdata, mem_req.mask)
  <2>1. a \in Addr /\ mem_req.wdata \in Word
    BY MemReqType
  <2>2. m \in Word
    BY <1>0, <2>1, MergeType
  <2>3. arch' = [arch EXCEPT ![a] = m]
    BY <1>1 DEF History
  <2> HIDE DEF a, m
  <2> QED BY <1>0, <2>1, <2>2, <2>3
<1>2. CASE ~(wr /\ AnsweredAtomic) /\ StoreHandshake(rv)
  <2> DEFINE a == lsu_op.addr
             m == merge_word(arch[a], lsu_op.wdata, lsu_op.mask)
  <2>1. a \in Addr /\ lsu_op.wdata \in Word
    BY <1>0, OpType
  <2>2. m \in Word
    BY <1>0, <2>1, MergeType
  <2>3. arch' = [arch EXCEPT ![a] = m]
    BY <1>2 DEF History
  <2> HIDE DEF a, m
  <2> QED BY <1>0, <2>1, <2>2, <2>3
<1>3. CASE ~(wr /\ AnsweredAtomic) /\ ~StoreHandshake(rv)
  BY <1>0, <1>3 DEF History
<1> QED BY <1>1, <1>2, <1>3

\* The store buffer: the count stays within the depth because a full buffer
\* takes a store only in the cycle in which it drains one.
LEMMA BufferTypes ==
  ASSUME TypeOK, NEW rv \in BOOLEAN, NEW flush \in BOOLEAN, StoreBuffer(rv, flush)
  PROVE  /\ sb' \in [Slots -> Entry]
         /\ sb_head' \in Slots /\ sb_tail' \in Slots
         /\ sb_count' \in 0 .. StoreBufferDepth
<1>1. /\ sb \in [Slots -> Entry] /\ sb_head \in Slots /\ sb_tail \in Slots
      /\ sb_count \in 0 .. StoreBufferDepth /\ lsu_op \in CpuOps
  BY DEF TypeOK
<1>2. sb_head' \in Slots /\ sb_tail' \in Slots
  BY <1>1, WrapType, GeometryAssumption DEF StoreBuffer
<1>3. Enqueues(rv, flush) =>
        /\ is_ram(lsu_op.addr)
        /\ sb_count # StoreBufferDepth \/ store_buffer_issue_fire(rv)
  BY AcceptSignals DEF Enqueues, Accepts, cpu_store, cpu_cacheable
<1>4. sb' \in [Slots -> Entry]
  BY <1>1, <1>3, OpType DEF StoreBuffer, Entry, is_ram
<1>5. store_buffer_issue_fire(rv) => sb_count # 0
  BY DEF store_buffer_issue_fire, store_buffer_issue_valid
<1>6. sb_count' \in 0 .. StoreBufferDepth
  BY <1>1, <1>3, <1>5, GeometryAssumption DEF StoreBuffer, count_next
<1> QED BY <1>2, <1>4, <1>6

\* The load/store unit.
LEMMA LsuTypes ==
  ASSUME TypeOK, NEW rv \in BOOLEAN, NEW flush \in BOOLEAN, Lsu(rv, flush)
  PROVE  /\ lsu_state' \in {"Init", "Redirect", "AccessWaitReady", "AccessWaitValid"}
         /\ lsu_op' \in CpuOps
BY ConstantTypes DEF TypeOK, Lsu, LsuStart, LsuIdle, LsuRequest, LsuResponse

\* The registers of the cache.
LEMMA CacheTypes ==
  ASSUME TypeOK, NEW rv \in BOOLEAN, NEW flush \in BOOLEAN, Cache(rv, flush),
         rv => port # NoRsp
  PROVE  /\ state' \in FsmState
         /\ valid' \in [Lines -> BOOLEAN] /\ dirty' \in [Lines -> BOOLEAN]
         /\ tags' \in [Lines -> Tags]
         /\ data' \in [Lines -> [Words -> Word]]
         /\ saved' \in CpuOps
         /\ fill' \in [tag : Tags, index : Lines, next : Words, rsp_word : Words,
                      count : Words, words : [Words -> Word], allocate : BOOLEAN]
         /\ rsp' \in Word \cup {NoRsp}
         /\ wb' \in [tag : Tags, index : Lines, word : Words,
                    resume : {"fill", "bypass", "flush"}]
         /\ flush_active' \in BOOLEAN /\ flush_index' \in Lines
<1> DEFINE P == /\ state' \in FsmState
               /\ valid' \in [Lines -> BOOLEAN] /\ dirty' \in [Lines -> BOOLEAN]
               /\ tags' \in [Lines -> Tags]
               /\ data' \in [Lines -> [Words -> Word]]
               /\ saved' \in CpuOps
               /\ fill' \in [tag : Tags, index : Lines, next : Words, rsp_word : Words,
                            count : Words, words : [Words -> Word], allocate : BOOLEAN]
               /\ rsp' \in Word \cup {NoRsp}
               /\ wb' \in [tag : Tags, index : Lines, word : Words,
                          resume : {"fill", "bypass", "flush"}]
               /\ flush_active' \in BOOLEAN /\ flush_index' \in Lines
<1>0. /\ lsu_op \in CpuOps /\ 0 \in Lines /\ 0 \in Words
      /\ LineCount - 1 \in Lines /\ WordsPerLine - 1 \in Words
      /\ \A i \in Lines : i # LineCount - 1 => i + 1 \in Lines
      /\ \A w \in Words : w # WordsPerLine - 1 => w + 1 \in Words
      /\ \A w \in Words : WrapWord(w + 1) \in Words
  BY GeometryAssumption DEF TypeOK, Lines, Words, WrapWord
<1>1. ASSUME Invalidate(rv) PROVE P
  BY <1>0, <1>1 DEF TypeOK, Invalidate, FsmState
<1>2. ASSUME IdleWait(rv) PROVE P
  BY <1>2 DEF TypeOK, IdleWait, FsmState
<1>3. ASSUME AcceptLoadHit(rv) PROVE P
  BY <1>0, <1>3, OpType DEF TypeOK, AcceptLoadHit, FsmState, cache_hit, cpu_cacheable
<1>4. ASSUME AcceptLoadMiss(rv) PROVE P
  BY <1>0, <1>4, OpType DEF TypeOK, AcceptLoadMiss, FsmState, cpu_cacheable
<1>5. ASSUME AcceptStore(rv) PROVE P
  <2> DEFINE i == lsu_op.addr[2]
             w == lsu_op.addr[3]
             m == merge_word(data[i][w], lsu_op.wdata, lsu_op.mask)
  <2>1. i \in Lines /\ w \in Words /\ lsu_op.wdata \in Word
    BY <1>0, <1>5, OpType DEF AcceptStore, cpu_store, cpu_cacheable
  <2>2. m \in Word
    BY <2>1, MergeType DEF TypeOK
  <2>3. /\ data' = [data EXCEPT ![i][w] = m] \/ data' = data
        /\ dirty' = [dirty EXCEPT ![i] = TRUE] \/ dirty' = dirty
        /\ rsp' = NoRsp
        /\ UNCHANGED <<state, valid, tags, saved, fill, wb, flush_active, flush_index>>
    BY <1>5 DEF AcceptStore
  <2>4. data' \in [Lines -> [Words -> Word]]
    <3> HIDE DEF i, w, m
    <3>1. data \in [Lines -> [Words -> Word]]
      BY DEF TypeOK
    <3> DEFINE row == [data[i] EXCEPT ![w] = m]
    <3>2. row \in [Words -> Word]
      BY <3>1, <2>1, <2>2
    <3>3. data' = [data EXCEPT ![i] = row] \/ data' = data
      BY <2>3
    <3> HIDE DEF row
    <3> QED BY <3>1, <3>2, <3>3, <2>1
  <2>5. dirty' \in [Lines -> BOOLEAN]
    <3> HIDE DEF i, w, m
    <3> QED BY <2>1, <2>3 DEF TypeOK
  <2> QED BY <2>3, <2>4, <2>5 DEF TypeOK
<1>6. ASSUME AcceptAmoDirty(rv) PROVE P
  BY <1>0, <1>6, OpType DEF TypeOK, AcceptAmoDirty, FsmState, amo_dirty_hit
<1>7. ASSUME AcceptBypass(rv) PROVE P
  BY <1>0, <1>7 DEF TypeOK, AcceptBypass, FsmState
<1>8. ASSUME LoadFillReq(rv) PROVE P
  BY <1>8 DEF TypeOK, LoadFillReq, FsmState
<1>9. ASSUME LoadFillWait(rv) PROVE P
  <2> DEFINE words == [fill.words EXCEPT ![fill.next] = port]
  <2>1. CASE ~rv
    BY <1>9, <2>1 DEF TypeOK, LoadFillWait, FsmState
  <2>2. CASE rv
    <3>1. port \in Word
      BY <2>2 DEF TypeOK
    <3>2. words \in [Words -> Word]
      BY <3>1 DEF TypeOK
    <3> HIDE DEF words
    <3>3. CASE fill.count = WordsPerLine - 1
      <4>1. /\ state' = "Idle"
            /\ fill' = [fill EXCEPT !.words = words, !.allocate = FALSE]
        BY <1>9, <2>2, <3>3 DEF LoadFillWait, words
      <4>2. \/ /\ valid' = [valid EXCEPT ![fill.index] = TRUE]
               /\ dirty' = [dirty EXCEPT ![fill.index] = FALSE]
               /\ tags' = [tags EXCEPT ![fill.index] = fill.tag]
               /\ data' = [data EXCEPT ![fill.index] = words]
            \/ UNCHANGED <<valid, dirty, tags, data>>
        BY <1>9, <2>2, <3>3 DEF LoadFillWait, words
      <4>3. rsp' \in {port, NoRsp} /\ UNCHANGED <<saved, wb, flush_active, flush_index>>
        BY <1>9, <2>2 DEF LoadFillWait
      <4>4. fill' \in [tag : Tags, index : Lines, next : Words, rsp_word : Words,
                      count : Words, words : [Words -> Word], allocate : BOOLEAN]
        BY <4>1, <3>2 DEF TypeOK
      <4>5. /\ valid' \in [Lines -> BOOLEAN] /\ dirty' \in [Lines -> BOOLEAN]
            /\ tags' \in [Lines -> Tags] /\ data' \in [Lines -> [Words -> Word]]
        <5>1. fill.index \in Lines /\ fill.tag \in Tags
          BY DEF TypeOK
        <5>2. CASE UNCHANGED <<valid, dirty, tags, data>>
          BY <5>2 DEF TypeOK
        <5>3. CASE /\ valid' = [valid EXCEPT ![fill.index] = TRUE]
                   /\ dirty' = [dirty EXCEPT ![fill.index] = FALSE]
                   /\ tags' = [tags EXCEPT ![fill.index] = fill.tag]
                   /\ data' = [data EXCEPT ![fill.index] = words]
          <6>1. valid' \in [Lines -> BOOLEAN] /\ dirty' \in [Lines -> BOOLEAN]
            BY <5>1, <5>3 DEF TypeOK
          <6>2. tags' \in [Lines -> Tags]
            BY <5>1, <5>3 DEF TypeOK
          <6>3. data' \in [Lines -> [Words -> Word]]
            BY <5>1, <5>3, <3>2 DEF TypeOK
          <6> QED BY <6>1, <6>2, <6>3
        <5> QED BY <4>2, <5>2, <5>3
      <4> QED BY <4>1, <4>3, <4>4, <4>5, <3>1 DEF TypeOK, FsmState
    <3>4. CASE fill.count # WordsPerLine - 1
      <4>1. /\ state' = "LoadFillReq"
            /\ fill' = [fill EXCEPT !.words = words, !.count = fill.count + 1,
                                    !.next = WrapWord(fill.next + 1)]
            /\ UNCHANGED <<valid, dirty, tags, data>>
        BY <1>9, <2>2, <3>4 DEF LoadFillWait, words
      <4>2. rsp' \in {port, NoRsp} /\ UNCHANGED <<saved, wb, flush_active, flush_index>>
        BY <1>9, <2>2 DEF LoadFillWait
      <4>3. fill.count + 1 \in Words /\ WrapWord(fill.next + 1) \in Words
        BY <1>0, <3>4 DEF TypeOK
      <4> QED BY <4>1, <4>2, <4>3, <3>1, <3>2 DEF TypeOK, FsmState
    <3> QED BY <3>3, <3>4
  <2> QED BY <2>1, <2>2
<1>10. ASSUME WritebackReq(rv) PROVE P
  <2>1. CASE ~mem_ready(rv)
    BY <1>10, <2>1 DEF TypeOK, WritebackReq, FsmState
  <2>2. CASE mem_ready(rv) /\ wb.word # WordsPerLine - 1
    BY <1>0, <1>10, <2>2 DEF TypeOK, WritebackReq, FsmState
  <2>3. CASE mem_ready(rv) /\ wb.word = WordsPerLine - 1
    <3>1. /\ dirty' = [dirty EXCEPT ![wb.index] = FALSE]
          /\ wb' = [wb EXCEPT !.resume = "fill"]
          /\ valid' = valid \/ valid' = [valid EXCEPT ![wb.index] = FALSE]
          /\ flush_active' \in BOOLEAN
          /\ rsp' = NoRsp
          /\ UNCHANGED <<tags, data, saved, fill>>
      BY <1>10, <2>3 DEF WritebackReq
    <3>2. state' \in {"LoadFillReq", "BypassReq", "Idle", "FlushScan"}
      BY <1>10, <2>3 DEF WritebackReq, TypeOK
    <3>3. flush_index' \in Lines
      <4>1. wb.index \in Lines /\ flush_index \in Lines
        BY DEF TypeOK
      <4>2. \/ wb.index # LineCount - 1 /\ flush_index' = wb.index + 1
            \/ flush_index' = flush_index
        BY <1>10, <2>3 DEF WritebackReq
      <4> QED BY <1>0, <4>1, <4>2
    <3> QED BY <3>1, <3>2, <3>3 DEF TypeOK, FsmState
  <2> QED BY <2>1, <2>2, <2>3
<1>11. ASSUME FlushScan PROVE P
  <2>1. CASE ~flush_active
    BY <1>11, <2>1 DEF TypeOK, FlushScan, FsmState
  <2>2. CASE flush_active /\ valid[flush_index] /\ dirty[flush_index]
    BY <1>0, <1>11, <2>2 DEF TypeOK, FlushScan, FsmState
  <2>3. CASE flush_active /\ ~(valid[flush_index] /\ dirty[flush_index])
    <3>1. /\ valid' = [valid EXCEPT ![flush_index] = FALSE]
          /\ dirty' = [dirty EXCEPT ![flush_index] = FALSE]
          /\ flush_active' \in BOOLEAN
          /\ flush_index' = IF flush_index = LineCount - 1 THEN flush_index
                                                          ELSE flush_index + 1
          /\ state' \in {"Idle", "FlushScan"}
          /\ rsp' = NoRsp
          /\ UNCHANGED <<wb, tags, data, saved, fill>>
      BY <1>11, <2>3 DEF FlushScan
    <3> QED BY <1>0, <3>1 DEF TypeOK, FsmState
  <2> QED BY <2>1, <2>2, <2>3
<1>12. ASSUME BypassReq(rv) PROVE P
  BY <1>12 DEF TypeOK, BypassReq, FsmState
<1>13. ASSUME BypassWait(rv) PROVE P
  BY <1>13 DEF TypeOK, BypassWait, FsmState
<1>14. ASSUME Response PROVE P
  BY <1>14 DEF TypeOK, Response, FsmState
<1> QED BY <1>1, <1>2, <1>3, <1>4, <1>5, <1>6, <1>7, <1>8, <1>9, <1>10, <1>11,
           <1>12, <1>13, <1>14 DEF Cache

\* The balance of device requests.
LEMMA OwedTypes ==
  ASSUME TypeInv, NEW rv \in BOOLEAN, NEW flush \in BOOLEAN, NEW wr \in BOOLEAN,
         Clock(rv, flush, wr)
  PROVE  owed' \in {-1, 0, 1} /\ OwedWaits'
<1>1. CASE AsksDevice(rv)
  <2>1. /\ cpu_valid /\ cpu_ready(rv) /\ ~cpu_cacheable /\ ~is_ram(lsu_op.addr)
        /\ state = "Idle" /\ ~store_buffer_issue_valid /\ ~flush
    BY <1>1, AcceptSignals, FlushIsQuiet DEF AsksDevice, BypassNow
  <2>2. owed \in {-1, 0}
    BY <2>1 DEF TypeInv, TypeOK, OwedWaits
  <2>3. CASE IssuesDevice(rv)
    BY <1>1, <2>2, <2>3 DEF Clock, History, OwedWaits
  <2>4. CASE ~IssuesDevice(rv)
    <3>1. mem_req = lsu_op /\ AnsweredAtomic
      BY <2>1 DEF mem_req, AnsweredAtomic, amo_dirty_hit
    <3>2. ~mem_ready(rv)
      BY <2>1, <2>4, <3>1 DEF IssuesDevice, IssuesBypass, mem_fire, mem_valid, BypassNow
    <3>3. AcceptBypass(rv)
      BY <2>1 DEF Clock, Cache, IdleWait, AcceptLoadHit, AcceptLoadMiss, AcceptStore,
         AcceptAmoDirty, LoadFillReq, LoadFillWait, WritebackReq, FlushScan, BypassReq,
         BypassWait, Response, Accepts, cache_hit, cpu_store, amo_dirty_hit
    <3>4. state' = "BypassReq" /\ saved' = lsu_op
      BY <3>2, <3>3 DEF AcceptBypass
    <3> QED BY <1>1, <2>1, <2>2, <2>4, <3>4 DEF Clock, History, OwedWaits, is_ram
  <2> QED BY <2>3, <2>4
<1>2. CASE ~AsksDevice(rv) /\ IssuesDevice(rv)
  BY <1>2 DEF Clock, History, TypeInv, TypeOK, OwedWaits
<1>3. CASE ~AsksDevice(rv) /\ ~IssuesDevice(rv)
  <2>1. owed' = owed
    BY <1>3 DEF Clock, History
  <2>2. CASE owed # 1
    BY <2>1, <2>2 DEF TypeInv, TypeOK, OwedWaits
  <2>3. CASE owed = 1
    <3>1. state = "BypassReq" /\ ~is_ram(saved.addr)
      BY <2>3 DEF TypeInv, OwedWaits
    <3>2. mem_req = saved
      BY <3>1 DEF mem_req, store_buffer_issue_valid
    <3>3. ~mem_ready(rv)
      BY <1>3, <3>1, <3>2 DEF IssuesDevice, IssuesBypass, mem_fire, mem_valid, AnsweredAtomic
    <3>4. (flush /\ Invalidate(rv)) \/ (~flush /\ BypassReq(rv))
      BY <3>1 DEF Clock, Cache, IdleWait, AcceptLoadHit, AcceptLoadMiss, AcceptStore,
         AcceptAmoDirty, AcceptBypass, LoadFillReq, LoadFillWait, WritebackReq, FlushScan,
         BypassWait, Response, Accepts, cpu_ready
    <3>5. state' = "BypassReq" /\ saved' = saved
      BY <3>1, <3>3, <3>4 DEF Invalidate, BypassReq
    <3> QED BY <2>1, <2>3, <3>1, <3>5 DEF OwedWaits, is_ram
  <2> QED BY <2>2, <2>3
<1> QED BY <1>1, <1>2, <1>3

-----------------------------------------------------------------------------
\* The reset state has the types.
LEMMA TypeInit == Init => TypeInv
<1>1. 0 \in Lines /\ 0 \in Words /\ 0 \in Slots
  BY GeometryAssumption DEF Lines, Words, Slots
<1> SUFFICES ASSUME Init PROVE TypeInv
  OBVIOUS
<1>2. /\ state \in FsmState
      /\ valid \in [Lines -> BOOLEAN] /\ dirty \in [Lines -> BOOLEAN]
      /\ tags \in [Lines -> Tags] /\ data \in [Lines -> [Words -> Word]]
  BY ConstantTypes DEF Init, FsmState
<1>3. /\ fill \in [tag : Tags, index : Lines, next : Words, rsp_word : Words,
                   count : Words, words : [Words -> Word], allocate : BOOLEAN]
      /\ wb \in [tag : Tags, index : Lines, word : Words,
                 resume : {"fill", "bypass", "flush"}]
  BY <1>1, ConstantTypes DEF Init
<1>4. sb \in [Slots -> Entry]
  BY <1>1, ConstantTypes DEF Init, Entry, RamWord
<1>5. /\ saved \in CpuOps /\ rsp \in Word \cup {NoRsp} /\ port \in Word \cup {NoRsp}
      /\ flush_active \in BOOLEAN /\ flush_index \in Lines
      /\ sb_head \in Slots /\ sb_tail \in Slots /\ sb_count \in 0 .. StoreBufferDepth
      /\ lsu_state = "Init" /\ lsu_op \in CpuOps
  <2>1. /\ saved = AnyOp /\ lsu_op = AnyOp /\ rsp = NoRsp /\ port = NoRsp
        /\ flush_active = FALSE /\ flush_index = 0
        /\ sb_head = 0 /\ sb_tail = 0 /\ sb_count = 0 /\ lsu_state = "Init"
    BY DEF Init
  <2>2. 0 \in 0 .. StoreBufferDepth
    BY GeometryAssumption
  <2> QED BY <1>1, <2>1, <2>2, ConstantTypes
<1>6. backing \in [Addr -> Word] /\ arch \in [Addr -> Word] /\ owed = 0
  <2>1. backing = [a \in Addr |-> ZeroWord] /\ arch = backing /\ owed = 0
    BY DEF Init
  <2> QED BY <2>1, ConstantTypes
<1>7. OwedWaits
  BY <1>6 DEF OwedWaits
<1> QED BY <1>2, <1>3, <1>4, <1>5, <1>6, <1>7 DEF TypeInv, TypeOK

\* A clock cycle preserves them.
LEMMA TypeStep == TypeInv /\ [Next]_vars => TypeInv'
<1> SUFFICES ASSUME TypeInv, [Next]_vars PROVE TypeInv'
  OBVIOUS
<1>1. CASE Next
  <2> PICK rv \in BOOLEAN, flush \in BOOLEAN, wr \in BOOLEAN : Clock(rv, flush, wr)
    BY <1>1 DEF Next
  <2>1. TypeOK /\ MemPort(rv, wr) /\ History(rv, wr) /\ Lsu(rv, flush)
        /\ StoreBuffer(rv, flush) /\ Cache(rv, flush) /\ (rv => port # NoRsp)
    BY DEF Clock, TypeInv
  <2>2. owed' \in {-1, 0, 1} /\ OwedWaits'
    BY OwedTypes
  <2>3. TypeOK'
    BY <2>1, <2>2, MemTypes, ArchType, BufferTypes, LsuTypes, CacheTypes DEF TypeOK
  <2> QED BY <2>2, <2>3 DEF TypeInv
<1>2. CASE UNCHANGED vars
  BY <1>2 DEF TypeInv, TypeOK, OwedWaits, vars, cacheVars, bufferVars, lsuVars, memVars
<1> QED BY <1>1, <1>2

\* Every register of dcache.sv keeps a value of its type: no index of the
\* store buffer, of a line or of a word ever leaves its range, and the
\* occupancy never exceeds STORE_BUFFER_DEPTH.
THEOREM TypeCorrect == Spec => []TypeOK
<1>1. Spec => []TypeInv
  BY TypeInit, TypeStep, PTL DEF Spec
<1>2. TypeInv => TypeOK
  BY DEF TypeInv
<1> QED BY <1>1, <1>2, PTL
=============================================================================
