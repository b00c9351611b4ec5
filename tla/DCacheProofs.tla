---------------------------- MODULE DCacheProofs ----------------------------
(***************************************************************************)
(* Coherence of DCache for every geometry, both write policies, any set of *)
(* accesses and with the core invalidating at any time: what is in the     *)
(* lines, in the store buffer and below agrees with the program's memory.  *)
(*                                                                         *)
(* None of the properties is inductive alone.  IInv adds what is true of   *)
(* the data in flight: the words a fill has collected, the words a         *)
(* writeback has pushed down, the request of the bypass path, and the      *)
(* lines a flush has passed.                                               *)
(***************************************************************************)
EXTENDS DCacheTypes

\* Only Idle and Response are entered with stores still buffered: every other
\* state talks to memory behind an empty buffer.
BusyIsDrained == state \notin {"Idle", "Response"} => sb_count = 0

\* Only a write-back cache has dirty lines.
DirtyIsWriteBack == \A i \in Lines : dirty[i] => WriteBack

\* Below the uncached words is what the program wrote, but for the store that
\* waits in BypassReq.
WaitingStore(a) == state = "BypassReq" /\ saved.kind = "store" /\ saved.addr = a

UncachedCurrent ==
  \A a \in Uncached :
    arch[a] = IF WaitingStore(a)
                THEN merge_word(backing[a], saved.wdata, saved.mask) ELSE backing[a]

\* The word fetched d-th, counting from the critical word.
Fetched(d) == WrapWord(fill.rsp_word + d)

\* A fill replaces no dirty line, has collected current words, waits for a
\* current word, and serves the access the load/store unit waits for.
FillCurrent ==
  state \in {"LoadFillReq", "LoadFillWait"} =>
    /\ ~flush_active
    /\ ~(valid[fill.index] /\ dirty[fill.index])
    /\ fill.next = Fetched(fill.count)
    /\ \A d \in Words : d < fill.count =>
         fill.words[Fetched(d)] = arch[<<fill.tag, fill.index, Fetched(d)>>]
    /\ state = "LoadFillWait" /\ port # NoRsp => port = arch[FillAddr]
    /\ lsu_state = "AccessWaitValid" =>
         lsu_op.addr = <<fill.tag, fill.index, fill.rsp_word>>

\* A writeback works on a dirty line whose first words are already below, and
\* knows what follows it.
WritebackCurrent ==
  state = "WritebackReq" =>
    /\ valid[wb.index] /\ dirty[wb.index] /\ tags[wb.index] = wb.tag
    /\ \A w \in Words : w < wb.word =>
         backing[<<wb.tag, wb.index, w>>] = arch[<<wb.tag, wb.index, w>>]
    /\ rsp = NoRsp
    /\ wb.resume = "flush" => flush_active /\ wb.index = flush_index
    /\ wb.resume # "flush" => ~flush_active /\ lsu_state = "AccessWaitValid"
    /\ wb.resume = "fill" =>
         /\ fill.index = wb.index /\ fill.count = 0 /\ fill.next = fill.rsp_word
         /\ lsu_op.addr = <<fill.tag, fill.index, fill.rsp_word>>
    /\ wb.resume = "bypass" =>
         /\ saved = lsu_op /\ saved.kind = "amo"
         /\ is_ram(saved.addr) /\ saved.addr[2] = wb.index

\* The bypass path holds a device access, or an atomic whose line is dropped,
\* and an answer on its way to a load is current.
BypassCurrent ==
  state \in {"BypassReq", "BypassWait"} =>
    /\ is_ram(saved.addr) => saved.kind = "amo" /\ ~TagHit(saved.addr)
    /\ lsu_state = "AccessWaitValid" => saved = lsu_op
    /\ state = "BypassWait" /\ saved.kind = "load" /\ port # NoRsp =>
         port = arch[saved.addr]

\* A flush is a write-back cache's, and the lines below its index are gone.
FlushShape ==
  /\ flush_active => WriteBack /\ \A j \in Lines : j < flush_index => ~valid[j]
  /\ state = "FlushScan" => flush_active

IInv ==
  /\ TypeInv /\ RingShape /\ BusyIsDrained /\ DirtyIsWriteBack
  /\ CachedIsCurrent /\ NothingLost /\ UncachedCurrent
  /\ FillCurrent /\ WritebackCurrent /\ BypassCurrent
  /\ FlushShape /\ LoadReturnsCurrent

-----------------------------------------------------------------------------
(***************************************************************************)
(* The store buffer.                                                       *)
(***************************************************************************)

\* What the buffer's controls imply: only a non-empty buffer drains, and a
\* full one takes a store only as it drains.
LEMMA BufferSignals ==
  ASSUME NEW rv, NEW flush
  PROVE  /\ store_buffer_issue_fire(rv) => state = "Idle" /\ sb_count # 0
         /\ Enqueues(rv, flush) =>
              /\ cpu_valid /\ cpu_ready(rv) /\ lsu_op.kind = "store"
              /\ is_ram(lsu_op.addr) /\ state = "Idle"
              /\ sb_count # StoreBufferDepth \/ store_buffer_issue_fire(rv)
BY AcceptSignals DEF store_buffer_issue_fire, store_buffer_issue_valid, Enqueues, Accepts,
   cpu_store, cpu_cacheable

\* The new count.
LEMMA CountStep ==
  ASSUME TypeOK, NEW rv, NEW flush, StoreBuffer(rv, flush)
  PROVE  sb_count' = IF store_buffer_issue_fire(rv)
                       THEN IF Enqueues(rv, flush) THEN sb_count ELSE sb_count - 1
                       ELSE IF Enqueues(rv, flush) THEN sb_count + 1 ELSE sb_count
BY DEF TypeOK, StoreBuffer, count_next

\* Draining and taking a store keep the buffer a ring.
LEMMA RingStep ==
  ASSUME TypeOK, RingShape, NEW rv, NEW flush, StoreBuffer(rv, flush)
  PROVE  RingShape'
<1>1. /\ sb_head \in Slots /\ sb_tail \in Slots /\ sb_count \in 0 .. StoreBufferDepth
      /\ sb_tail = Wrap(sb_head + sb_count)
  BY DEF TypeOK, RingShape
<1>2. /\ sb_head' = IF store_buffer_issue_fire(rv) THEN Wrap(sb_head + 1) ELSE sb_head
      /\ sb_tail' = IF Enqueues(rv, flush) THEN Wrap(sb_tail + 1) ELSE sb_tail
  BY DEF StoreBuffer
<1> QED BY <1>1, <1>2, CountStep, BufferSignals, GeometryAssumption
        DEF RingShape, Wrap, Slots

\* The entry a store makes.
NewEntry == [addr |-> lsu_op.addr, wdata |-> lsu_op.wdata, wmask |-> lsu_op.mask]

\* The i-th oldest entry of the next cycle was the next one after it, or the
\* same one, in this cycle, unless it is the youngest and has just entered.
Before(rv, i) == IF store_buffer_issue_fire(rv) THEN i + 1 ELSE i

\* Where the entries of the next cycle come from.
LEMMA EntryMoves ==
  ASSUME TypeOK, RingShape, NEW rv, NEW flush, StoreBuffer(rv, flush),
         NEW i \in Slots, i < sb_count'
  PROVE  \/ Enqueues(rv, flush) /\ i = sb_count' - 1 /\ sb'[SlotOf(i)'] = NewEntry
         \/ /\ ~(Enqueues(rv, flush) /\ i = sb_count' - 1)
            /\ Before(rv, i) \in Slots /\ Before(rv, i) < sb_count
            /\ sb'[SlotOf(i)'] = sb[SlotOf(Before(rv, i))]
<1>1. /\ sb \in [Slots -> Entry] /\ sb_head \in Slots /\ sb_tail \in Slots
      /\ sb_count \in 0 .. StoreBufferDepth /\ sb_tail = Wrap(sb_head + sb_count)
  BY DEF TypeOK, RingShape
<1>2. /\ sb_head' = IF store_buffer_issue_fire(rv) THEN Wrap(sb_head + 1) ELSE sb_head
      /\ sb' = IF Enqueues(rv, flush) THEN [sb EXCEPT ![sb_tail] = NewEntry] ELSE sb
  BY DEF StoreBuffer, NewEntry
<1>3. SlotOf(i)' = Wrap(sb_head' + i)
  BY DEF SlotOf, Wrap
<1>4. CASE Enqueues(rv, flush) /\ i = sb_count' - 1
  <2>1. SlotOf(i)' = sb_tail
    BY <1>1, <1>2, <1>3, <1>4, CountStep, BufferSignals, GeometryAssumption DEF Wrap, Slots
  <2> QED BY <1>1, <1>2, <1>4, <2>1
<1>5. CASE ~(Enqueues(rv, flush) /\ i = sb_count' - 1)
  <2>1. Before(rv, i) \in Slots /\ Before(rv, i) < sb_count
    BY <1>1, <1>5, CountStep, BufferSignals, GeometryAssumption DEF Before, Slots
  <2>2. SlotOf(i)' = SlotOf(Before(rv, i)) /\ SlotOf(i)' \in Slots
    BY <1>1, <1>2, <1>3, <2>1, BufferSignals, GeometryAssumption
       DEF Before, SlotOf, Wrap, Slots
  <2>3. Enqueues(rv, flush) => SlotOf(i)' # sb_tail
    BY <1>1, <1>2, <1>3, <1>5, <2>1, CountStep, BufferSignals, GeometryAssumption
       DEF Before, Wrap, Slots
  <2> QED BY <1>1, <1>2, <1>5, <2>1, <2>2, <2>3
<1> QED BY <1>4, <1>5

\* Conversely, every entry that is not drained is still there.
LEMMA EntryStays ==
  ASSUME TypeOK, RingShape, NEW rv, NEW flush, StoreBuffer(rv, flush),
         NEW k \in Slots, k < sb_count, store_buffer_issue_fire(rv) => k # 0
  PROVE  \E i \in Slots : /\ i < sb_count' /\ Before(rv, i) = k
                         /\ sb'[SlotOf(i)'] = sb[SlotOf(k)]
<1>1. sb_count \in 0 .. StoreBufferDepth /\ k \in Nat
  BY DEF TypeOK, Slots
<1> PICK i \in Slots : i = IF store_buffer_issue_fire(rv) THEN k - 1 ELSE k
  BY <1>1, GeometryAssumption DEF Slots
<1>2. i < sb_count' /\ Before(rv, i) = k
  BY <1>1, CountStep, GeometryAssumption DEF Slots, Before
<1>3. ~(Enqueues(rv, flush) /\ i = sb_count' - 1)
  BY <1>1, <1>2, CountStep, GeometryAssumption DEF Before, Slots
<1>4. sb'[SlotOf(i)'] = sb[SlotOf(k)]
  BY <1>2, <1>3, EntryMoves
<1> QED BY <1>2, <1>4

\* Positions of the buffer.
LEMMA LastSlot ==
  ASSUME NEW c \in 1 .. StoreBufferDepth PROVE c - 1 \in Slots
BY GeometryAssumption DEF Slots

\* A position that is not the last is before it.
LEMMA BelowLast ==
  ASSUME NEW c \in Int, NEW i \in Int, NEW n \in Int, n = c - 1, i < c, i # n
  PROVE  n > i /\ n < c
OBVIOUS

\* The last position is a position.
LEMMA LastIsBelow ==
  ASSUME NEW c \in Int, NEW n \in Int, n = c - 1
  PROVE  n < c
OBVIOUS

\* Lane b of word a changes below as the drained entry says, and in the
\* program's memory as the accepted store says.
DrainStep(rv, a, b) ==
  backing'[a][b] = IF store_buffer_issue_fire(rv) /\ Covers(0, a, b)
                     THEN sb[sb_head].wdata[b] ELSE backing[a][b]
StoreStep(rv, flush, a, b) ==
  arch'[a][b] = IF Enqueues(rv, flush) /\ lsu_op.addr = a /\ b \in lsu_op.mask
                  THEN lsu_op.wdata[b] ELSE arch[a][b]

\* Draining the oldest entry, taking a new one, or both, keeps every lane
\* held, when memory and the program's memory change as the entries say.
LEMMA HeldStep ==
  ASSUME TypeOK, RingShape, NEW rv, NEW flush, StoreBuffer(rv, flush),
         NEW a \in RamWord, NEW b \in Bytes, Held(a, b),
         DrainStep(rv, a, b), StoreStep(rv, flush, a, b)
  PROVE  Held(a, b)'
<1>0. /\ 0 \in Slots /\ SlotOf(0) = sb_head
      /\ sb_count \in 0 .. StoreBufferDepth
      /\ \A i \in Slots : i \in Int /\ i < StoreBufferDepth /\ i >= 0
  BY GeometryAssumption DEF TypeOK, SlotOf, Wrap, Slots
<1>01. sb_count' \in Int
  BY <1>0, CountStep, GeometryAssumption
<1>1. Enqueues(rv, flush) =>
        \E n \in Slots : n = sb_count' - 1 /\ sb'[SlotOf(n)'] = NewEntry
  <2> HAVE Enqueues(rv, flush)
  <2>1. sb_count' \in 1 .. StoreBufferDepth
    <3>1. sb_count' = IF store_buffer_issue_fire(rv) THEN sb_count ELSE sb_count + 1
      BY CountStep
    <3>2. IF store_buffer_issue_fire(rv) THEN sb_count # 0
                                         ELSE sb_count # StoreBufferDepth
      BY BufferSignals
    <3> QED BY <1>0, <3>1, <3>2, GeometryAssumption
  <2>2. sb_count' - 1 \in Slots
    BY <2>1, LastSlot
  <2> PICK n \in Slots : n = sb_count' - 1
    BY <2>2
  <2>3. n < sb_count'
    BY <1>0, <1>01, LastIsBelow
  <2> QED BY <2>3, EntryMoves
<1>2. ASSUME NEW i \in Slots, Youngest(i, a, b)'
      PROVE  sb'[SlotOf(i)'].wdata[b] = arch'[a][b]
  <2>1. /\ i < sb_count' /\ sb'[SlotOf(i)'].addr = a /\ b \in sb'[SlotOf(i)'].wmask
        /\ \A j \in Slots : j > i => ~Covers(j, a, b)'
    BY <1>2 DEF Youngest, Covers
  <2>2. CASE Enqueues(rv, flush) /\ i = sb_count' - 1
    BY <2>1, <2>2, EntryMoves DEF NewEntry, StoreStep
  <2>3. CASE ~(Enqueues(rv, flush) /\ i = sb_count' - 1)
    <3>1. PICK k \in Slots : /\ k = Before(rv, i) /\ k < sb_count
                            /\ sb'[SlotOf(i)'] = sb[SlotOf(k)]
      BY <2>1, <2>3, EntryMoves
    <3>2. ASSUME NEW j \in Slots, j > k PROVE ~Covers(j, a, b)
      <4> SUFFICES ASSUME Covers(j, a, b) PROVE FALSE
        OBVIOUS
      <4>1. j < sb_count /\ sb[SlotOf(j)].addr = a /\ b \in sb[SlotOf(j)].wmask
        BY DEF Covers
      <4>2. j # 0
        BY <1>0, <3>2
      <4>3. PICK h \in Slots : /\ h < sb_count' /\ Before(rv, h) = j
                              /\ sb'[SlotOf(h)'] = sb[SlotOf(j)]
        BY <4>1, <4>2, EntryStays
      <4>4. h > i
        BY <1>0, <3>1, <3>2, <4>3 DEF Before
      <4> QED BY <2>1, <4>1, <4>3, <4>4 DEF Covers
    <3>3. Youngest(k, a, b)
      BY <2>1, <3>1, <3>2 DEF Youngest, Covers
    <3>4. ~(Enqueues(rv, flush) /\ lsu_op.addr = a /\ b \in lsu_op.mask)
      <4> SUFFICES ASSUME Enqueues(rv, flush), lsu_op.addr = a, b \in lsu_op.mask
                   PROVE FALSE
        OBVIOUS
      <4> PICK n \in Slots : n = sb_count' - 1 /\ sb'[SlotOf(n)'] = NewEntry
        BY <1>1
      <4>1. n > i /\ n < sb_count'
        <5>1. i # n
          BY <2>3
        <5> QED BY <1>0, <1>01, <2>1, <5>1, BelowLast
      <4>2. sb'[SlotOf(n)'].addr = a /\ b \in sb'[SlotOf(n)'].wmask
        BY DEF NewEntry
      <4>3. Covers(n, a, b)'
        BY <4>1, <4>2 DEF Covers
      <4> QED BY <2>1, <4>1, <4>3
    <3> QED BY <3>1, <3>3, <3>4 DEF Held, StoreStep
  <2> QED BY <2>2, <2>3
<1>3. ASSUME \A i \in Slots : ~Covers(i, a, b)'
      PROVE  backing'[a][b] = arch'[a][b]
  <2>1. arch'[a][b] = arch[a][b]
    <3> SUFFICES ASSUME Enqueues(rv, flush), lsu_op.addr = a, b \in lsu_op.mask
                 PROVE FALSE
      BY DEF StoreStep
    <3> PICK n \in Slots : n = sb_count' - 1 /\ sb'[SlotOf(n)'] = NewEntry
      BY <1>1
    <3>1. sb'[SlotOf(n)'].addr = a /\ b \in sb'[SlotOf(n)'].wmask
      BY DEF NewEntry
    <3>2. Covers(n, a, b)'
      BY <1>0, <1>01, <3>1, LastIsBelow DEF Covers
    <3> QED BY <1>3, <3>2
  <2>2. ASSUME NEW k \in Slots, store_buffer_issue_fire(rv) => k # 0
        PROVE  ~Covers(k, a, b)
    <3> SUFFICES ASSUME Covers(k, a, b) PROVE FALSE
      OBVIOUS
    <3>1. PICK h \in Slots : /\ h < sb_count' /\ Before(rv, h) = k
                            /\ sb'[SlotOf(h)'] = sb[SlotOf(k)]
      BY <2>2, EntryStays DEF Covers
    <3> QED BY <1>3, <3>1 DEF Covers
  <2>3. CASE store_buffer_issue_fire(rv) /\ Covers(0, a, b)
    <3>1. Youngest(0, a, b)
      BY <1>0, <2>2, <2>3 DEF Youngest
    <3> QED BY <1>0, <2>1, <2>3, <3>1 DEF Held, DrainStep
  <2>4. CASE ~(store_buffer_issue_fire(rv) /\ Covers(0, a, b))
    BY <1>0, <2>1, <2>2, <2>4 DEF Held, DrainStep
  <2> QED BY <2>3, <2>4
<1> QED BY <1>2, <1>3 DEF Held

-----------------------------------------------------------------------------
(***************************************************************************)
(* What a cycle does to the buffer, to memory and to the program's memory. *)
(***************************************************************************)
BufferUnchanged == UNCHANGED <<sb, sb_head, sb_tail, sb_count>>

\* mem after request r.
Wrote(mem, r) == [mem EXCEPT ![r.addr] = merge_word(@, r.wdata, r.mask)]

Drained(rv) ==
  IF store_buffer_issue_fire(rv)
    THEN Wrote(backing, Store(sb[sb_head].addr, sb[sb_head].wdata, sb[sb_head].wmask))
    ELSE backing

\* An atomic writes only from the two places that issue one.
LEMMA AtomicSource ==
  ASSUME NEW rv, NEW flush, NEW wr \in BOOLEAN, Clock(rv, flush, wr), wr
  PROVE  /\ mem_fire(rv) /\ mem_req.kind = "amo"
         /\ \/ state = "BypassReq" /\ saved.kind = "amo" /\ mem_req = saved
            \/ state = "Idle" /\ BypassNow(rv) /\ ~store_buffer_issue_valid
               /\ mem_req = lsu_op
<1>1. mem_fire(rv) /\ mem_req.kind = "amo"
  BY DEF Clock, IssuesAtomic
<1> QED BY <1>1, FireSignals DEF Store, Load

\* Outside Idle nothing is accepted, drained or buffered.
LEMMA NotIdle ==
  ASSUME NEW rv, NEW flush, NEW wr, Clock(rv, flush, wr), TypeOK, state # "Idle"
  PROVE  /\ BufferUnchanged
         /\ ~StoreHandshake(rv) /\ ~BypassNow(rv) /\ ~Accepts(rv, flush)
         /\ ~store_buffer_issue_valid
<1>1. ~cpu_ready(rv) /\ ~store_buffer_issue_valid
  BY DEF cpu_ready, store_buffer_issue_valid
<1>2. ~Enqueues(rv, flush) /\ ~store_buffer_issue_fire(rv)
  BY <1>1 DEF Enqueues, Accepts, store_buffer_issue_fire
<1>3. sb_count' = sb_count
  BY <1>2, CountStep DEF Clock
<1> QED BY <1>1, <1>2, <1>3 DEF Clock, StoreBuffer, BufferUnchanged, StoreHandshake,
           BypassNow, Accepts

\* States that do not write.
LEMMA QuietStep ==
  ASSUME NEW rv, NEW flush, NEW wr \in BOOLEAN, Clock(rv, flush, wr), TypeOK,
         state \in {"LoadFillReq", "LoadFillWait", "FlushScan", "BypassWait", "Response"}
  PROVE  arch' = arch /\ backing' = backing /\ BufferUnchanged
<1>1. ~wr
  BY AtomicSource
<1>2. ~StoreHandshake(rv) /\ BufferUnchanged
  BY NotIdle
<1>3. mem_fire(rv) => mem_req.kind = "load"
  BY FireSignals DEF Load
<1> QED BY <1>1, <1>2, <1>3 DEF Clock, History, MemPort

\* A writeback pushes one word down.
LEMMA WritebackStep ==
  ASSUME NEW rv, NEW flush, NEW wr \in BOOLEAN, Clock(rv, flush, wr), TypeOK,
         state = "WritebackReq"
  PROVE  /\ arch' = arch /\ BufferUnchanged
         /\ backing' = IF mem_ready(rv)
                         THEN [backing EXCEPT ![WritebackAddr] = data[wb.index][wb.word]]
                         ELSE backing
<1>1. ~wr
  BY AtomicSource
<1>2. ~StoreHandshake(rv) /\ BufferUnchanged
  BY NotIdle
<1>3. arch' = arch
  BY <1>1, <1>2 DEF Clock, History
<1>4. mem_fire(rv) <=> mem_ready(rv)
  BY DEF mem_fire, mem_valid
<1>5. mem_fire(rv) =>
        mem_req = Store(WritebackAddr, data[wb.index][wb.word], Bytes)
  BY FireSignals
<1>6. WritebackAddr \in Addr /\ data[wb.index][wb.word] \in Word
  BY DEF TypeOK, WritebackAddr, Addr, RamWord
<1>7. ASSUME NEW old, NEW new \in Word PROVE merge_word(old, new, Bytes) = new
  BY DEF merge_word, Word
<1>8. backing' = IF mem_fire(rv)
                   THEN [backing EXCEPT ![WritebackAddr] =
                           merge_word(backing[WritebackAddr], data[wb.index][wb.word], Bytes)]
                   ELSE backing
  BY <1>5 DEF Clock, MemPort, Store
<1> QED BY <1>2, <1>3, <1>4, <1>6, <1>7, <1>8

\* The bypass path writes its request once the port takes it.
LEMMA BypassReqStep ==
  ASSUME NEW rv, NEW flush, NEW wr \in BOOLEAN, Clock(rv, flush, wr), TypeOK,
         state = "BypassReq"
  PROVE  /\ BufferUnchanged
         /\ wr => saved.kind = "amo" /\ mem_ready(rv)
         /\ backing' = IF mem_ready(rv) /\ (saved.kind = "store" \/ wr)
                         THEN Wrote(backing, saved) ELSE backing
         /\ arch' = IF wr THEN Wrote(arch, saved) ELSE arch
         /\ mem_ready(rv) => port' = backing[saved.addr]
<1>1. wr => saved.kind = "amo" /\ mem_ready(rv)
  BY AtomicSource, FireSignals
<1>2. ~StoreHandshake(rv) /\ BufferUnchanged
  BY NotIdle
<1>3. AnsweredAtomic
  BY DEF AnsweredAtomic
<1>4. (mem_fire(rv) <=> mem_ready(rv)) /\ mem_req = saved
  BY NotIdle DEF mem_fire, mem_valid, mem_req
<1> QED BY <1>1, <1>2, <1>3, <1>4 DEF Clock, History, MemPort, Wrote

\* In Idle the buffer drains while nothing, or something cacheable, is
\* accepted.
LEMMA DrainingStep ==
  ASSUME NEW rv, NEW flush, NEW wr \in BOOLEAN, Clock(rv, flush, wr), TypeOK,
         state = "Idle", ~BypassNow(rv)
  PROVE  /\ backing' = Drained(rv)
         /\ arch' = IF StoreHandshake(rv) THEN Wrote(arch, lsu_op) ELSE arch
<1>1. ~wr
  BY AtomicSource
<1>2. mem_fire(rv) <=> store_buffer_issue_fire(rv)
  BY DEF mem_fire, mem_valid, store_buffer_issue_fire
<1>3. mem_fire(rv) =>
        mem_req = Store(sb[sb_head].addr, sb[sb_head].wdata, sb[sb_head].wmask)
  BY FireSignals
<1> QED BY <1>1, <1>2, <1>3 DEF Clock, MemPort, History, Drained, Wrote, Store

\* An access that is not cacheable is accepted behind an empty buffer and
\* handed to the port at once if the port is ready.
LEMMA BypassNowStep ==
  ASSUME NEW rv, NEW flush, NEW wr \in BOOLEAN, Clock(rv, flush, wr), TypeOK,
         BypassNow(rv)
  PROVE  /\ state = "Idle" /\ ~flush /\ ~flush_active /\ rsp = NoRsp
         /\ sb_count = 0 /\ BufferUnchanged
         /\ wr => lsu_op.kind = "amo" /\ mem_ready(rv)
         /\ backing' = IF mem_ready(rv) /\ (lsu_op.kind = "store" \/ wr)
                         THEN Wrote(backing, lsu_op) ELSE backing
         /\ arch' = IF lsu_op.kind = "store" \/ (wr /\ ~amo_dirty_hit)
                      THEN Wrote(arch, lsu_op) ELSE arch
         /\ mem_ready(rv) => port' = backing[lsu_op.addr]
<1>1. cpu_valid /\ cpu_ready(rv) /\ ~cpu_cacheable
  BY DEF BypassNow
<1>2. /\ state = "Idle" /\ ~flush_active /\ rsp = NoRsp /\ sb_count = 0
      /\ ~store_buffer_issue_valid
  BY <1>1, AcceptSignals
<1>3. ~flush
  BY <1>1 DEF Clock, cpu_valid
<1>4. ~Enqueues(rv, flush) /\ ~store_buffer_issue_fire(rv)
  BY <1>1, <1>2 DEF Enqueues, cpu_store, store_buffer_issue_fire
<1>5. BufferUnchanged
  <2>1. sb_count' = sb_count
    BY <1>4, CountStep DEF Clock
  <2> QED BY <1>4, <2>1 DEF Clock, StoreBuffer, BufferUnchanged
<1>6. mem_req = lsu_op /\ (mem_fire(rv) <=> mem_ready(rv))
  BY <1>2 DEF mem_req, mem_fire, mem_valid
<1>7. wr => lsu_op.kind = "amo" /\ mem_ready(rv)
  BY <1>6, AtomicSource
<1>8. AnsweredAtomic <=> ~amo_dirty_hit
  BY <1>2 DEF AnsweredAtomic
<1>9. StoreHandshake(rv) <=> lsu_op.kind = "store"
  BY <1>1 DEF StoreHandshake
<1>10. backing' = IF mem_ready(rv) /\ (lsu_op.kind = "store" \/ wr)
                   THEN Wrote(backing, lsu_op) ELSE backing
  BY <1>6, <1>7 DEF Clock, MemPort, Wrote
<1>11. arch' = IF lsu_op.kind = "store" \/ (wr /\ ~amo_dirty_hit)
                THEN Wrote(arch, lsu_op) ELSE arch
  BY <1>6, <1>7, <1>8, <1>9 DEF Clock, History, Wrote
<1>12. mem_ready(rv) => port' = backing[lsu_op.addr]
  BY <1>6 DEF Clock, MemPort
<1> QED BY <1>2, <1>3, <1>5, <1>7, <1>10, <1>11, <1>12

-----------------------------------------------------------------------------
(***************************************************************************)
(* Which action a cycle is.                                                *)
(***************************************************************************)
IdleStep(rv) ==
  \/ IdleWait(rv) \/ AcceptLoadHit(rv) \/ AcceptLoadMiss(rv) \/ AcceptStore(rv)
  \/ AcceptAmoDirty(rv) \/ AcceptBypass(rv)

\* Each state has its own actions; an invalidate replaces them all.
LEMMA Dispatch ==
  ASSUME NEW rv, NEW flush \in BOOLEAN, NEW wr, Clock(rv, flush, wr)
  PROVE  /\ flush => Invalidate(rv)
         /\ ~flush =>
              /\ state = "Idle" => IdleStep(rv)
              /\ state = "LoadFillReq" => LoadFillReq(rv)
              /\ state = "LoadFillWait" => LoadFillWait(rv)
              /\ state = "WritebackReq" => WritebackReq(rv)
              /\ state = "FlushScan" => FlushScan
              /\ state = "BypassReq" => BypassReq(rv)
              /\ state = "BypassWait" => BypassWait(rv)
              /\ state = "Response" => Response
<1>1. Accepts(rv, FALSE) => state = "Idle"
  BY DEF Accepts, cpu_ready
<1>2. /\ IdleWait(rv) => state = "Idle"
      /\ AcceptLoadHit(rv) => state = "Idle"
      /\ AcceptLoadMiss(rv) => state = "Idle"
      /\ AcceptStore(rv) => state = "Idle"
      /\ AcceptAmoDirty(rv) => state = "Idle"
      /\ AcceptBypass(rv) => state = "Idle"
  BY <1>1 DEF IdleWait, AcceptLoadHit, AcceptLoadMiss, AcceptStore, AcceptAmoDirty,
     AcceptBypass
<1>3. /\ LoadFillReq(rv) => state = "LoadFillReq"
      /\ LoadFillWait(rv) => state = "LoadFillWait"
      /\ WritebackReq(rv) => state = "WritebackReq"
      /\ FlushScan => state = "FlushScan"
      /\ BypassReq(rv) => state = "BypassReq"
      /\ BypassWait(rv) => state = "BypassWait"
      /\ Response => state = "Response"
  BY DEF LoadFillReq, LoadFillWait, WritebackReq, FlushScan, BypassReq, BypassWait, Response
<1>4. Cache(rv, flush)
  BY DEF Clock
<1> QED BY <1>2, <1>3, <1>4 DEF Cache, IdleStep

\* What each way of accepting a request knows of it.
LEMMA AcceptFacts ==
  ASSUME NEW rv
  PROVE  /\ AcceptLoadHit(rv) =>
              /\ cpu_valid /\ cpu_ready(rv) /\ lsu_op.kind = "load" /\ cache_hit
              /\ ~BypassNow(rv) /\ ~StoreHandshake(rv)
         /\ AcceptLoadMiss(rv) =>
              /\ cpu_valid /\ cpu_ready(rv) /\ lsu_op.kind = "load"
              /\ cpu_cacheable /\ ~cache_hit
              /\ ~BypassNow(rv) /\ ~StoreHandshake(rv)
         /\ AcceptStore(rv) =>
              /\ cpu_valid /\ cpu_ready(rv) /\ lsu_op.kind = "store"
              /\ cpu_cacheable /\ ~BypassNow(rv) /\ StoreHandshake(rv)
         /\ AcceptAmoDirty(rv) =>
              /\ cpu_valid /\ cpu_ready(rv) /\ amo_dirty_hit /\ BypassNow(rv)
              /\ ~cpu_cacheable
         /\ AcceptBypass(rv) =>
              /\ cpu_valid /\ cpu_ready(rv) /\ ~cpu_cacheable /\ ~amo_dirty_hit
              /\ BypassNow(rv)
         /\ IdleWait(rv) => ~BypassNow(rv) /\ ~StoreHandshake(rv)
BY DEF AcceptLoadHit, AcceptLoadMiss, AcceptStore, AcceptAmoDirty, AcceptBypass, IdleWait,
   Accepts, BypassNow, StoreHandshake, cache_hit, cpu_store, cpu_cacheable, amo_dirty_hit

-----------------------------------------------------------------------------
(***************************************************************************)
(* Each part of IInv is preserved.                                         *)
(***************************************************************************)

\* The FSM leaves Idle for memory only behind an empty buffer.
LEMMA BusyIsDrainedStep ==
  ASSUME IInv, NEW rv \in BOOLEAN, NEW flush \in BOOLEAN, NEW wr \in BOOLEAN,
         Clock(rv, flush, wr)
  PROVE  BusyIsDrained'
<1>0. TypeOK /\ BusyIsDrained /\ StoreBuffer(rv, flush)
  BY DEF IInv, TypeInv, Clock
<1>1. CASE flush
  <2>1. state' = state \/ state' = "Idle"
    BY <1>1, Dispatch DEF Invalidate
  <2>2. state # "Idle" => sb_count' = sb_count
    BY <1>0, NotIdle DEF BufferUnchanged
  <2> QED BY <1>0, <2>1, <2>2 DEF BusyIsDrained
<1>2. CASE ~flush /\ state = "Idle"
  <2>1. IdleStep(rv)
    BY <1>2, Dispatch
  <2>2. CASE IdleWait(rv)
    <3>1. state' = "Idle" \/ (state' = "FlushScan" /\ count_next(rv, FALSE) = 0)
      BY <1>2, <2>2 DEF IdleWait, StartsScan
    <3>2. sb_count' = count_next(rv, flush)
      BY <1>0 DEF StoreBuffer
    <3> QED BY <1>2, <3>1, <3>2 DEF BusyIsDrained
  <2>3. CASE AcceptLoadHit(rv)
    BY <2>3 DEF AcceptLoadHit, BusyIsDrained
  <2>4. CASE AcceptStore(rv)
    BY <1>2, <2>4 DEF AcceptStore, BusyIsDrained
  <2>5. CASE AcceptLoadMiss(rv)
    <3>1. sb_count = 0 /\ ~store_buffer_issue_valid
      BY <2>5, AcceptFacts, AcceptSignals
    <3>2. ~Enqueues(rv, flush) /\ ~store_buffer_issue_fire(rv)
      BY <2>5, <3>1, AcceptFacts DEF Enqueues, cpu_store, store_buffer_issue_fire
    <3> QED BY <1>0, <3>1, <3>2, CountStep DEF BusyIsDrained
  <2>6. CASE AcceptAmoDirty(rv) \/ AcceptBypass(rv)
    BY <1>0, <2>6, AcceptFacts, BypassNowStep DEF BusyIsDrained, BufferUnchanged
  <2> QED BY <2>1, <2>2, <2>3, <2>4, <2>5, <2>6 DEF IdleStep
<1>3. CASE ~flush /\ state # "Idle"
  <2>1. sb_count' = sb_count
    BY <1>0, <1>3, NotIdle DEF BufferUnchanged
  <2>2. state = "Response" => state' = "Idle"
    BY <1>3, Dispatch DEF Response
  <2> QED BY <1>0, <1>3, <2>1, <2>2 DEF BusyIsDrained
<1> QED BY <1>1, <1>2, <1>3

\* Only an accepted store of a write-back cache makes a line dirty.
LEMMA DirtyIsWriteBackStep ==
  ASSUME IInv, NEW rv \in BOOLEAN, NEW flush \in BOOLEAN, NEW wr \in BOOLEAN,
         Clock(rv, flush, wr)
  PROVE  DirtyIsWriteBack'
<1>0. TypeOK /\ DirtyIsWriteBack /\ Cache(rv, flush)
  BY DEF IInv, TypeInv, Clock
<1>1. \/ \A i \in Lines : dirty'[i] => dirty[i]
      \/ WriteBack
  <2>1. dirty \in [Lines -> BOOLEAN] /\ fill.index \in Lines /\ wb.index \in Lines
        /\ flush_index \in Lines
    BY <1>0 DEF TypeOK
  <2>2. CASE flush
    BY <2>1, <2>2, Dispatch DEF Invalidate
  <2>3. CASE ~flush /\ state = "Idle"
    <3>1. IdleStep(rv)
      BY <2>3, Dispatch
    <3> QED BY <2>1, <3>1 DEF IdleStep, IdleWait, AcceptLoadHit, AcceptLoadMiss,
               AcceptStore, AcceptAmoDirty, AcceptBypass
  <2>4. CASE ~flush /\ state # "Idle"
    <3>1. \/ LoadFillReq(rv) \/ LoadFillWait(rv) \/ WritebackReq(rv) \/ FlushScan
          \/ BypassReq(rv) \/ BypassWait(rv) \/ Response
      BY <1>0, <2>4, Dispatch DEF TypeOK, FsmState
    <3> QED BY <2>1, <3>1 DEF LoadFillReq, LoadFillWait, WritebackReq, FlushScan,
               BypassReq, BypassWait, Response
  <2> QED BY <2>2, <2>3, <2>4
<1> QED BY <1>0, <1>1 DEF DirtyIsWriteBack

\* A request changes one word.
LEMMA WroteAt ==
  ASSUME NEW mem \in [Addr -> Word], NEW r, r.addr \in Addr, NEW a \in Addr
  PROVE  Wrote(mem, r)[a] = IF a = r.addr THEN merge_word(mem[a], r.wdata, r.mask)
                                          ELSE mem[a]
BY DEF Wrote

\* The words of lines are addresses, and TagHit finds exactly them.
LEMMA LineAddr ==
  ASSUME TypeOK, NEW i \in Lines, NEW w \in Words
  PROVE  /\ <<tags[i], i, w>> \in RamWord /\ <<tags[i], i, w>> \in Addr
         /\ is_ram(<<tags[i], i, w>>)
         /\ TagHit(<<tags[i], i, w>>) <=> valid[i]
BY DEF TypeOK, RamWord, Addr, is_ram, TagHit

\* The lines are kept, or some are dropped.
LinesKept ==
  /\ data' = data /\ tags' = tags
  /\ \A i \in Lines : valid'[i] => valid[i]

\* Only a fill and an accepted store change the contents of a line.
LEMMA KeepsLines ==
  ASSUME NEW rv, NEW flush \in BOOLEAN, NEW wr, Clock(rv, flush, wr), TypeOK,
         flush \/ (state # "LoadFillWait" /\ ~AcceptStore(rv))
  PROVE  LinesKept
<1>0. valid \in [Lines -> BOOLEAN] /\ state \in FsmState
      /\ wb.index \in Lines /\ flush_index \in Lines
  BY DEF TypeOK
<1>1. CASE flush
  BY <1>0, <1>1, Dispatch DEF Invalidate, LinesKept
<1>2. CASE ~flush /\ state = "Idle"
  <2>1. IdleStep(rv)
    BY <1>2, Dispatch
  <2> QED BY <1>0, <1>2, <2>1 DEF IdleStep, IdleWait, AcceptLoadHit, AcceptLoadMiss,
             AcceptAmoDirty, AcceptBypass, LinesKept
<1>3. CASE ~flush /\ state # "Idle"
  <2>1. \/ LoadFillReq(rv) \/ WritebackReq(rv) \/ FlushScan
        \/ BypassReq(rv) \/ BypassWait(rv) \/ Response
    BY <1>0, <1>3, Dispatch DEF FsmState
  <2> QED BY <1>0, <2>1 DEF LoadFillReq, WritebackReq, FlushScan, BypassReq, BypassWait,
             Response, LinesKept
<1> QED BY <1>1, <1>2, <1>3

\* Kept lines stay current if the program's memory changes outside them.
LEMMA CachedKept ==
  ASSUME TypeOK, CachedIsCurrent, LinesKept,
         \A a \in RamWord : TagHit(a) /\ valid'[a[2]] => arch'[a] = arch[a]
  PROVE  CachedIsCurrent'
<1> SUFFICES ASSUME NEW i \in Lines, NEW w \in Words, valid'[i]
             PROVE  data'[i][w] = arch'[<<tags'[i], i, w>>]
  BY DEF CachedIsCurrent
<1> DEFINE a == <<tags[i], i, w>>
<1>1. valid[i] /\ data'[i][w] = data[i][w] /\ tags'[i] = tags[i]
  BY DEF LinesKept
<1>2. a \in RamWord /\ TagHit(a) /\ a[2] = i
  BY <1>1, LineAddr
<1>3. arch'[a] = arch[a]
  BY <1>2
<1>4. data[i][w] = arch[a]
  BY <1>1 DEF CachedIsCurrent
<1> QED BY <1>1, <1>3, <1>4

\* Hits, fills, drops and atomics leave every valid line current.
LEMMA CachedStep ==
  ASSUME IInv, NEW rv \in BOOLEAN, NEW flush \in BOOLEAN, NEW wr \in BOOLEAN,
         Clock(rv, flush, wr)
  PROVE  CachedIsCurrent'
<1>0. /\ TypeOK /\ CachedIsCurrent /\ BypassCurrent /\ FillCurrent
      /\ arch \in [Addr -> Word] /\ lsu_op \in CpuOps /\ saved \in CpuOps
      /\ state \in FsmState
  BY DEF IInv, TypeInv, TypeOK
<1>1. CASE state = "BypassReq"
  <2>1. arch' = arch \/ arch' = Wrote(arch, saved)
    BY <1>0, <1>1, BypassReqStep
  <2>2. \A a \in RamWord : TagHit(a) => a # saved.addr
    BY <1>0, <1>1 DEF BypassCurrent, is_ram
  <2>3. \A a \in RamWord : TagHit(a) => arch'[a] = arch[a]
    BY <1>0, <2>1, <2>2, WroteAt, OpType DEF Addr
  <2>4. LinesKept
    <3>1. ~AcceptStore(rv)
      BY <1>0, <1>1, AcceptFacts, AcceptSignals
    <3> QED BY <1>0, <1>1, <3>1, KeepsLines
  <2> QED BY <1>0, <2>3, <2>4, CachedKept
<1>2. CASE state = "LoadFillWait" /\ ~flush
  <2>1. arch' = arch
    BY <1>0, <1>2, QuietStep
  <2>2. LoadFillWait(rv)
    BY <1>2, Dispatch
  <2>3. CASE UNCHANGED <<valid, tags, data>>
    BY <1>0, <2>1, <2>3 DEF CachedIsCurrent
  <2>4. CASE ~UNCHANGED <<valid, tags, data>>
    <3> DEFINE words == [fill.words EXCEPT ![fill.next] = port]
    <3>1. /\ rv /\ fill.count = WordsPerLine - 1
          /\ valid' = [valid EXCEPT ![fill.index] = TRUE]
          /\ tags' = [tags EXCEPT ![fill.index] = fill.tag]
          /\ data' = [data EXCEPT ![fill.index] = words]
      BY <2>2, <2>4 DEF LoadFillWait
    <3>2. /\ fill.index \in Lines /\ fill.tag \in Tags /\ fill.next \in Words
          /\ fill.rsp_word \in Words /\ fill.words \in [Words -> Word]
          /\ valid \in [Lines -> BOOLEAN] /\ tags \in [Lines -> Tags]
          /\ data \in [Lines -> [Words -> Word]]
      BY <1>0 DEF TypeOK
    <3>3. /\ port = arch[FillAddr]
          /\ fill.next = Fetched(WordsPerLine - 1)
          /\ \A d \in Words : d < WordsPerLine - 1 =>
               fill.words[Fetched(d)] = arch[<<fill.tag, fill.index, Fetched(d)>>]
      BY <1>0, <1>2, <3>1 DEF FillCurrent, Clock
    <3>4. ASSUME NEW w \in Words PROVE words[w] = arch[<<fill.tag, fill.index, w>>]
      <4>1. CASE w = fill.next
        BY <3>2, <3>3, <4>1 DEF FillAddr
      <4>2. CASE w # fill.next
        <5>1. PICK d \in Words : d < WordsPerLine - 1 /\ w = Fetched(d)
          <6> DEFINE d == IF w >= fill.rsp_word THEN w - fill.rsp_word
                          ELSE w - fill.rsp_word + WordsPerLine
          <6>1. d \in Words /\ w = Fetched(d)
            BY <3>2, GeometryAssumption DEF Fetched, WrapWord, Words
          <6>2. d # WordsPerLine - 1
            BY <3>3, <4>2, <6>1
          <6> HIDE DEF d
          <6>3. d < WordsPerLine - 1
            BY <6>1, <6>2, GeometryAssumption DEF Words
          <6> QED BY <6>1, <6>3
        <5> QED BY <3>2, <3>3, <4>2, <5>1
      <4> QED BY <4>1, <4>2
    <3> HIDE DEF words
    <3>5. ASSUME NEW i \in Lines, NEW w \in Words, valid'[i]
          PROVE  data'[i][w] = arch'[<<tags'[i], i, w>>]
      <4>1. CASE i = fill.index
        BY <2>1, <3>1, <3>2, <3>4, <4>1
      <4>2. CASE i # fill.index
        BY <1>0, <2>1, <3>1, <3>2, <3>5, <4>2 DEF CachedIsCurrent
      <4> QED BY <4>1, <4>2
    <3> QED BY <3>5 DEF CachedIsCurrent
  <2> QED BY <2>3, <2>4
<1>3. CASE \/ state \in {"LoadFillReq", "FlushScan", "BypassWait", "Response", "WritebackReq"}
           \/ state = "LoadFillWait" /\ flush
  <2>1. arch' = arch
    BY <1>0, <1>3, QuietStep, WritebackStep
  <2>2. ~AcceptStore(rv)
    BY <1>0, <1>3, AcceptFacts, AcceptSignals
  <2> QED BY <1>0, <1>3, <2>1, <2>2, KeepsLines, CachedKept
<1>4. CASE state = "Idle" /\ ~BypassNow(rv) /\ ~StoreHandshake(rv)
  <2>1. arch' = arch
    BY <1>0, <1>4, DrainingStep
  <2>2. ~AcceptStore(rv)
    BY <1>4, AcceptFacts
  <2> QED BY <1>0, <1>4, <2>1, <2>2, KeepsLines, CachedKept
<1>5. CASE state = "Idle" /\ BypassNow(rv)
  <2>1. ~flush /\ (arch' = arch \/ (arch' = Wrote(arch, lsu_op) /\ ~amo_dirty_hit))
    <3>1. lsu_op.kind = "store" => ~amo_dirty_hit
      BY DEF amo_dirty_hit
    <3> QED BY <1>0, <1>5, <3>1, BypassNowStep
  <2>2. ~AcceptStore(rv) /\ LinesKept
    BY <1>0, <1>5, AcceptFacts, KeepsLines
  <2>3. ASSUME NEW a \in RamWord, TagHit(a), valid'[a[2]]
        PROVE  arch'[a] = arch[a]
    <3>1. CASE arch' = arch
      BY <3>1
    <3>2. CASE arch' = Wrote(arch, lsu_op) /\ ~amo_dirty_hit
      <4>1. a # lsu_op.addr
        <5> SUFFICES ASSUME a = lsu_op.addr PROVE FALSE
          OBVIOUS
        <5>1. lsu_op.kind = "amo" /\ is_ram(lsu_op.addr)
          BY <1>5 DEF BypassNow, cpu_cacheable, is_ram
        <5>2. AcceptBypass(rv)
          <6>1. IdleStep(rv)
            BY <1>5, <2>1, Dispatch
          <6> QED BY <1>5, <3>2, <6>1, AcceptFacts DEF IdleStep
        <5>3. valid' = [valid EXCEPT ![a[2]] = FALSE] /\ a[2] \in Lines
          BY <1>0, <2>3, <5>1, <5>2, OpType DEF AcceptBypass
        <5> QED BY <1>0, <2>3, <5>3 DEF TypeOK
      <4> QED BY <1>0, <3>2, <4>1, WroteAt, OpType DEF Addr
    <3> QED BY <2>1, <3>1, <3>2
  <2> QED BY <1>0, <2>2, <2>3, CachedKept
<1>6. CASE state = "Idle" /\ ~BypassNow(rv) /\ StoreHandshake(rv)
  <2> DEFINE i == lsu_op.addr[2]
             w == lsu_op.addr[3]
  <2>1. arch' = Wrote(arch, lsu_op)
    BY <1>0, <1>6, DrainingStep
  <2>2. AcceptStore(rv)
    <3>1. ~flush
      BY <1>6, FlushIsQuiet
    <3>2. IdleStep(rv)
      BY <1>6, <3>1, Dispatch
    <3> QED BY <1>6, <3>2, AcceptFacts DEF IdleStep
  <2>3. /\ is_ram(lsu_op.addr) /\ lsu_op.addr \in Addr
        /\ i \in Lines /\ w \in Words /\ lsu_op.addr = <<lsu_op.addr[1], i, w>>
    BY <1>0, <2>2, AcceptFacts, OpType DEF cpu_cacheable
  <2>4. CASE ~cache_hit
    <3>1. data' = data /\ tags' = tags /\ valid' = valid
      BY <2>2, <2>4 DEF AcceptStore
    <3>2. ~TagHit(lsu_op.addr)
      BY <2>2, <2>4, AcceptFacts DEF cache_hit
    <3>3. \A a \in RamWord : TagHit(a) => arch'[a] = arch[a]
      BY <1>0, <2>1, <2>3, <3>2, WroteAt DEF Addr
    <3>4. LinesKept
      BY <3>1 DEF LinesKept
    <3> QED BY <1>0, <3>3, <3>4, CachedKept
  <2>5. CASE cache_hit
    <3>1. /\ data' = [data EXCEPT ![i][w] = merge_word(data[i][w], lsu_op.wdata, lsu_op.mask)]
          /\ tags' = tags /\ valid' = valid
      BY <2>2, <2>5 DEF AcceptStore
    <3>2. lsu_op.addr = <<tags[i], i, w>> /\ valid[i]
      BY <2>3, <2>5 DEF cache_hit, TagHit
    <3>3. ASSUME NEW j \in Lines, NEW v \in Words, valid[j]
          PROVE  data'[j][v] = arch'[<<tags[j], j, v>>]
      <4>1. data[j][v] = arch[<<tags[j], j, v>>] /\ <<tags[j], j, v>> \in Addr
        BY <1>0, <3>3, LineAddr DEF CachedIsCurrent
      <4>2. CASE j = i /\ v = w
        <5>1. data'[j][v] = merge_word(data[i][w], lsu_op.wdata, lsu_op.mask)
          BY <1>0, <2>3, <3>1, <4>2 DEF TypeOK
        <5>2. arch'[lsu_op.addr] = merge_word(arch[lsu_op.addr], lsu_op.wdata, lsu_op.mask)
          BY <1>0, <2>1, <2>3, WroteAt
        <5> QED BY <3>2, <4>1, <4>2, <5>1, <5>2
      <4>3. CASE ~(j = i /\ v = w)
        <5>1. data'[j][v] = data[j][v]
          BY <1>0, <2>3, <3>1, <4>3 DEF TypeOK
        <5>2. <<tags[j], j, v>> # lsu_op.addr
          BY <3>2, <4>3
        <5> QED BY <1>0, <2>1, <2>3, <4>1, <5>1, <5>2, WroteAt
      <4> QED BY <4>2, <4>3
    <3> QED BY <3>1, <3>3 DEF CachedIsCurrent
  <2> QED BY <2>4, <2>5
<1> QED BY <1>0, <1>1, <1>2, <1>3, <1>4, <1>5, <1>6 DEF FsmState

\* With an empty buffer a lane is held by memory.
LEMMA HeldEmpty ==
  ASSUME TypeOK, sb_count = 0, NEW a, NEW b
  PROVE  Held(a, b) <=> backing[a][b] = arch[a][b]
BY GeometryAssumption DEF TypeOK, Held, Youngest, Covers, Slots

\* The same after a cycle that leaves the empty buffer alone.
LEMMA HeldEmptyNext ==
  ASSUME TypeOK, sb_count = 0, BufferUnchanged, NEW a, NEW b
  PROVE  Held(a, b)' <=> backing'[a][b] = arch'[a][b]
<1>1. \A i \in Slots : ~Covers(i, a, b)'
  BY GeometryAssumption DEF BufferUnchanged, Covers, Slots
<1> QED BY <1>1 DEF Held, Youngest

\* A word in a dirty line.
InDirtyLine(a) == TagHit(a) /\ dirty[a[2]]

\* A dirty line is given up only by the last step of a writeback.
LEMMA DirtyStays ==
  ASSUME IInv, NEW rv \in BOOLEAN, NEW flush \in BOOLEAN, NEW wr \in BOOLEAN,
         Clock(rv, flush, wr), NEW a \in RamWord, InDirtyLine(a)
  PROVE  \/ InDirtyLine(a)'
         \/ /\ state = "WritebackReq" /\ mem_ready(rv) /\ wb.word = WordsPerLine - 1
            /\ a[1] = wb.tag /\ a[2] = wb.index
<1>0. /\ TypeOK /\ DirtyIsWriteBack /\ FillCurrent /\ WritebackCurrent
      /\ a[2] \in Lines /\ a[3] \in Words
      /\ state \in FsmState
      /\ valid \in [Lines -> BOOLEAN] /\ dirty \in [Lines -> BOOLEAN]
      /\ tags \in [Lines -> Tags]
      /\ fill.index \in Lines /\ wb.index \in Lines /\ flush_index \in Lines
  BY DEF IInv, TypeInv, TypeOK, RamWord
<1>1. valid[a[2]] /\ dirty[a[2]] /\ tags[a[2]] = a[1] /\ WriteBack
  BY <1>0 DEF InDirtyLine, TagHit, DirtyIsWriteBack
<1> SUFFICES \/ valid'[a[2]] /\ dirty'[a[2]] /\ tags'[a[2]] = a[1]
             \/ /\ state = "WritebackReq" /\ mem_ready(rv) /\ wb.word = WordsPerLine - 1
                /\ a[1] = wb.tag /\ a[2] = wb.index
  BY DEF InDirtyLine, TagHit
<1>2. CASE flush
  BY <1>1, <1>2, Dispatch DEF Invalidate
<1>3. CASE ~flush /\ state = "Idle"
  <2>1. IdleStep(rv)
    BY <1>3, Dispatch
  <2>2. CASE AcceptStore(rv)
    <3>1. valid' = valid /\ tags' = tags
          /\ (dirty' = dirty \/ dirty' = [dirty EXCEPT ![lsu_op.addr[2]] = TRUE])
      BY <2>2 DEF AcceptStore
    <3> QED BY <1>0, <1>1, <3>1
  <2>3. CASE AcceptBypass(rv)
    <3>1. /\ tags' = tags
          /\ \/ valid' = valid /\ dirty' = dirty
             \/ /\ lsu_op.kind = "amo" /\ is_ram(lsu_op.addr) /\ TagHit(lsu_op.addr)
                /\ valid' = [valid EXCEPT ![lsu_op.addr[2]] = FALSE]
                /\ dirty' = [dirty EXCEPT ![lsu_op.addr[2]] = FALSE]
      BY <2>3 DEF AcceptBypass
    <3>2. is_ram(lsu_op.addr) /\ lsu_op.kind = "amo" /\ TagHit(lsu_op.addr) =>
            lsu_op.addr[2] # a[2]
      BY <1>1, <2>3 DEF AcceptBypass, amo_dirty_hit
    <3> QED BY <1>0, <1>1, <3>1, <3>2
  <2>4. CASE ~AcceptStore(rv) /\ ~AcceptBypass(rv)
    BY <1>1, <2>1, <2>4 DEF IdleStep, IdleWait, AcceptLoadHit, AcceptLoadMiss, AcceptAmoDirty
  <2> QED BY <2>2, <2>3, <2>4
<1>4. CASE ~flush /\ state = "LoadFillWait"
  <2>1. LoadFillWait(rv)
    BY <1>4, Dispatch
  <2>2. a[2] # fill.index
    BY <1>0, <1>1, <1>4 DEF FillCurrent
  <2>3. \/ UNCHANGED <<valid, dirty, tags>>
        \/ /\ valid' = [valid EXCEPT ![fill.index] = TRUE]
           /\ dirty' = [dirty EXCEPT ![fill.index] = FALSE]
           /\ tags' = [tags EXCEPT ![fill.index] = fill.tag]
    BY <2>1 DEF LoadFillWait
  <2> QED BY <1>0, <1>1, <2>2, <2>3
<1>5. CASE ~flush /\ state = "WritebackReq"
  <2>1. WritebackReq(rv) /\ tags' = tags
    BY <1>5, Dispatch DEF WritebackReq
  <2>2. CASE ~mem_ready(rv) \/ wb.word # WordsPerLine - 1
    BY <1>1, <2>1, <2>2 DEF WritebackReq
  <2>3. CASE mem_ready(rv) /\ wb.word = WordsPerLine - 1 /\ a[2] = wb.index
    BY <1>0, <1>1, <1>5, <2>3 DEF WritebackCurrent
  <2>4. CASE mem_ready(rv) /\ wb.word = WordsPerLine - 1 /\ a[2] # wb.index
    <3>1. /\ dirty' = [dirty EXCEPT ![wb.index] = FALSE]
          /\ valid' = valid \/ valid' = [valid EXCEPT ![wb.index] = FALSE]
      BY <2>1, <2>4 DEF WritebackReq
    <3> QED BY <1>0, <1>1, <2>1, <2>4, <3>1
  <2> QED BY <2>2, <2>3, <2>4
<1>6. CASE ~flush /\ state = "FlushScan"
  <2>1. FlushScan /\ tags' = tags
    BY <1>6, Dispatch DEF FlushScan
  <2>2. \/ valid' = valid /\ dirty' = dirty
        \/ /\ ~(valid[flush_index] /\ dirty[flush_index])
           /\ valid' = [valid EXCEPT ![flush_index] = FALSE]
           /\ dirty' = [dirty EXCEPT ![flush_index] = FALSE]
    BY <2>1 DEF FlushScan
  <2> QED BY <1>0, <1>1, <2>1, <2>2
<1>7. CASE ~flush /\ state \in {"LoadFillReq", "BypassReq", "BypassWait", "Response"}
  <2>1. LoadFillReq(rv) \/ BypassReq(rv) \/ BypassWait(rv) \/ Response
    BY <1>7, Dispatch
  <2>2. UNCHANGED <<valid, dirty, tags>>
    BY <2>1 DEF LoadFillReq, BypassReq, BypassWait, Response
  <2> QED BY <1>1, <2>2
<1> QED BY <1>0, <1>2, <1>3, <1>4, <1>5, <1>6, <1>7 DEF FsmState

\* Every cycle keeps what is in no dirty line in the buffer or below.
LEMMA NothingLostStep ==
  ASSUME IInv, NEW rv \in BOOLEAN, NEW flush \in BOOLEAN, NEW wr \in BOOLEAN,
         Clock(rv, flush, wr)
  PROVE  NothingLost'
<1>0. /\ TypeOK /\ RingShape /\ NothingLost /\ BusyIsDrained /\ CachedIsCurrent
      /\ WritebackCurrent /\ BypassCurrent /\ StoreBuffer(rv, flush)
      /\ arch \in [Addr -> Word] /\ backing \in [Addr -> Word]
      /\ lsu_op \in CpuOps /\ saved \in CpuOps /\ state \in FsmState
  BY DEF IInv, TypeInv, TypeOK, Clock
<1> SUFFICES ASSUME NEW a \in RamWord, NEW b \in Bytes, ~InDirtyLine(a)'
             PROVE  Held(a, b)'
  BY DEF NothingLost, InDirtyLine
<1>1. a \in Addr /\ a = <<a[1], a[2], a[3]>> /\ a[1] \in Tags /\ a[2] \in Lines /\ a[3] \in Words
  BY DEF Addr, RamWord
<1>2. ~InDirtyLine(a) => Held(a, b)
  BY <1>0 DEF NothingLost, InDirtyLine
<1>3. state # "WritebackReq" => Held(a, b)
  BY <1>2, DirtyStays
<1>4. CASE state \in {"LoadFillReq", "LoadFillWait", "FlushScan", "BypassWait", "Response"}
  <2>1. arch' = arch /\ backing' = backing /\ BufferUnchanged
    BY <1>0, <1>4, QuietStep
  <2>2. Held(a, b)
    BY <1>3, <1>4
  <2> QED BY <2>1, <2>2 DEF Held, Youngest, Covers, SlotOf, BufferUnchanged
<1>5. CASE state = "WritebackReq"
  <2>1. sb_count = 0
    BY <1>0, <1>5 DEF BusyIsDrained
  <2>2. /\ arch' = arch /\ BufferUnchanged
        /\ backing' = IF mem_ready(rv)
                        THEN [backing EXCEPT ![WritebackAddr] = data[wb.index][wb.word]]
                        ELSE backing
    BY <1>0, <1>5, WritebackStep
  <2>3. wb.index \in Lines /\ wb.word \in Words /\ wb.tag \in Tags
        /\ WritebackAddr \in Addr
        /\ WritebackAddr \in RamWord /\ WritebackAddr[1] = wb.tag
        /\ WritebackAddr[2] = wb.index /\ WritebackAddr[3] = wb.word
    BY <1>0 DEF TypeOK, WritebackAddr, RamWord, Addr
  <2>4. InDirtyLine(WritebackAddr)
    BY <1>0, <1>5, <2>3 DEF WritebackCurrent, InDirtyLine, TagHit
  <2>5. data[wb.index][wb.word] = arch[WritebackAddr]
    BY <1>0, <1>5, <2>3 DEF WritebackCurrent, CachedIsCurrent, WritebackAddr
  <2>6. CASE ~InDirtyLine(a)
    <3>1. backing[a][b] = arch[a][b]
      BY <1>0, <1>2, <2>1, <2>6, HeldEmpty
    <3>2. backing'[a] = backing[a]
      BY <1>0, <1>1, <2>2, <2>3, <2>4, <2>6
    <3> QED BY <1>0, <2>1, <2>2, <3>1, <3>2, HeldEmptyNext
  <2>7. CASE InDirtyLine(a)
    <3>1. mem_ready(rv) /\ wb.word = WordsPerLine - 1 /\ a[1] = wb.tag /\ a[2] = wb.index
      BY <2>7, DirtyStays
    <3>2. backing' = [backing EXCEPT ![WritebackAddr] = arch[WritebackAddr]]
      BY <2>2, <2>5, <3>1
    <3>3. CASE a[3] = wb.word
      <4>1. a = WritebackAddr
        BY <1>1, <3>1, <3>3 DEF WritebackAddr
      <4>2. backing'[a] = arch[a]
        BY <1>0, <2>3, <3>2, <4>1
      <4> QED BY <1>0, <2>1, <2>2, <4>2, HeldEmptyNext
    <3>4. CASE a[3] # wb.word
      <4>1. a[3] < wb.word
        BY <1>1, <3>1, <3>4, GeometryAssumption DEF Words
      <4>2. backing[a] = arch[a]
        BY <1>0, <1>1, <1>5, <3>1, <4>1 DEF WritebackCurrent
      <4>3. backing'[a] = backing[a]
        BY <1>0, <1>1, <2>3, <3>2, <3>4
      <4> QED BY <1>0, <2>1, <2>2, <4>2, <4>3, HeldEmptyNext
    <3> QED BY <3>3, <3>4
  <2> QED BY <2>6, <2>7
<1>6. CASE state = "BypassReq"
  <2>1. sb_count = 0 /\ BufferUnchanged
    BY <1>0, <1>6, BypassReqStep DEF BusyIsDrained
  <2>2. backing[a][b] = arch[a][b]
    BY <1>0, <1>3, <1>6, <2>1, HeldEmpty
  <2>3. saved.kind = "store" => a # saved.addr
    BY <1>0, <1>6 DEF BypassCurrent, is_ram
  <2>4. /\ backing' = backing \/ backing' = Wrote(backing, saved)
        /\ arch' = arch \/ arch' = Wrote(arch, saved)
    BY <1>0, <1>6, BypassReqStep
  <2>5. CASE a # saved.addr
    <3>1. backing'[a] = backing[a] /\ arch'[a] = arch[a]
      BY <1>0, <1>1, <2>4, <2>5, WroteAt, OpType
    <3> QED BY <1>0, <2>1, <2>2, <3>1, HeldEmptyNext
  <2>6. CASE a = saved.addr
    <3>1. \/ backing' = backing /\ arch' = arch
          \/ backing' = Wrote(backing, saved) /\ arch' = Wrote(arch, saved)
      BY <1>0, <1>6, <2>3, <2>6, BypassReqStep
    <3>2. backing'[a][b] = arch'[a][b]
      <4>1. CASE backing' = Wrote(backing, saved) /\ arch' = Wrote(arch, saved)
        <5>1. /\ backing'[a] = merge_word(backing[a], saved.wdata, saved.mask)
              /\ arch'[a] = merge_word(arch[a], saved.wdata, saved.mask)
          BY <1>0, <1>1, <2>6, <4>1, WroteAt
        <5> QED BY <2>2, <5>1 DEF merge_word
      <4> QED BY <2>2, <3>1, <4>1
    <3> QED BY <1>0, <2>1, <3>2, HeldEmptyNext
  <2> QED BY <2>5, <2>6
<1>7. CASE state = "Idle" /\ BypassNow(rv)
  <2>1. sb_count = 0 /\ BufferUnchanged
    BY <1>0, <1>7, BypassNowStep
  <2>2. backing[a][b] = arch[a][b]
    BY <1>0, <1>3, <1>7, <2>1, HeldEmpty
  <2>3. CASE a # lsu_op.addr
    <3>1. backing'[a] = backing[a] /\ arch'[a] = arch[a]
      BY <1>0, <1>1, <1>7, <2>3, BypassNowStep, WroteAt, OpType
    <3> QED BY <1>0, <2>1, <2>2, <3>1, HeldEmptyNext
  <2>4. CASE a = lsu_op.addr
    <3>1. lsu_op.kind = "amo" /\ is_ram(lsu_op.addr)
      BY <1>7, <2>4 DEF BypassNow, cpu_cacheable, is_ram
    <3>2. ~amo_dirty_hit
      <4>1. InDirtyLine(a) => FALSE
        BY <1>7, DirtyStays
      <4> QED BY <2>4, <4>1 DEF amo_dirty_hit, InDirtyLine
    <3>3. \/ backing' = backing /\ arch' = arch
          \/ backing' = Wrote(backing, lsu_op) /\ arch' = Wrote(arch, lsu_op)
      BY <1>0, <1>7, <3>1, <3>2, BypassNowStep
    <3>4. backing'[a][b] = arch'[a][b]
      <4>1. CASE backing' = Wrote(backing, lsu_op) /\ arch' = Wrote(arch, lsu_op)
        <5>1. /\ backing'[a] = merge_word(backing[a], lsu_op.wdata, lsu_op.mask)
              /\ arch'[a] = merge_word(arch[a], lsu_op.wdata, lsu_op.mask)
          BY <1>0, <1>1, <2>4, <4>1, WroteAt
        <5> QED BY <2>2, <5>1 DEF merge_word
      <4> QED BY <2>2, <3>3, <4>1
    <3> QED BY <1>0, <2>1, <3>4, HeldEmptyNext
  <2> QED BY <2>3, <2>4
<1>8. CASE state = "Idle" /\ ~BypassNow(rv)
  <2>1. /\ backing' = Drained(rv)
        /\ arch' = IF StoreHandshake(rv) THEN Wrote(arch, lsu_op) ELSE arch
    BY <1>0, <1>8, DrainingStep
  <2>2. DrainStep(rv, a, b)
    <3>1. CASE ~store_buffer_issue_fire(rv)
      BY <2>1, <3>1 DEF Drained, DrainStep
    <3>2. CASE store_buffer_issue_fire(rv)
      <4> DEFINE e == sb[sb_head]
                 r == Store(e.addr, e.wdata, e.wmask)
      <4>1. e \in Entry /\ sb_count # 0 /\ SlotOf(0) = sb_head /\ sb_count > 0
        <5>1. sb \in [Slots -> Entry] /\ sb_head \in Slots
              /\ sb_count \in 0 .. StoreBufferDepth /\ sb_count # 0
          BY <1>0, <3>2, BufferSignals DEF TypeOK
        <5> QED BY <5>1, GeometryAssumption DEF SlotOf, Wrap, Slots
      <4>2. r.addr = e.addr /\ r.wdata = e.wdata /\ r.mask = e.wmask /\ e.addr \in Addr
        BY <4>1 DEF Store, Entry, Addr
      <4>3. backing' = Wrote(backing, r)
        BY <2>1, <3>2 DEF Drained
      <4>4. Covers(0, a, b) <=> e.addr = a /\ b \in e.wmask
        BY <4>1 DEF Covers
      <4> HIDE DEF e, r
      <4>5. backing'[a] = IF a = e.addr THEN merge_word(backing[a], e.wdata, e.wmask)
                                        ELSE backing[a]
        BY <1>0, <1>1, <4>2, <4>3, WroteAt
      <4> QED BY <3>2, <4>4, <4>5 DEF DrainStep, merge_word, e
    <3> QED BY <3>1, <3>2
  <2>3. StoreStep(rv, flush, a, b)
    <3>1. CASE ~StoreHandshake(rv)
      <4>1. ~Enqueues(rv, flush)
        BY <3>1, BufferSignals DEF StoreHandshake
      <4> QED BY <2>1, <3>1, <4>1 DEF StoreStep
    <3>2. CASE StoreHandshake(rv)
      <4>1. arch'[a] = IF a = lsu_op.addr
                         THEN merge_word(arch[a], lsu_op.wdata, lsu_op.mask) ELSE arch[a]
        BY <1>0, <1>1, <2>1, <3>2, WroteAt, OpType
      <4>2. CASE Enqueues(rv, flush)
        BY <1>1, <4>1, <4>2 DEF StoreStep, merge_word
      <4>3. CASE ~Enqueues(rv, flush)
        <5>1. ~flush
          BY <3>2, FlushIsQuiet
        <5>2. WriteBack /\ cache_hit /\ cpu_store
          BY <1>8, <3>2, <4>3, <5>1 DEF Enqueues, Accepts, StoreHandshake, BypassNow, cpu_store
        <5>3. AcceptStore(rv)
          <6>1. IdleStep(rv)
            BY <1>8, <5>1, Dispatch
          <6> QED BY <1>8, <3>2, <6>1, AcceptFacts DEF IdleStep
        <5>4. /\ dirty' = [dirty EXCEPT ![lsu_op.addr[2]] = TRUE]
              /\ valid' = valid /\ tags' = tags
          BY <5>2, <5>3 DEF AcceptStore
        <5>5. a # lsu_op.addr
          <6> SUFFICES ASSUME a = lsu_op.addr PROVE FALSE
            OBVIOUS
          <6>1. TagHit(a) /\ dirty \in [Lines -> BOOLEAN]
            BY <1>0, <5>2 DEF cache_hit, TypeOK
          <6>2. InDirtyLine(a)'
            BY <1>1, <5>4, <6>1 DEF InDirtyLine, TagHit
          <6> QED BY <6>2
        <5> QED BY <4>1, <4>3, <5>5 DEF StoreStep
      <4> QED BY <4>2, <4>3
    <3> QED BY <3>1, <3>2
  <2>4. Held(a, b)
    BY <1>3, <1>8
  <2> QED BY <1>0, <2>2, <2>3, <2>4, HeldStep
<1> QED BY <1>0, <1>4, <1>5, <1>6, <1>7, <1>8 DEF FsmState

\* When the load/store unit waits for an answer, and for what.
LEMMA LsuFacts ==
  ASSUME NEW rv, NEW flush, NEW wr, Clock(rv, flush, wr)
  PROVE  /\ lsu_state' = "AccessWaitValid" =>
              /\ lsu_op' = lsu_op
              /\ \/ lsu_state = "AccessWaitValid" /\ rsp = NoRsp
                 \/ cpu_valid /\ cpu_ready(rv) /\ lsu_op.kind # "store"
         /\ lsu_state = "AccessWaitValid" /\ rsp = NoRsp =>
              lsu_state' = lsu_state /\ lsu_op' = lsu_op
         /\ cpu_valid /\ cpu_ready(rv) /\ lsu_op.kind # "store" =>
              lsu_state' = "AccessWaitValid" /\ lsu_op' = lsu_op
BY DEF Clock, Lsu, LsuStart, LsuIdle, LsuRequest, LsuResponse, cpu_valid

\* Behind an empty buffer, a word that is in no dirty line is current below.
LEMMA BelowIsCurrent ==
  ASSUME TypeOK, NothingLost, sb_count = 0, NEW a \in RamWord, ~InDirtyLine(a)
  PROVE  backing[a] = arch[a]
<1>1. backing[a] \in Word /\ arch[a] \in Word
  BY DEF TypeOK, Addr
<1>2. \A b \in Bytes : backing[a][b] = arch[a][b]
  BY HeldEmpty DEF NothingLost, InDirtyLine
<1> QED BY <1>1, <1>2 DEF Word

\* Uncached words change below as the program writes them.
LEMMA UncachedStep ==
  ASSUME IInv, NEW rv \in BOOLEAN, NEW flush \in BOOLEAN, NEW wr \in BOOLEAN,
         Clock(rv, flush, wr)
  PROVE  UncachedCurrent'
<1>0. /\ TypeOK /\ UncachedCurrent /\ WritebackCurrent
      /\ arch \in [Addr -> Word] /\ backing \in [Addr -> Word]
      /\ lsu_op \in CpuOps /\ saved \in CpuOps /\ state \in FsmState
  BY DEF IInv, TypeInv, TypeOK
<1> SUFFICES ASSUME NEW a \in Uncached
             PROVE  arch'[a] = IF WaitingStore(a)'
                                 THEN merge_word(backing'[a], saved'.wdata, saved'.mask)
                                 ELSE backing'[a]
  BY DEF UncachedCurrent
<1>1. a \in Addr /\ ~is_ram(a)
  BY DataAssumption DEF Addr, is_ram
<1>2. arch[a] = IF WaitingStore(a)
                  THEN merge_word(backing[a], saved.wdata, saved.mask) ELSE backing[a]
  BY <1>0 DEF UncachedCurrent
<1>3. CASE state \in {"LoadFillReq", "LoadFillWait", "FlushScan", "BypassWait", "Response"}
  <2>1. arch' = arch /\ backing' = backing
    BY <1>0, <1>3, QuietStep
  <2>2. state' # "BypassReq"
    <3>1. CASE flush
      BY <1>3, <3>1, Dispatch DEF Invalidate
    <3>2. CASE ~flush
      <4>1. LoadFillReq(rv) \/ LoadFillWait(rv) \/ FlushScan \/ BypassWait(rv) \/ Response
        BY <1>3, <3>2, Dispatch
      <4> QED BY <4>1 DEF LoadFillReq, LoadFillWait, FlushScan, BypassWait, Response
    <3> QED BY <3>1, <3>2
  <2> QED BY <1>2, <1>3, <2>1, <2>2 DEF WaitingStore
<1>4. CASE state = "WritebackReq"
  <2>1. arch' = arch /\ backing'[a] = backing[a]
    <3>1. WritebackAddr # a
      BY <1>0, <1>1 DEF TypeOK, WritebackAddr, is_ram, RamWord
    <3> QED BY <1>0, <1>1, <1>4, <3>1, WritebackStep
  <2>2. ~WaitingStore(a)'
    <3>1. CASE flush
      BY <1>4, <3>1, Dispatch DEF Invalidate, WaitingStore
    <3>2. CASE ~flush
      <4>1. WritebackReq(rv) /\ saved' = saved
        BY <1>4, <3>2, Dispatch DEF WritebackReq
      <4>2. state' = "BypassReq" => wb.resume = "bypass"
        BY <1>0, <1>4, <4>1 DEF WritebackReq, TypeOK
      <4> QED BY <1>0, <1>4, <4>1, <4>2 DEF WritebackCurrent, WaitingStore
    <3> QED BY <3>1, <3>2
  <2> QED BY <1>2, <1>4, <2>1, <2>2 DEF WaitingStore
<1>5. CASE state = "BypassReq"
  <2>1. saved' = saved
    BY <1>5, Dispatch DEF Invalidate, BypassReq
  <2>2. CASE ~mem_ready(rv)
    <3>1. backing' = backing /\ arch' = arch
      BY <1>0, <1>5, <2>2, BypassReqStep
    <3>2. state' = state
      BY <1>5, <2>2, Dispatch DEF Invalidate, BypassReq
    <3> QED BY <1>2, <2>1, <3>1, <3>2 DEF WaitingStore
  <2>3. CASE mem_ready(rv) /\ WaitingStore(a)
    <3>1. backing' = Wrote(backing, saved) /\ arch' = arch /\ saved.addr = a
      BY <1>0, <1>5, <2>3, BypassReqStep DEF WaitingStore
    <3>2. backing'[a] = arch[a]
      BY <1>0, <1>1, <1>2, <2>3, <3>1, WroteAt
    <3>3. merge_word(arch[a], saved.wdata, saved.mask) = arch[a]
      <4>1. arch[a] = merge_word(backing[a], saved.wdata, saved.mask)
        BY <1>2, <2>3
      <4> QED BY <4>1 DEF merge_word
    <3> QED BY <2>1, <3>1, <3>2, <3>3
  <2>4. CASE mem_ready(rv) /\ ~WaitingStore(a)
    <3>1. ~WaitingStore(a)'
      BY <1>5, <2>1, <2>4 DEF WaitingStore
    <3>2. arch[a] = backing[a]
      BY <1>2, <2>4
    <3>3. CASE a # saved.addr
      <4>1. backing'[a] = backing[a] /\ arch'[a] = arch[a]
        BY <1>0, <1>1, <1>5, <3>3, BypassReqStep, WroteAt, OpType
      <4> QED BY <3>1, <3>2, <4>1
    <3>4. CASE a = saved.addr
      <4>1. \/ backing' = backing /\ arch' = arch
            \/ backing' = Wrote(backing, saved) /\ arch' = Wrote(arch, saved)
        BY <1>0, <1>5, <2>4, <3>4, BypassReqStep DEF WaitingStore
      <4> QED BY <1>0, <1>1, <3>1, <3>2, <3>4, <4>1, WroteAt
    <3> QED BY <3>3, <3>4
  <2> QED BY <2>2, <2>3, <2>4
<1>6. CASE state = "Idle" /\ ~BypassNow(rv)
  <2>1. /\ backing' = Drained(rv)
        /\ arch' = IF StoreHandshake(rv) THEN Wrote(arch, lsu_op) ELSE arch
    BY <1>0, <1>6, DrainingStep
  <2>2. arch'[a] = arch[a]
    <3>1. StoreHandshake(rv) => is_ram(lsu_op.addr)
      BY <1>6 DEF StoreHandshake, BypassNow, cpu_cacheable
    <3> QED BY <1>0, <1>1, <2>1, <3>1, WroteAt, OpType
  <2>3. backing'[a] = backing[a]
    <3> DEFINE e == sb[sb_head]
               r == Store(e.addr, e.wdata, e.wmask)
    <3>1. e \in Entry
      BY <1>0 DEF TypeOK
    <3>2. r.addr \in Addr /\ r.addr # a
      BY <1>1, <3>1 DEF Store, Entry, Addr, is_ram
    <3>3. backing' = backing \/ backing' = Wrote(backing, r)
      BY <2>1 DEF Drained
    <3> HIDE DEF e, r
    <3> QED BY <1>0, <1>1, <3>2, <3>3, WroteAt
  <2>4. state' # "BypassReq"
    <3>1. CASE flush
      BY <1>6, <3>1, Dispatch DEF Invalidate
    <3>2. CASE ~flush
      <4>1. IdleStep(rv) /\ ~AcceptAmoDirty(rv) /\ ~AcceptBypass(rv)
        BY <1>6, <3>2, Dispatch, AcceptFacts
      <4> QED BY <1>6, <4>1 DEF IdleStep, IdleWait, AcceptLoadHit, AcceptLoadMiss, AcceptStore
    <3> QED BY <3>1, <3>2
  <2> QED BY <1>2, <1>6, <2>2, <2>3, <2>4 DEF WaitingStore
<1>7. CASE state = "Idle" /\ BypassNow(rv)
  <2>1. arch[a] = backing[a]
    BY <1>2, <1>7 DEF WaitingStore
  <2>2. ~flush /\ (AcceptAmoDirty(rv) \/ AcceptBypass(rv))
    <3>1. ~flush
      BY <1>0, <1>7, BypassNowStep
    <3>2. IdleStep(rv)
      BY <1>7, <3>1, Dispatch
    <3> QED BY <1>7, <3>1, <3>2, AcceptFacts DEF IdleStep
  <2>3. saved' = lsu_op
    BY <2>2 DEF AcceptAmoDirty, AcceptBypass
  <2>4. CASE a # lsu_op.addr
    <3>1. backing'[a] = backing[a] /\ arch'[a] = arch[a]
      BY <1>0, <1>1, <1>7, <2>4, BypassNowStep, WroteAt, OpType
    <3> QED BY <2>1, <2>3, <2>4, <3>1 DEF WaitingStore
  <2>5. CASE a = lsu_op.addr
    <3>1. AcceptBypass(rv) /\ ~amo_dirty_hit
      BY <1>1, <2>2, <2>5, AcceptFacts DEF amo_dirty_hit
    <3>2. state' = IF ~mem_ready(rv) THEN "BypassReq"
                   ELSE IF lsu_op.kind = "store" THEN "Idle" ELSE "BypassWait"
      BY <3>1 DEF AcceptBypass
    <3>3. WaitingStore(a)' <=> ~mem_ready(rv) /\ lsu_op.kind = "store"
      BY <2>3, <2>5, <3>2 DEF WaitingStore
    <3>4. CASE ~mem_ready(rv) /\ lsu_op.kind = "store"
      <4>1. backing' = backing /\ arch' = Wrote(arch, lsu_op)
        BY <1>0, <1>7, <3>4, BypassNowStep
      <4>2. arch'[a] = merge_word(arch[a], lsu_op.wdata, lsu_op.mask)
        BY <1>0, <1>1, <2>5, <4>1, WroteAt
      <4> QED BY <2>1, <2>3, <3>3, <3>4, <4>1, <4>2
    <3>5. CASE ~(~mem_ready(rv) /\ lsu_op.kind = "store")
      <4>1. \/ backing' = backing /\ arch' = arch
            \/ backing' = Wrote(backing, lsu_op) /\ arch' = Wrote(arch, lsu_op)
        BY <1>0, <1>7, <3>1, <3>5, BypassNowStep
      <4> QED BY <1>0, <1>1, <2>1, <2>5, <3>3, <3>5, <4>1, WroteAt
    <3> QED BY <3>4, <3>5
  <2> QED BY <2>4, <2>5
<1> QED BY <1>0, <1>3, <1>4, <1>5, <1>6, <1>7 DEF FsmState

\* Outside Idle no request is accepted: who waits for an answer was waiting.
LEMMA StillWaiting ==
  ASSUME NEW rv, NEW flush, NEW wr, Clock(rv, flush, wr), state # "Idle",
         lsu_state' = "AccessWaitValid"
  PROVE  lsu_state = "AccessWaitValid" /\ lsu_op' = lsu_op /\ rsp = NoRsp /\ ~flush
<1>1. ~cpu_ready(rv)
  BY DEF cpu_ready
<1>2. lsu_state = "AccessWaitValid" /\ lsu_op' = lsu_op /\ rsp = NoRsp
  BY <1>1, LsuFacts
<1> QED BY <1>2 DEF Clock

\* The port keeps its answer, drops it, or takes the request of this cycle.
LEMMA PortStep ==
  ASSUME NEW rv, NEW flush, NEW wr, Clock(rv, flush, wr), ~mem_fire(rv), port' # NoRsp
  PROVE  port' = port /\ port # NoRsp
BY DEF Clock, MemPort

\* A fill collects current words, in every state it can be entered from or
\* interrupted in.
LEMMA FillStep ==
  ASSUME IInv, NEW rv \in BOOLEAN, NEW flush \in BOOLEAN, NEW wr \in BOOLEAN,
         Clock(rv, flush, wr)
  PROVE  FillCurrent'
<1>0. /\ TypeOK /\ FillCurrent /\ WritebackCurrent /\ NothingLost /\ BusyIsDrained
      /\ DirtyIsWriteBack
      /\ state \in FsmState
      /\ valid \in [Lines -> BOOLEAN] /\ dirty \in [Lines -> BOOLEAN]
      /\ fill.index \in Lines /\ fill.next \in Words /\ fill.rsp_word \in Words
      /\ fill.tag \in Tags /\ fill.count \in Words
      /\ fill.words \in [Words -> Word] /\ wb.index \in Lines
  BY DEF IInv, TypeInv, TypeOK
<1> SUFFICES ASSUME state' \in {"LoadFillReq", "LoadFillWait"}
             PROVE  /\ ~flush_active'
                    /\ ~(valid'[fill'.index] /\ dirty'[fill'.index])
                    /\ fill'.next = Fetched(fill.count)'
                    /\ \A d \in Words : d < fill'.count =>
                         fill'.words[Fetched(d)'] =
                           arch'[<<fill'.tag, fill'.index, Fetched(d)'>>]
                    /\ state' = "LoadFillWait" /\ port' # NoRsp => port' = arch'[FillAddr']
                    /\ lsu_state' = "AccessWaitValid" =>
                         lsu_op'.addr = <<fill'.tag, fill'.index, fill'.rsp_word>>
  BY DEF FillCurrent
<1>1. CASE state \in {"LoadFillReq", "LoadFillWait"}
  <2>1. /\ ~flush_active /\ ~(valid[fill.index] /\ dirty[fill.index])
        /\ fill.next = Fetched(fill.count)
        /\ \A d \in Words : d < fill.count =>
             fill.words[Fetched(d)] = arch[<<fill.tag, fill.index, Fetched(d)>>]
        /\ state = "LoadFillWait" /\ port # NoRsp => port = arch[FillAddr]
        /\ lsu_state = "AccessWaitValid" =>
             lsu_op.addr = <<fill.tag, fill.index, fill.rsp_word>>
    BY <1>0, <1>1 DEF FillCurrent
  <2>2. arch' = arch
    BY <1>0, <1>1, QuietStep
  <2>3. lsu_state' = "AccessWaitValid" =>
          lsu_op'.addr = <<fill.tag, fill.index, fill.rsp_word>>
    BY <1>1, <2>1, StillWaiting
  <2>4. ~flush_active' /\ ~(valid'[fill.index] /\ dirty'[fill.index])
    <3>1. CASE flush
      BY <1>0, <1>1, <2>1, <3>1, Dispatch DEF Invalidate
    <3>2. CASE ~flush /\ state = "LoadFillReq"
      BY <2>1, <3>2, Dispatch DEF LoadFillReq
    <3>3. CASE ~flush /\ state = "LoadFillWait"
      BY <2>1, <3>3, Dispatch DEF LoadFillWait
    <3> QED BY <1>1, <3>1, <3>2, <3>3
  <2>5. CASE UNCHANGED <<fill.tag, fill.index, fill.next, fill.rsp_word, fill.count, fill.words>>
    <3>1. FillAddr' = FillAddr /\ \A d : Fetched(d)' = Fetched(d)
      BY <2>5 DEF FillAddr, Fetched
    <3>2. ASSUME state' = "LoadFillWait", port' # NoRsp PROVE port' = arch[FillAddr]
      <4>1. CASE state = "LoadFillWait"
        <5>1. ~mem_fire(rv)
          BY <4>1, FireSignals
        <5> QED BY <2>1, <3>2, <4>1, <5>1, PortStep
      <4>2. CASE state = "LoadFillReq"
        <5>1. mem_ready(rv)
          BY <3>2, <4>2, Dispatch DEF Invalidate, LoadFillReq
        <5>2. mem_fire(rv) /\ mem_req = Load(FillAddr)
          BY <4>2, <5>1, FireSignals DEF mem_fire, mem_valid
        <5>3. port' = backing[FillAddr]
          BY <5>2 DEF Clock, MemPort, Load
        <5>4. FillAddr \in RamWord /\ ~InDirtyLine(FillAddr)
          BY <1>0, <2>1 DEF FillAddr, RamWord, InDirtyLine, TagHit
        <5>5. sb_count = 0
          BY <1>0, <4>2 DEF BusyIsDrained
        <5> QED BY <1>0, <5>3, <5>4, <5>5, BelowIsCurrent
      <4> QED BY <1>1, <4>1, <4>2
    <3> QED BY <2>1, <2>2, <2>3, <2>4, <2>5, <3>1, <3>2
  <2>6. CASE ~UNCHANGED <<fill.tag, fill.index, fill.next, fill.rsp_word, fill.count, fill.words>>
    <3>1. LoadFillWait(rv) /\ state = "LoadFillWait"
      <4>1. CASE flush
        <5>1. fill' = [fill EXCEPT !.allocate = FALSE]
          BY <4>1, Dispatch DEF Invalidate
        <5> QED BY <1>0, <2>6, <5>1 DEF TypeOK
      <4>2. CASE ~flush
        BY <1>1, <2>6, <4>2, Dispatch DEF LoadFillReq
      <4> QED BY <4>1, <4>2
    <3>2. /\ rv /\ state' = "LoadFillReq" /\ fill.count # WordsPerLine - 1
          /\ fill' = [fill EXCEPT !.words = [fill.words EXCEPT ![fill.next] = port],
                                  !.count = fill.count + 1,
                                  !.next = WrapWord(fill.next + 1)]
      BY <2>6, <3>1 DEF LoadFillWait
    <3>3. /\ fill'.tag = fill.tag /\ fill'.index = fill.index
          /\ fill'.rsp_word = fill.rsp_word
          /\ fill'.words = [fill.words EXCEPT ![fill.next] = port]
          /\ fill'.count = fill.count + 1 /\ fill'.next = WrapWord(fill.next + 1)
      BY <1>0, <3>2 DEF TypeOK
    <3>4. \A d : Fetched(d)' = Fetched(d)
      BY <3>3 DEF Fetched
    <3>5. port = arch[FillAddr]
      BY <2>1, <3>1, <3>2 DEF Clock
    <3>6. fill'.next = Fetched(fill.count + 1)
      BY <1>0, <2>1, <3>2, <3>3, GeometryAssumption DEF Fetched, WrapWord, Words
    <3>7. ASSUME NEW d \in Words, d < fill.count + 1
          PROVE  fill'.words[Fetched(d)] = arch[<<fill.tag, fill.index, Fetched(d)>>]
      <4>1. CASE d = fill.count
        BY <1>0, <2>1, <3>3, <3>5, <4>1 DEF FillAddr
      <4>2. CASE d # fill.count
        <5>1. d < fill.count
          BY <1>0, <3>7, <4>2 DEF Words
        <5>2. Fetched(d) # fill.next /\ Fetched(d) \in Words
          BY <1>0, <2>1, <5>1, GeometryAssumption DEF Fetched, WrapWord, Words
        <5> QED BY <1>0, <2>1, <3>3, <5>1, <5>2
      <4> QED BY <4>1, <4>2
    <3> QED BY <2>2, <2>3, <2>4, <3>2, <3>3, <3>4, <3>6, <3>7
  <2> QED BY <2>5, <2>6
<1>2. CASE state = "Idle"
  <2>1. ~flush
    <3> SUFFICES ASSUME flush PROVE FALSE
      OBVIOUS
    <3> QED BY <1>2, Dispatch DEF Invalidate
  <2>2. AcceptLoadMiss(rv) /\ ~dirty_victim_hit /\ state' = "LoadFillReq"
    <3>1. IdleStep(rv)
      BY <1>2, <2>1, Dispatch
    <3> QED BY <1>2, <3>1 DEF IdleStep, IdleWait, AcceptLoadHit, AcceptLoadMiss, AcceptStore,
               AcceptAmoDirty, AcceptBypass
  <2>3. /\ cpu_valid /\ cpu_ready(rv) /\ lsu_op.kind = "load" /\ cpu_cacheable
        /\ ~flush_active
    BY <2>2, AcceptFacts, AcceptSignals
  <2>4. lsu_op' = lsu_op /\ lsu_op.addr = <<lsu_op.addr[1], lsu_op.addr[2], lsu_op.addr[3]>>
        /\ lsu_op.addr[2] \in Lines /\ lsu_op.addr[3] \in Words
    BY <1>0, <2>3, LsuFacts, OpType DEF TypeOK, cpu_cacheable
  <2>5. /\ fill'.tag = lsu_op.addr[1] /\ fill'.index = lsu_op.addr[2]
        /\ fill'.next = lsu_op.addr[3] /\ fill'.rsp_word = lsu_op.addr[3] /\ fill'.count = 0
        /\ valid' = valid /\ dirty' = dirty /\ flush_active' = flush_active
    BY <1>0, <2>2 DEF AcceptLoadMiss, TypeOK
  <2>6. ~(valid[lsu_op.addr[2]] /\ dirty[lsu_op.addr[2]])
    BY <1>0, <2>2, <2>4 DEF dirty_victim_hit, DirtyIsWriteBack
  <2>7. fill'.next = Fetched(fill.count)'
    BY <2>4, <2>5, GeometryAssumption DEF Fetched, WrapWord, Words
  <2> QED BY <2>2, <2>3, <2>4, <2>5, <2>6, <2>7 DEF Words
<1>3. CASE state = "WritebackReq"
  <2>1. ~flush
    BY <1>3, Dispatch DEF Invalidate
  <2>2. WritebackReq(rv)
    BY <1>3, <2>1, Dispatch
  <2>3. /\ wb.resume = "fill" /\ state' = "LoadFillReq" /\ fill' = fill
        /\ dirty' = [dirty EXCEPT ![wb.index] = FALSE]
        /\ flush_active' = (flush_active /\ ~(wb.resume = "flush" /\ wb.index = LineCount - 1))
    BY <1>0, <1>3, <2>2 DEF WritebackReq, TypeOK
  <2>4. /\ fill.index = wb.index /\ fill.count = 0 /\ fill.next = fill.rsp_word
        /\ lsu_op.addr = <<fill.tag, fill.index, fill.rsp_word>> /\ ~flush_active
    BY <1>0, <1>3, <2>3 DEF WritebackCurrent
  <2>5. fill'.next = Fetched(fill.count)'
    BY <1>0, <2>3, <2>4, GeometryAssumption DEF Fetched, WrapWord, Words
  <2>6. lsu_state' = "AccessWaitValid" => lsu_op' = lsu_op
    BY <1>3, StillWaiting
  <2>7. ~dirty'[fill'.index]
    BY <1>0, <2>3, <2>4
  <2>8. \A d \in Words : ~(d < fill'.count)
    BY <2>3, <2>4 DEF Words
  <2>9. ~flush_active'
    BY <2>3, <2>4
  <2> QED BY <2>3, <2>4, <2>5, <2>6, <2>7, <2>8, <2>9
<1>4. CASE state \in {"FlushScan", "BypassReq", "BypassWait", "Response"}
  <2>1. CASE flush
    BY <1>4, <2>1, Dispatch DEF Invalidate
  <2>2. CASE ~flush
    <3>1. FlushScan \/ BypassReq(rv) \/ BypassWait(rv) \/ Response
      BY <1>4, <2>2, Dispatch
    <3> QED BY <1>4, <3>1 DEF FlushScan, BypassReq, BypassWait, Response
  <2> QED BY <2>1, <2>2
<1> QED BY <1>0, <1>1, <1>2, <1>3, <1>4 DEF FsmState

\* A writeback starts on a dirty line and pushes its words down in order.
LEMMA WritebackCurrentStep ==
  ASSUME IInv, NEW rv \in BOOLEAN, NEW flush \in BOOLEAN, NEW wr \in BOOLEAN,
         Clock(rv, flush, wr)
  PROVE  WritebackCurrent'
<1>0. /\ TypeOK /\ WritebackCurrent /\ CachedIsCurrent /\ FlushShape
      /\ state \in FsmState /\ lsu_op \in CpuOps
      /\ valid \in [Lines -> BOOLEAN] /\ dirty \in [Lines -> BOOLEAN]
      /\ wb.index \in Lines /\ wb.word \in Words /\ wb.tag \in Tags
      /\ wb.resume \in {"fill", "bypass", "flush"}
  BY DEF IInv, TypeInv, TypeOK
<1> SUFFICES ASSUME state' = "WritebackReq"
             PROVE
    /\ valid'[wb'.index] /\ dirty'[wb'.index] /\ tags'[wb'.index] = wb'.tag
    /\ \A w \in Words : w < wb'.word =>
         backing'[<<wb'.tag, wb'.index, w>>] = arch'[<<wb'.tag, wb'.index, w>>]
    /\ rsp' = NoRsp
    /\ wb'.resume = "flush" => flush_active' /\ wb'.index = flush_index'
    /\ wb'.resume # "flush" => ~flush_active' /\ lsu_state' = "AccessWaitValid"
    /\ wb'.resume = "fill" =>
         /\ fill'.index = wb'.index /\ fill'.count = 0 /\ fill'.next = fill'.rsp_word
         /\ lsu_op'.addr = <<fill'.tag, fill'.index, fill'.rsp_word>>
    /\ wb'.resume = "bypass" =>
         /\ saved' = lsu_op' /\ saved'.kind = "amo"
         /\ is_ram(saved'.addr) /\ saved'.addr[2] = wb'.index
  BY DEF WritebackCurrent
<1>1. ~flush
  <2> SUFFICES ASSUME flush PROVE FALSE
    OBVIOUS
  <2>1. state = "WritebackReq"
    BY Dispatch DEF Invalidate
  <2>2. lsu_state = "Init" /\ ~(WriteBack /\ flush_active)
    BY FlushIsQuiet DEF flush_busy
  <2> QED BY <1>0, <2>1, <2>2 DEF WritebackCurrent, FlushShape
<1>2. CASE state = "Idle"
  <2>1. AcceptLoadMiss(rv) \/ AcceptAmoDirty(rv)
    <3>1. IdleStep(rv)
      BY <1>1, <1>2, Dispatch
    <3> QED BY <1>2, <3>1 DEF IdleStep, IdleWait, AcceptLoadHit, AcceptStore, AcceptBypass
  <2>2. /\ cpu_valid /\ cpu_ready(rv) /\ lsu_op.kind # "store" /\ is_ram(lsu_op.addr)
        /\ ~flush_active
    BY <2>1, AcceptFacts, AcceptSignals DEF cpu_cacheable, amo_dirty_hit
  <2>3. lsu_state' = "AccessWaitValid" /\ lsu_op' = lsu_op
        /\ lsu_op.addr = <<lsu_op.addr[1], lsu_op.addr[2], lsu_op.addr[3]>>
    BY <1>0, <2>2, LsuFacts, OpType
  <2>4. valid' = valid /\ dirty' = dirty /\ tags' = tags /\ flush_active' = flush_active
        /\ rsp' = NoRsp
    BY <2>1 DEF AcceptLoadMiss, AcceptAmoDirty
  <2>5. CASE AcceptLoadMiss(rv)
    <3>1. dirty_victim_hit
      BY <2>5 DEF AcceptLoadMiss
    <3>2. wb' = [tag |-> tags[lsu_op.addr[2]], index |-> lsu_op.addr[2], word |-> 0,
                 resume |-> "fill"]
      BY <2>5, <3>1 DEF AcceptLoadMiss
    <3>3. /\ fill'.tag = lsu_op.addr[1] /\ fill'.index = lsu_op.addr[2]
          /\ fill'.next = lsu_op.addr[3] /\ fill'.rsp_word = lsu_op.addr[3] /\ fill'.count = 0
      BY <1>0, <2>5 DEF AcceptLoadMiss, TypeOK
    <3>4. \A w \in Words : ~(w < wb'.word)
      BY <3>2 DEF Words
    <3> QED BY <2>2, <2>3, <2>4, <3>1, <3>2, <3>3, <3>4 DEF dirty_victim_hit
  <2>6. CASE AcceptAmoDirty(rv)
    <3>1. wb' = [tag |-> tags[lsu_op.addr[2]], index |-> lsu_op.addr[2], word |-> 0,
                 resume |-> "bypass"]
      BY <2>6 DEF AcceptAmoDirty
    <3>2. saved' = lsu_op /\ amo_dirty_hit
      BY <2>6 DEF AcceptAmoDirty
    <3>3. \A w \in Words : ~(w < wb'.word)
      BY <3>1 DEF Words
    <3> QED BY <2>2, <2>3, <2>4, <3>1, <3>2, <3>3 DEF amo_dirty_hit, TagHit
  <2> QED BY <2>1, <2>5, <2>6
<1>3. CASE state = "WritebackReq"
  <2>1. WritebackReq(rv) /\ rsp' = NoRsp /\ tags' = tags /\ data' = data /\ saved' = saved
        /\ fill' = fill
    BY <1>1, <1>3, Dispatch DEF WritebackReq
  <2>2. ~(mem_ready(rv) /\ wb.word = WordsPerLine - 1)
    BY <1>0, <2>1 DEF WritebackReq
  <2>3. /\ UNCHANGED <<valid, dirty, flush_active, flush_index>>
        /\ wb' = IF mem_ready(rv) THEN [wb EXCEPT !.word = wb.word + 1] ELSE wb
    BY <2>1, <2>2 DEF WritebackReq
  <2>4. wb'.tag = wb.tag /\ wb'.index = wb.index /\ wb'.resume = wb.resume
        /\ wb'.word = IF mem_ready(rv) THEN wb.word + 1 ELSE wb.word
    BY <1>0, <2>3 DEF TypeOK
  <2>5. /\ valid[wb.index] /\ dirty[wb.index] /\ tags[wb.index] = wb.tag
        /\ \A w \in Words : w < wb.word =>
             backing[<<wb.tag, wb.index, w>>] = arch[<<wb.tag, wb.index, w>>]
        /\ rsp = NoRsp
    BY <1>0, <1>3 DEF WritebackCurrent
  <2>6. /\ arch' = arch
        /\ backing' = IF mem_ready(rv)
                        THEN [backing EXCEPT ![WritebackAddr] = data[wb.index][wb.word]]
                        ELSE backing
    BY <1>0, <1>3, WritebackStep
  <2>7. data[wb.index][wb.word] = arch[WritebackAddr]
    BY <1>0, <2>5 DEF CachedIsCurrent, WritebackAddr
  <2>8. ASSUME NEW w \in Words, w < wb'.word
        PROVE  backing'[<<wb.tag, wb.index, w>>] = arch[<<wb.tag, wb.index, w>>]
    <3>1. <<wb.tag, wb.index, w>> \in Addr /\ backing \in [Addr -> Word]
      BY <1>0 DEF Addr, RamWord, TypeOK
    <3>2. CASE w = wb.word /\ mem_ready(rv)
      BY <2>6, <2>7, <3>1, <3>2 DEF WritebackAddr
    <3>3. CASE ~(w = wb.word /\ mem_ready(rv))
      <4>1. w < wb.word
        BY <1>0, <2>4, <2>8, <3>3 DEF Words
      <4>2. WritebackAddr # <<wb.tag, wb.index, w>>
        BY <1>0, <4>1 DEF WritebackAddr, Words
      <4> QED BY <2>5, <2>6, <3>1, <4>1, <4>2
    <3> QED BY <3>2, <3>3
  <2>9. lsu_state = "AccessWaitValid" => lsu_state' = lsu_state /\ lsu_op' = lsu_op
    BY <2>5, LsuFacts
  <2>10. /\ wb.resume = "flush" => flush_active /\ wb.index = flush_index
         /\ wb.resume # "flush" => ~flush_active /\ lsu_state = "AccessWaitValid"
         /\ wb.resume = "fill" =>
              /\ fill.index = wb.index /\ fill.count = 0 /\ fill.next = fill.rsp_word
              /\ lsu_op.addr = <<fill.tag, fill.index, fill.rsp_word>>
         /\ wb.resume = "bypass" =>
              /\ saved = lsu_op /\ saved.kind = "amo"
              /\ is_ram(saved.addr) /\ saved.addr[2] = wb.index
    BY <1>0, <1>3 DEF WritebackCurrent
  <2> QED BY <2>1, <2>3, <2>4, <2>5, <2>6, <2>8, <2>9, <2>10
<1>4. CASE state = "FlushScan"
  <2>1. FlushScan /\ rsp' = NoRsp /\ tags' = tags /\ flush_active
    BY <1>0, <1>1, <1>4, Dispatch DEF FlushScan, FlushShape
  <2>2. /\ valid[flush_index] /\ dirty[flush_index]
        /\ wb' = [tag |-> tags[flush_index], index |-> flush_index, word |-> 0,
                  resume |-> "flush"]
        /\ UNCHANGED <<valid, dirty, flush_active, flush_index>>
    BY <1>4, <2>1 DEF FlushScan
  <2>3. \A w \in Words : ~(w < wb'.word)
    BY <2>2 DEF Words
  <2> QED BY <2>1, <2>2, <2>3
<1>5. CASE state \in {"LoadFillReq", "LoadFillWait", "BypassReq", "BypassWait", "Response"}
  <2>1. LoadFillReq(rv) \/ LoadFillWait(rv) \/ BypassReq(rv) \/ BypassWait(rv) \/ Response
    BY <1>1, <1>5, Dispatch
  <2> QED BY <1>5, <2>1 DEF LoadFillReq, LoadFillWait, BypassReq, BypassWait, Response
<1> QED BY <1>0, <1>2, <1>3, <1>4, <1>5 DEF FsmState

\* The bypass path serves the access the load/store unit waits for.
LEMMA BypassCurrentStep ==
  ASSUME IInv, NEW rv \in BOOLEAN, NEW flush \in BOOLEAN, NEW wr \in BOOLEAN,
         Clock(rv, flush, wr)
  PROVE  BypassCurrent'
<1>0. /\ TypeOK /\ BypassCurrent /\ WritebackCurrent /\ UncachedCurrent
      /\ state \in FsmState /\ lsu_op \in CpuOps /\ saved \in CpuOps
      /\ valid \in [Lines -> BOOLEAN] /\ wb.index \in Lines
  BY DEF IInv, TypeInv, TypeOK
<1> SUFFICES ASSUME state' \in {"BypassReq", "BypassWait"}
             PROVE  /\ is_ram(saved'.addr) => saved'.kind = "amo" /\ ~TagHit(saved.addr)'
                    /\ lsu_state' = "AccessWaitValid" => saved' = lsu_op'
                    /\ state' = "BypassWait" /\ saved'.kind = "load" /\ port' # NoRsp =>
                         port' = arch'[saved'.addr]
  BY DEF BypassCurrent, is_ram
<1>1. CASE state = "BypassReq" \/ state = "BypassWait"
  <2>1. /\ is_ram(saved.addr) => saved.kind = "amo" /\ ~TagHit(saved.addr)
        /\ lsu_state = "AccessWaitValid" => saved = lsu_op
        /\ state = "BypassWait" /\ saved.kind = "load" /\ port # NoRsp =>
             port = arch[saved.addr]
    BY <1>0, <1>1 DEF BypassCurrent
  <2>2. saved' = saved
    BY <1>1, Dispatch DEF Invalidate, BypassReq, BypassWait
  <2>3. is_ram(saved.addr) => ~TagHit(saved.addr)'
    <3>1. LinesKept
      <4>1. ~AcceptStore(rv)
        BY <1>1, AcceptFacts, AcceptSignals
      <4> QED BY <1>0, <1>1, <4>1, KeepsLines
    <3> QED BY <1>0, <2>1, <2>2, <3>1, OpType DEF LinesKept, TagHit
  <2>4. lsu_state' = "AccessWaitValid" => saved' = lsu_op'
    BY <1>1, <2>1, <2>2, StillWaiting
  <2>5. ASSUME state' = "BypassWait", saved.kind = "load", port' # NoRsp
        PROVE  port' = arch'[saved.addr]
    <3>1. CASE state = "BypassWait"
      <4>1. arch' = arch
        BY <1>0, <3>1, QuietStep
      <4>2. ~mem_fire(rv)
        BY <3>1, FireSignals
      <4> QED BY <2>1, <2>5, <3>1, <4>1, <4>2, PortStep
    <3>2. CASE state = "BypassReq"
      <4>1. mem_ready(rv)
        BY <2>5, <3>2, Dispatch DEF Invalidate, BypassReq
      <4>2. port' = backing[saved.addr] /\ arch' = arch
        BY <1>0, <2>5, <3>2, <4>1, BypassReqStep
      <4>3. saved.addr \in Uncached
        BY <1>0, <2>1, <2>5, OpType
      <4>4. ~WaitingStore(saved.addr)
        BY <2>5 DEF WaitingStore
      <4> QED BY <1>0, <4>2, <4>3, <4>4 DEF UncachedCurrent
    <3> QED BY <1>1, <3>1, <3>2
  <2> QED BY <2>1, <2>2, <2>3, <2>4, <2>5
<1>2. CASE state = "Idle"
  <2>1. ~flush
    <3> SUFFICES ASSUME flush PROVE FALSE
      OBVIOUS
    <3> QED BY <1>2, Dispatch DEF Invalidate
  <2>2. AcceptBypass(rv)
    <3>1. IdleStep(rv)
      BY <1>2, <2>1, Dispatch
    <3> QED BY <1>2, <3>1 DEF IdleStep, IdleWait, AcceptLoadHit, AcceptLoadMiss, AcceptStore,
               AcceptAmoDirty
  <2>3. BypassNow(rv) /\ ~cpu_cacheable /\ cpu_valid /\ cpu_ready(rv)
        /\ ~amo_dirty_hit
    BY <2>2, AcceptFacts
  <2>4. /\ saved' = lsu_op /\ tags' = tags
        /\ lsu_op.kind = "amo" /\ is_ram(lsu_op.addr) /\ TagHit(lsu_op.addr) =>
             valid' = [valid EXCEPT ![lsu_op.addr[2]] = FALSE]
        /\ ~(lsu_op.kind = "amo" /\ is_ram(lsu_op.addr) /\ TagHit(lsu_op.addr)) =>
             valid' = valid
        /\ state' = "BypassWait" => mem_ready(rv)
    BY <2>2 DEF AcceptBypass
  <2>5. is_ram(lsu_op.addr) => lsu_op.kind = "amo" /\ ~TagHit(saved.addr)'
    <3> HAVE is_ram(lsu_op.addr)
    <3>1. lsu_op.kind = "amo"
      BY <2>3 DEF cpu_cacheable
    <3>2. lsu_op.addr[2] \in Lines
      BY <1>0, OpType
    <3>3. ~(valid'[lsu_op.addr[2]] /\ tags'[lsu_op.addr[2]] = lsu_op.addr[1])
      BY <1>0, <2>4, <3>1, <3>2 DEF TagHit
    <3> QED BY <2>4, <3>1, <3>3 DEF TagHit
  <2>6. lsu_state' = "AccessWaitValid" => lsu_op' = lsu_op
    BY LsuFacts
  <2>7. ASSUME state' = "BypassWait", lsu_op.kind = "load" PROVE port' = arch'[lsu_op.addr]
    <3>1. mem_ready(rv)
      BY <2>4, <2>7
    <3>2. port' = backing[lsu_op.addr] /\ arch' = arch
      BY <1>0, <2>3, <2>7, <3>1, BypassNowStep
    <3>3. lsu_op.addr \in Uncached
      BY <1>0, <2>5, <2>7, OpType
    <3>4. ~WaitingStore(lsu_op.addr)
      BY <1>2 DEF WaitingStore
    <3> QED BY <1>0, <3>2, <3>3, <3>4 DEF UncachedCurrent
  <2> QED BY <2>4, <2>5, <2>6, <2>7
<1>3. CASE state = "WritebackReq"
  <2>1. ~flush
    BY <1>3, Dispatch DEF Invalidate
  <2>2. WritebackReq(rv) /\ saved' = saved /\ tags' = tags
    BY <1>3, <2>1, Dispatch DEF WritebackReq
  <2>3. /\ wb.resume = "bypass" /\ state' = "BypassReq"
        /\ valid' = [valid EXCEPT ![wb.index] = FALSE]
    BY <1>0, <1>3, <2>2 DEF WritebackReq, TypeOK
  <2>4. saved = lsu_op /\ saved.kind = "amo" /\ is_ram(saved.addr) /\ saved.addr[2] = wb.index
    BY <1>0, <1>3, <2>3 DEF WritebackCurrent
  <2>5. ~TagHit(saved.addr)'
    BY <1>0, <2>2, <2>3, <2>4 DEF TagHit
  <2>6. lsu_state' = "AccessWaitValid" => lsu_op' = lsu_op
    BY <1>3, StillWaiting
  <2> QED BY <2>2, <2>3, <2>4, <2>5, <2>6
<1>4. CASE state \in {"LoadFillReq", "LoadFillWait", "FlushScan", "Response"}
  <2>1. CASE flush
    BY <1>4, <2>1, Dispatch DEF Invalidate
  <2>2. CASE ~flush
    <3>1. LoadFillReq(rv) \/ LoadFillWait(rv) \/ FlushScan \/ Response
      BY <1>4, <2>2, Dispatch
    <3> QED BY <1>4, <3>1 DEF LoadFillReq, LoadFillWait, FlushScan, Response
  <2> QED BY <2>1, <2>2
<1> QED BY <1>0, <1>1, <1>2, <1>3, <1>4 DEF FsmState

\* A flush passes the lines in order and leaves none of them valid behind it.
LEMMA FlushShapeStep ==
  ASSUME IInv, NEW rv \in BOOLEAN, NEW flush \in BOOLEAN, NEW wr \in BOOLEAN,
         Clock(rv, flush, wr)
  PROVE  FlushShape'
<1>0. /\ TypeOK /\ FlushShape /\ FillCurrent /\ WritebackCurrent
      /\ state \in FsmState /\ valid \in [Lines -> BOOLEAN]
      /\ flush_active \in BOOLEAN /\ flush_index \in Lines /\ wb.index \in Lines
      /\ wb.resume \in {"fill", "bypass", "flush"}
  BY DEF IInv, TypeInv, TypeOK
<1>1. /\ flush_active => WriteBack /\ \A j \in Lines : j < flush_index => ~valid[j]
      /\ state = "FlushScan" => flush_active
  BY <1>0 DEF FlushShape
<1>2. CASE UNCHANGED <<flush_active, flush_index>>
           /\ (state' = "FlushScan" => flush_active)
           /\ (flush_active => \A j \in Lines : valid'[j] => valid[j])
  BY <1>1, <1>2 DEF FlushShape
<1>3. CASE flush
  <2>1. Invalidate(rv)
    BY <1>3, Dispatch
  <2>2. CASE WriteBack /\ flush_active' /\ flush_index' = 0
    <3>1. state' # "FlushScan" \/ flush_active'
      BY <2>2
    <3>2. \A j \in Lines : ~(j < flush_index')
      BY <2>2 DEF Lines
    <3> QED BY <2>2, <3>2 DEF FlushShape
  <2>3. CASE ~(WriteBack /\ flush_active' /\ flush_index' = 0)
    <3>1. UNCHANGED <<flush_active, flush_index, state>>
      BY <2>1, <2>3 DEF Invalidate
    <3>2. flush_active => valid' = valid
      BY <1>1, <2>1 DEF Invalidate
    <3> QED BY <1>1, <1>2, <3>1, <3>2
  <2> QED BY <2>2, <2>3
<1>4. CASE ~flush /\ state = "Idle"
  <2>1. IdleStep(rv)
    BY <1>4, Dispatch
  <2>2. CASE IdleWait(rv)
    BY <1>2, <1>4, <2>2 DEF IdleWait, StartsScan
  <2>3. CASE ~IdleWait(rv)
    <3>1. ~flush_active
      BY <2>1, <2>3, AcceptFacts, AcceptSignals DEF IdleStep
    <3>2. UNCHANGED <<flush_active, flush_index>> /\ state' # "FlushScan"
      BY <1>4, <2>1, <2>3 DEF IdleStep, AcceptLoadHit, AcceptLoadMiss, AcceptStore,
         AcceptAmoDirty, AcceptBypass
    <3> QED BY <1>2, <3>1, <3>2
  <2> QED BY <2>2, <2>3
<1>5. CASE ~flush /\ state = "LoadFillWait"
  <2>1. UNCHANGED <<flush_active, flush_index>> /\ state' # "FlushScan"
    BY <1>5, Dispatch DEF LoadFillWait
  <2>2. ~flush_active
    BY <1>0, <1>5 DEF FillCurrent
  <2> QED BY <1>2, <2>1, <2>2
<1>6. CASE ~flush /\ state \in {"LoadFillReq", "BypassReq", "BypassWait", "Response"}
  <2>1. LoadFillReq(rv) \/ BypassReq(rv) \/ BypassWait(rv) \/ Response
    BY <1>6, Dispatch
  <2>2. UNCHANGED <<flush_active, flush_index, valid>> /\ state' # "FlushScan"
    BY <2>1 DEF LoadFillReq, BypassReq, BypassWait, Response
  <2> QED BY <1>2, <2>2
<1>7. CASE ~flush /\ state = "WritebackReq"
  <2>1. WritebackReq(rv)
    BY <1>7, Dispatch
  <2>2. CASE ~(mem_ready(rv) /\ wb.word = WordsPerLine - 1)
    <3>1. UNCHANGED <<flush_active, flush_index, valid, state>>
      BY <2>1, <2>2 DEF WritebackReq
    <3> QED BY <1>2, <1>7, <3>1
  <2>3. CASE mem_ready(rv) /\ wb.word = WordsPerLine - 1
    <3>1. CASE wb.resume # "flush"
      <4>1. ~flush_active
        BY <1>0, <1>7, <3>1 DEF WritebackCurrent
      <4>2. UNCHANGED <<flush_active, flush_index>> /\ state' # "FlushScan"
        BY <1>0, <2>1, <2>3, <3>1, <4>1 DEF WritebackReq
      <4> QED BY <1>2, <4>1, <4>2
    <3>2. CASE wb.resume = "flush"
      <4>1. flush_active /\ wb.index = flush_index
        BY <1>0, <1>7, <3>2 DEF WritebackCurrent
      <4>2. CASE wb.index = LineCount - 1
        <5>1. ~flush_active' /\ state' = "Idle"
          BY <2>1, <2>3, <3>2, <4>2 DEF WritebackReq
        <5> QED BY <5>1 DEF FlushShape
      <4>3. CASE wb.index # LineCount - 1
        <5>1. /\ flush_active' /\ flush_index' = flush_index + 1
              /\ valid' = [valid EXCEPT ![flush_index] = FALSE]
          BY <2>1, <2>3, <3>2, <4>1, <4>3 DEF WritebackReq
        <5>2. ASSUME NEW j \in Lines, j < flush_index + 1 PROVE ~valid'[j]
          <6>1. j = flush_index \/ j < flush_index
            BY <1>0, <5>2 DEF Lines
          <6> QED BY <1>0, <1>1, <4>1, <5>1, <6>1
        <5> QED BY <1>1, <4>1, <5>1, <5>2 DEF FlushShape
      <4> QED BY <4>2, <4>3
    <3> QED BY <3>1, <3>2
  <2> QED BY <2>2, <2>3
<1>8. CASE ~flush /\ state = "FlushScan"
  <2>1. FlushScan /\ flush_active
    BY <1>1, <1>8, Dispatch
  <2>2. CASE valid[flush_index] /\ dirty[flush_index]
    <3>1. UNCHANGED <<flush_active, flush_index, valid>>
      BY <2>1, <2>2 DEF FlushScan
    <3> QED BY <1>2, <2>1, <3>1
  <2>3. CASE ~(valid[flush_index] /\ dirty[flush_index]) /\ flush_index = LineCount - 1
    <3>1. ~flush_active' /\ state' = "Idle"
      BY <2>1, <2>3 DEF FlushScan
    <3> QED BY <3>1 DEF FlushShape
  <2>4. CASE ~(valid[flush_index] /\ dirty[flush_index]) /\ flush_index # LineCount - 1
    <3>1. /\ flush_active' /\ flush_index' = flush_index + 1
          /\ valid' = [valid EXCEPT ![flush_index] = FALSE]
      BY <2>1, <2>4 DEF FlushScan
    <3>2. ASSUME NEW j \in Lines, j < flush_index + 1 PROVE ~valid'[j]
      <4>1. j = flush_index \/ j < flush_index
        BY <1>0, <3>2 DEF Lines
      <4> QED BY <1>0, <1>1, <2>1, <3>1, <4>1
    <3> QED BY <1>1, <2>1, <3>1, <3>2 DEF FlushShape
  <2> QED BY <2>2, <2>3, <2>4
<1> QED BY <1>0, <1>3, <1>4, <1>5, <1>6, <1>7, <1>8 DEF FsmState

\* Every answer comes from a current line, a current fill word or the port.
LEMMA LoadReturnsStep ==
  ASSUME IInv, NEW rv \in BOOLEAN, NEW flush \in BOOLEAN, NEW wr \in BOOLEAN,
         Clock(rv, flush, wr)
  PROVE  LoadReturnsCurrent'
<1>0. /\ TypeOK /\ CachedIsCurrent /\ FillCurrent /\ BypassCurrent
      /\ state \in FsmState /\ lsu_op \in CpuOps
      /\ (rv => port # NoRsp)
  BY DEF IInv, TypeInv, TypeOK, Clock
<1>1. ASSUME lsu_state' = "AccessWaitValid", lsu_op'.kind = "load", rsp' # NoRsp
      PROVE  rsp' = arch'[lsu_op'.addr]
  <2>1. ~flush
    BY <1>1, Dispatch DEF Invalidate
  <2>2. CASE state = "Idle"
    <3>1. AcceptLoadHit(rv)
      <4>1. IdleStep(rv)
        BY <2>1, <2>2, Dispatch
      <4> QED BY <1>1, <4>1 DEF IdleStep, IdleWait, AcceptLoadMiss, AcceptStore,
                 AcceptAmoDirty, AcceptBypass
    <3>2. arch' = arch /\ lsu_op' = lsu_op
      BY <1>0, <1>1, <2>2, <3>1, AcceptFacts, DrainingStep, LsuFacts
    <3>3. is_ram(lsu_op.addr) /\ TagHit(lsu_op.addr)
      BY <3>1, AcceptFacts DEF cache_hit, cpu_cacheable
    <3>4. data[lsu_op.addr[2]][lsu_op.addr[3]] = arch[lsu_op.addr]
      <4>1. /\ lsu_op.addr[2] \in Lines /\ lsu_op.addr[3] \in Words
            /\ lsu_op.addr = <<lsu_op.addr[1], lsu_op.addr[2], lsu_op.addr[3]>>
        BY <1>0, <3>3, OpType
      <4> PICK i \in Lines, w \in Words : i = lsu_op.addr[2] /\ w = lsu_op.addr[3]
        BY <4>1
      <4>2. valid[i] /\ lsu_op.addr = <<tags[i], i, w>>
        BY <3>3, <4>1 DEF TagHit
      <4>3. data[i][w] = arch[<<tags[i], i, w>>]
        BY <1>0, <4>2 DEF CachedIsCurrent
      <4> QED BY <4>2, <4>3
    <3>5. rsp' = data[lsu_op.addr[2]][lsu_op.addr[3]]
      BY <3>1 DEF AcceptLoadHit
    <3> QED BY <3>2, <3>4, <3>5
  <2>3. CASE state = "LoadFillWait"
    <3>1. rv /\ rsp' = port /\ fill.next = fill.rsp_word
      BY <1>1, <2>1, <2>3, Dispatch DEF LoadFillWait
    <3>2. lsu_state = "AccessWaitValid" /\ lsu_op' = lsu_op
      BY <1>1, <2>3, StillWaiting
    <3>3. port = arch[FillAddr] /\ lsu_op.addr = FillAddr
      BY <1>0, <2>3, <3>1, <3>2 DEF FillCurrent, FillAddr
    <3>4. arch' = arch
      BY <1>0, <2>3, QuietStep
    <3> QED BY <3>1, <3>2, <3>3, <3>4
  <2>4. CASE state = "BypassWait"
    <3>1. rv /\ rsp' = port
      BY <1>1, <2>1, <2>4, Dispatch DEF BypassWait
    <3>2. lsu_state = "AccessWaitValid" /\ lsu_op' = lsu_op
      BY <1>1, <2>4, StillWaiting
    <3>3. saved = lsu_op /\ port = arch[saved.addr]
      BY <1>0, <1>1, <2>4, <3>1, <3>2 DEF BypassCurrent
    <3>4. arch' = arch
      BY <1>0, <2>4, QuietStep
    <3> QED BY <3>1, <3>2, <3>3, <3>4
  <2>5. CASE state \in {"LoadFillReq", "WritebackReq", "FlushScan", "BypassReq", "Response"}
    <3>1. LoadFillReq(rv) \/ WritebackReq(rv) \/ FlushScan \/ BypassReq(rv) \/ Response
      BY <2>1, <2>5, Dispatch
    <3> QED BY <1>1, <3>1 DEF LoadFillReq, WritebackReq, FlushScan, BypassReq, Response
  <2> QED BY <1>0, <2>2, <2>3, <2>4, <2>5 DEF FsmState
<1>2. ASSUME fast_load_hit'
      PROVE  data'[lsu_op'.addr[2]][lsu_op'.addr[3]] = arch'[lsu_op'.addr]
  <2>1. /\ lsu_op'.addr \in RamWord
        /\ valid'[lsu_op'.addr[2]] /\ tags'[lsu_op'.addr[2]] = lsu_op'.addr[1]
    BY <1>2 DEF fast_load_hit, is_ram, TagHit
  <2>2. /\ lsu_op'.addr[2] \in Lines /\ lsu_op'.addr[3] \in Words
        /\ lsu_op'.addr = <<lsu_op'.addr[1], lsu_op'.addr[2], lsu_op'.addr[3]>>
    BY <2>1 DEF RamWord
  <2>3. CachedIsCurrent'
    BY CachedStep
  <2> QED BY <2>1, <2>2, <2>3 DEF CachedIsCurrent
<1> QED BY <1>1, <1>2 DEF LoadReturnsCurrent

-----------------------------------------------------------------------------
(***************************************************************************)
(* The inductive invariant and the theorems.                               *)
(***************************************************************************)

\* The cache comes out of reset empty, over a memory the program shares.
LEMMA IInvInit == Init => IInv
<1> SUFFICES ASSUME Init PROVE IInv
  OBVIOUS
<1>1. TypeInv
  BY TypeInit
<1>2. /\ state = "Idle" /\ valid = [i \in Lines |-> FALSE] /\ dirty = [i \in Lines |-> FALSE]
      /\ rsp = NoRsp /\ flush_active = FALSE
      /\ sb_head = 0 /\ sb_tail = 0 /\ sb_count = 0
      /\ lsu_state = "Init" /\ arch = backing
  BY DEF Init
<1>3. RingShape
  BY <1>2, GeometryAssumption DEF RingShape, Wrap
<1>4. BusyIsDrained /\ DirtyIsWriteBack /\ CachedIsCurrent /\ UncachedCurrent
  BY <1>2 DEF BusyIsDrained, DirtyIsWriteBack, CachedIsCurrent, UncachedCurrent, WaitingStore
<1>5. NothingLost
  BY <1>1, <1>2, HeldEmpty DEF NothingLost, TypeInv
<1>6. FillCurrent /\ WritebackCurrent /\ BypassCurrent /\ FlushShape
  BY <1>2 DEF FillCurrent, WritebackCurrent, BypassCurrent, FlushShape
<1>7. LoadReturnsCurrent
  BY <1>2 DEF LoadReturnsCurrent, fast_load_hit
<1> QED BY <1>1, <1>3, <1>4, <1>5, <1>6, <1>7 DEF IInv

\* IInv is inductive: every cycle of the cache, the buffer, the load/store
\* unit and the port preserves it.
LEMMA IInvStep == IInv /\ [Next]_vars => IInv'
<1> SUFFICES ASSUME IInv, [Next]_vars PROVE IInv'
  OBVIOUS
<1>1. CASE Next
  <2> PICK rv \in BOOLEAN, flush \in BOOLEAN, wr \in BOOLEAN : Clock(rv, flush, wr)
    BY <1>1 DEF Next
  <2>1. TypeInv'
    BY <1>1, TypeStep DEF IInv
  <2>2. RingShape'
    BY RingStep DEF IInv, TypeInv, Clock
  <2>3. BusyIsDrained' /\ DirtyIsWriteBack' /\ CachedIsCurrent' /\ NothingLost'
    BY BusyIsDrainedStep, DirtyIsWriteBackStep, CachedStep, NothingLostStep
  <2>4. UncachedCurrent' /\ FillCurrent' /\ WritebackCurrent' /\ BypassCurrent'
    BY UncachedStep, FillStep, WritebackCurrentStep, BypassCurrentStep
  <2>5. FlushShape' /\ LoadReturnsCurrent'
    BY FlushShapeStep, LoadReturnsStep
  <2> QED BY <2>1, <2>2, <2>3, <2>4, <2>5 DEF IInv
<1>2. CASE UNCHANGED vars
  <2>1. TypeInv'
    BY <1>2, TypeStep DEF IInv
  <2>2. /\ cacheVars' = cacheVars /\ bufferVars' = bufferVars /\ lsuVars' = lsuVars
        /\ memVars' = memVars /\ arch' = arch
    BY <1>2 DEF vars
  <2>3. RingShape' /\ BusyIsDrained' /\ DirtyIsWriteBack' /\ CachedIsCurrent'
    BY <2>2 DEF cacheVars, bufferVars, IInv, RingShape, BusyIsDrained, DirtyIsWriteBack,
       CachedIsCurrent
  <2>4. NothingLost' /\ UncachedCurrent'
    BY <2>2 DEF cacheVars, bufferVars, memVars, IInv, NothingLost, TagHit, Held, Youngest,
       Covers, SlotOf, UncachedCurrent, WaitingStore
  <2>5. FillCurrent' /\ WritebackCurrent'
    BY <2>2 DEF cacheVars, lsuVars, memVars, IInv, FillCurrent, Fetched, FillAddr,
       WritebackCurrent
  <2>6. BypassCurrent' /\ FlushShape'
    BY <2>2 DEF cacheVars, lsuVars, memVars, IInv, BypassCurrent, TagHit, FlushShape
  <2>7. LoadReturnsCurrent'
    BY <2>2 DEF cacheVars, bufferVars, lsuVars, IInv, LoadReturnsCurrent, fast_load_hit,
       TagHit, store_buffer_overlaps, SlotOf
  <2> QED BY <2>1, <2>3, <2>4, <2>5, <2>6, <2>7 DEF IInv
<1> QED BY <1>1, <1>2

\* The inductive invariant holds of every execution.
LEMMA Inductive == Spec => []IInv
BY IInvInit, IInvStep, PTL DEF Spec

\* The store buffer (store_buffer_head_q, _tail_q, _count_q) is a ring at
\* every depth: an accepted store never overwrites one not yet drained.
THEOREM RingCorrect == Spec => []RingShape
<1>1. IInv => RingShape
  BY DEF IInv
<1> QED BY <1>1, Inductive, PTL

\* A valid line of the cache array never disagrees with what the program
\* wrote, for every geometry, in both write policies, and however the core
\* invalidates.
THEOREM LinesCoherent == Spec => []CachedIsCurrent
<1>1. IInv => CachedIsCurrent
  BY DEF IInv
<1> QED BY <1>1, Inductive, PTL

\* No store the cache has accepted is ever lost on its way through the line,
\* the store buffer, an eviction, a flush or an atomic's writeback.
THEOREM StoresKept == Spec => []NothingLost
<1>1. IInv => NothingLost
  BY DEF IInv
<1> QED BY <1>1, Inductive, PTL

\* Every load answer of the cpu port (cpu.rdata, fast_load_rdata) is the
\* program's last value.
THEOREM LoadsCurrent == Spec => []LoadReturnsCurrent
<1>1. IInv => LoadReturnsCurrent
  BY DEF IInv
<1> QED BY <1>1, Inductive, PTL

\* Device accesses and atomics are handed to the memory port behind every
\* earlier store, and read a current word.
THEOREM BypassesOrdered == Spec => []BypassOrdered
<1>1. IInv => BypassOrdered
  <2> SUFFICES ASSUME IInv, NEW rv \in BOOLEAN, IssuesBypass(rv)
               PROVE  /\ sb_count = 0
                      /\ mem_req.kind # "store" => backing[mem_req.addr] = arch[mem_req.addr]
    BY DEF BypassOrdered
  <2>0. /\ TypeOK /\ NothingLost /\ BusyIsDrained /\ UncachedCurrent /\ BypassCurrent
        /\ DirtyIsWriteBack
        /\ lsu_op \in CpuOps /\ saved \in CpuOps
    BY DEF IInv, TypeInv, TypeOK
  <2>1. /\ mem_fire(rv) /\ AnsweredAtomic
        /\ state = "BypassReq" \/ (state = "Idle" /\ ~store_buffer_issue_valid)
    BY DEF IssuesBypass
  <2>2. CASE state = "BypassReq"
    <3>1. sb_count = 0 /\ mem_req = saved
      BY <2>0, <2>1, <2>2, FireSignals DEF BusyIsDrained
    <3>2. ASSUME saved.kind # "store" PROVE backing[saved.addr] = arch[saved.addr]
      <4>1. CASE is_ram(saved.addr)
        <5>1. saved.addr \in RamWord /\ ~InDirtyLine(saved.addr)
          BY <2>0, <2>2, <4>1 DEF BypassCurrent, InDirtyLine, is_ram
        <5> QED BY <2>0, <3>1, <5>1, BelowIsCurrent
      <4>2. CASE ~is_ram(saved.addr)
        <5>1. saved.addr \in Uncached /\ ~WaitingStore(saved.addr)
          BY <2>0, <3>2, <4>2, OpType DEF WaitingStore
        <5> QED BY <2>0, <5>1 DEF UncachedCurrent
      <4> QED BY <4>1, <4>2
    <3> QED BY <3>1, <3>2
  <2>3. CASE state = "Idle" /\ ~store_buffer_issue_valid
    <3>1. BypassNow(rv) /\ mem_req = lsu_op
      BY <2>1, <2>3, FireSignals DEF store_buffer_issue_fire
    <3>2. sb_count = 0 /\ ~cpu_cacheable
      BY <3>1, AcceptSignals DEF BypassNow
    <3>3. ASSUME lsu_op.kind # "store" PROVE backing[lsu_op.addr] = arch[lsu_op.addr]
      <4>1. CASE is_ram(lsu_op.addr)
        <5>1. lsu_op.kind = "amo" /\ ~amo_dirty_hit
          BY <2>1, <2>3, <3>2, <4>1 DEF cpu_cacheable, AnsweredAtomic
        <5>2. lsu_op.addr \in RamWord /\ lsu_op.addr[2] \in Lines
          BY <2>0, <4>1, OpType DEF is_ram
        <5>3. ~InDirtyLine(lsu_op.addr)
          BY <2>0, <4>1, <5>1, <5>2 DEF InDirtyLine, amo_dirty_hit, DirtyIsWriteBack
        <5> QED BY <2>0, <3>2, <5>2, <5>3, BelowIsCurrent
      <4>2. CASE ~is_ram(lsu_op.addr)
        <5>1. lsu_op.addr \in Uncached /\ ~WaitingStore(lsu_op.addr)
          BY <2>0, <2>3, <4>2, OpType DEF WaitingStore
        <5> QED BY <2>0, <5>1 DEF UncachedCurrent
      <4> QED BY <4>1, <4>2
    <3> QED BY <3>1, <3>2, <3>3
  <2> QED BY <2>1, <2>2, <2>3
<1> QED BY <1>1, Inductive, PTL

\* The cycle in which a flush ends drops the last line it has to pass.
LEMMA FlushEndsClean ==
  ASSUME IInv, NEW rv \in BOOLEAN, NEW flush \in BOOLEAN, NEW wr \in BOOLEAN,
         Clock(rv, flush, wr), flush_active, ~flush_active'
  PROVE  sb_count = 0 /\ BufferUnchanged /\ \A j \in Lines : ~valid'[j]
<1>0. /\ TypeOK /\ FlushShape /\ FillCurrent /\ WritebackCurrent /\ BusyIsDrained
      /\ state \in FsmState /\ valid \in [Lines -> BOOLEAN] /\ flush_index \in Lines
      /\ \A j \in Lines : j < flush_index => ~valid[j]
  BY DEF IInv, TypeInv, TypeOK, FlushShape
<1>1. ~flush
  BY Dispatch DEF Invalidate
<1>2. state # "Idle"
  <2> SUFFICES ASSUME state = "Idle" PROVE FALSE
    OBVIOUS
  <2>1. IdleStep(rv)
    BY <1>1, Dispatch
  <2> QED BY <2>1 DEF IdleStep, IdleWait, AcceptLoadHit, AcceptLoadMiss, AcceptStore,
             AcceptAmoDirty, AcceptBypass
<1>3. state \in {"WritebackReq", "FlushScan"}
  <2> SUFFICES ASSUME state \notin {"WritebackReq", "FlushScan"} PROVE FALSE
    OBVIOUS
  <2>1. LoadFillReq(rv) \/ LoadFillWait(rv) \/ BypassReq(rv) \/ BypassWait(rv) \/ Response
    BY <1>0, <1>1, <1>2, Dispatch DEF FsmState
  <2> QED BY <2>1 DEF LoadFillReq, LoadFillWait, BypassReq, BypassWait, Response
<1>4. sb_count = 0 /\ BufferUnchanged
  BY <1>0, <1>2, <1>3, NotIdle DEF BusyIsDrained
<1>5. flush_index = LineCount - 1 /\ valid' = [valid EXCEPT ![flush_index] = FALSE]
  <2>1. CASE state = "WritebackReq"
    <3>1. WritebackReq(rv)
      BY <1>1, <2>1, Dispatch
    <3>2. /\ wb.resume = "flush" /\ wb.index = LineCount - 1
          /\ valid' = [valid EXCEPT ![wb.index] = FALSE]
      BY <3>1 DEF WritebackReq
    <3>3. wb.index = flush_index
      BY <1>0, <2>1, <3>2 DEF WritebackCurrent
    <3> QED BY <3>2, <3>3
  <2>2. CASE state = "FlushScan"
    BY <1>1, <2>2, Dispatch DEF FlushScan
  <2> QED BY <1>3, <2>1, <2>2
<1>6. ASSUME NEW j \in Lines PROVE ~valid'[j]
  <2>1. j = flush_index \/ j < flush_index
    BY <1>5, GeometryAssumption DEF Lines
  <2> QED BY <1>0, <1>5, <2>1
<1> QED BY <1>4, <1>6

\* When a write-back flush ends (flush_active_q falls, flush_busy with it),
\* memory holds everything the program wrote.
THEOREM FlushesPublish == Spec => FlushPublishes
<1>1. IInv /\ IInv' /\ [Next]_vars =>
        [flush_active /\ ~flush_active' => \A a \in RamWord : backing'[a] = arch'[a]]_vars
  <2> SUFFICES ASSUME IInv, IInv', Next, flush_active, ~flush_active', NEW a \in RamWord
               PROVE  backing'[a] = arch'[a]
    OBVIOUS
  <2> PICK rv \in BOOLEAN, flush \in BOOLEAN, wr \in BOOLEAN : Clock(rv, flush, wr)
    BY DEF Next
  <2>1. sb_count = 0 /\ BufferUnchanged /\ \A j \in Lines : ~valid'[j]
    BY FlushEndsClean
  <2>2. TypeOK /\ TypeOK' /\ NothingLost'
    BY DEF IInv, TypeInv
  <2>3. ~TagHit(a)'
    BY <2>1 DEF TagHit, RamWord
  <2>4. \A b \in Bytes : Held(a, b)'
    BY <2>2, <2>3 DEF NothingLost
  <2>5. \A b \in Bytes : backing'[a][b] = arch'[a][b]
    BY <2>1, <2>2, <2>4, HeldEmptyNext
  <2>6. backing'[a] \in Word /\ arch'[a] \in Word
    BY <2>2 DEF TypeOK, Addr
  <2> QED BY <2>5, <2>6 DEF Word
<1> QED BY <1>1, Inductive, PTL DEF Spec, FlushPublishes

-----------------------------------------------------------------------------
(***************************************************************************)
(* Device accesses, when the core never invalidates.                       *)
(***************************************************************************)

\* What is owed is the device access that waits in BypassReq.
OwedExact == owed = IF state = "BypassReq" /\ ~is_ram(saved.addr) THEN 1 ELSE 0

\* Without an invalidate the FSM moves on as the port takes its request, so
\* each accepted device access is handed over once.
LEMMA OwedExactStep ==
  ASSUME ~FlushEnabled, IInv, OwedExact,
         NEW rv \in BOOLEAN, NEW flush \in BOOLEAN, NEW wr \in BOOLEAN, Clock(rv, flush, wr)
  PROVE  OwedExact'
<1>0. /\ TypeOK /\ WritebackCurrent /\ state \in FsmState /\ ~flush
      /\ wb.resume \in {"fill", "bypass", "flush"}
  BY DEF IInv, TypeInv, TypeOK, Clock
<1>1. owed' = IF AsksDevice(rv) <=> IssuesDevice(rv) THEN owed
              ELSE IF AsksDevice(rv) THEN owed + 1
              ELSE IF owed = -1 THEN -1 ELSE owed - 1
  BY DEF Clock, History
<1>2. state # "BypassReq" => owed = 0
  BY DEF OwedExact
<1>3. CASE state = "Idle" /\ ~BypassNow(rv)
  <2>1. ~AsksDevice(rv) /\ ~IssuesDevice(rv)
    <3>1. ~IssuesBypass(rv)
      BY <1>3, FireSignals DEF IssuesBypass, store_buffer_issue_fire
    <3> QED BY <1>3, <3>1 DEF AsksDevice, IssuesDevice
  <2>2. IdleStep(rv) /\ ~AcceptAmoDirty(rv) /\ ~AcceptBypass(rv)
    BY <1>0, <1>3, Dispatch, AcceptFacts
  <2>3. state' # "BypassReq"
    BY <1>3, <2>2 DEF IdleStep, IdleWait, AcceptLoadHit, AcceptLoadMiss, AcceptStore
  <2> QED BY <1>1, <1>2, <1>3, <2>1, <2>3 DEF OwedExact
<1>4. CASE state = "Idle" /\ BypassNow(rv)
  <2>1. IdleStep(rv)
    BY <1>0, <1>4, Dispatch
  <2>2. ~store_buffer_issue_valid /\ mem_req = lsu_op /\ (mem_fire(rv) <=> mem_ready(rv))
    <3>1. ~store_buffer_issue_valid
      BY <1>4, AcceptSignals DEF BypassNow
    <3> QED BY <1>4, <3>1 DEF mem_req, mem_fire, mem_valid
  <2>3. CASE AcceptAmoDirty(rv)
    <3>1. ~AsksDevice(rv) /\ ~IssuesDevice(rv)
      BY <1>4, <2>3, AcceptFacts DEF AsksDevice, IssuesDevice, IssuesBypass, AnsweredAtomic,
         amo_dirty_hit
    <3>2. state' # "BypassReq"
      BY <2>3 DEF AcceptAmoDirty
    <3> QED BY <1>1, <1>2, <1>4, <3>1, <3>2 DEF OwedExact
  <2>4. CASE AcceptBypass(rv)
    <3>1. /\ AsksDevice(rv) <=> ~is_ram(lsu_op.addr)
          /\ IssuesDevice(rv) <=> mem_ready(rv) /\ ~is_ram(lsu_op.addr)
      BY <1>4, <2>2, <2>4 DEF AcceptBypass, AsksDevice, IssuesDevice, IssuesBypass,
         AnsweredAtomic
    <3>2. saved' = lsu_op /\ (state' = "BypassReq" <=> ~mem_ready(rv))
      BY <2>4 DEF AcceptBypass
    <3>3. owed' = IF ~mem_ready(rv) /\ ~is_ram(lsu_op.addr) THEN 1 ELSE 0
      BY <1>1, <1>2, <1>4, <3>1
    <3> QED BY <3>2, <3>3 DEF OwedExact
  <2> QED BY <1>4, <2>1, <2>3, <2>4, AcceptFacts DEF IdleStep
<1>5. CASE state = "BypassReq"
  <2>1. ~AsksDevice(rv) /\ (IssuesDevice(rv) <=> mem_ready(rv) /\ ~is_ram(saved.addr))
    <3>1. ~BypassNow(rv) /\ ~store_buffer_issue_valid
      BY <1>0, <1>5, NotIdle
    <3>2. mem_req = saved /\ (mem_fire(rv) <=> mem_ready(rv)) /\ AnsweredAtomic
      BY <1>5, <3>1 DEF mem_req, mem_fire, mem_valid, AnsweredAtomic
    <3> QED BY <1>5, <3>1, <3>2 DEF AsksDevice, IssuesDevice, IssuesBypass
  <2>2. saved' = saved /\ (state' = "BypassReq" <=> ~mem_ready(rv))
    BY <1>0, <1>5, Dispatch DEF BypassReq
  <2>3. owed = IF ~is_ram(saved.addr) THEN 1 ELSE 0
    BY <1>5 DEF OwedExact
  <2>4. owed' = IF ~mem_ready(rv) /\ ~is_ram(saved.addr) THEN 1 ELSE 0
    BY <1>1, <2>1, <2>3
  <2> QED BY <2>2, <2>4 DEF OwedExact
<1>6. CASE state \notin {"Idle", "BypassReq"}
  <2>1. ~AsksDevice(rv) /\ ~IssuesDevice(rv)
    BY <1>0, <1>6, NotIdle DEF AsksDevice, IssuesDevice, IssuesBypass
  <2>2. state' = "BypassReq" => is_ram(saved'.addr)
    <3>1. CASE state = "WritebackReq"
      <4>1. WritebackReq(rv) /\ saved' = saved
        BY <1>0, <3>1, Dispatch DEF WritebackReq
      <4>2. state' = "BypassReq" => wb.resume = "bypass"
        BY <1>0, <3>1, <4>1 DEF WritebackReq
      <4> QED BY <1>0, <3>1, <4>1, <4>2 DEF WritebackCurrent
    <3>2. CASE state # "WritebackReq"
      <4>1. LoadFillReq(rv) \/ LoadFillWait(rv) \/ FlushScan \/ BypassWait(rv) \/ Response
        BY <1>0, <1>6, <3>2, Dispatch DEF FsmState
      <4> QED BY <4>1 DEF LoadFillReq, LoadFillWait, FlushScan, BypassWait, Response
    <3> QED BY <3>1, <3>2
  <2> QED BY <1>1, <1>2, <1>6, <2>1, <2>2 DEF OwedExact, is_ram
<1> QED BY <1>3, <1>4, <1>5, <1>6

\* A core that never invalidates hands each device access over exactly once.
\* (With invalidates it need not: run dcache_device_twice.)
THEOREM DevicesOnce == ~FlushEnabled => (Spec => []DeviceOnce)
<1> SUFFICES ASSUME ~FlushEnabled PROVE Spec => []DeviceOnce
  OBVIOUS
<1>1. Init => OwedExact
  BY DEF Init, OwedExact
<1>2. IInv /\ OwedExact /\ [Next]_vars => OwedExact'
  <2> SUFFICES ASSUME IInv, OwedExact, [Next]_vars PROVE OwedExact'
    OBVIOUS
  <2>1. CASE Next
    <3> PICK rv \in BOOLEAN, flush \in BOOLEAN, wr \in BOOLEAN : Clock(rv, flush, wr)
      BY <2>1 DEF Next
    <3> QED BY OwedExactStep
  <2>2. CASE UNCHANGED vars
    BY <2>2 DEF vars, cacheVars, OwedExact
  <2> QED BY <2>1, <2>2
<1>3. OwedExact => DeviceOnce
  BY DEF OwedExact, DeviceOnce
<1> QED BY <1>1, <1>2, <1>3, Inductive, PTL DEF Spec

=============================================================================
