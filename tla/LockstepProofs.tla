--------------------------- MODULE LockstepProofs ---------------------------
(***************************************************************************)
(* Proofs about the lockstep harness, for every program, delegation, device*)
(* and number of attempts the assumptions of Hart, RtlTrace and WhisperRef *)
(* allow.                                                                  *)
(*                                                                         *)
(* The reference is behind the core by the traps it has still to take and  *)
(* by the instructions in the pipeline.  Taking the former, at most one    *)
(* interrupt and then a chain of exceptions, leads it to the state in which*)
(* the core executed the oldest instruction not yet compared.              *)
(***************************************************************************)
EXTENDS Lockstep, FiniteSetTheorems, TLAPS

(***************************************************************************)
(* The operators of RtlTrace for a program p instead of the running one.   *)
(***************************************************************************)
CodeAt(p, pc) == IF pc \in DOMAIN p.code THEN p.code[pc] ELSE Inst("illegal", 0)
Excepts(p, h) == ExptCause(h, CodeAt(p, h.pc)) # NoCause
Raise(p, h) == Exception(h, p, CodeAt(p, h.pc))

\* The return address of an interrupt.
Epc(p, h) == IF CodeAt(p, h.pc).op = "wfi" THEN h.pc + 1 ELSE h.pc

\* g is h after n exceptions.
ChainBy(p, s, h, n, g) ==
  /\ s[0] = h /\ s[n] = g
  /\ \A k \in 0 .. n - 1 : Excepts(p, s[k]) /\ s[k + 1] = Raise(p, s[k])
Chain(p, h, n, g) == \E s \in [0 .. n -> Harts] : ChainBy(p, s, h, n, g)

\* g is h after the instruction at its pc.
Does(p, h, i, g) ==
  \E word \in DeviceWords, time \in Times :
    g = Execute(h, i, IsRam(i), IF IsRam(i) THEN h.ram ELSE word, time)

\* c is the retirement of the instruction at b's pc, or that with an error.
Right(p, b, c) == c = Retirement(b, CodeAt(p, b.pc), c.after)
WrongBy(p, b, c, f) ==
  /\ CanErr(Retirement(b, CodeAt(p, b.pc), c.after), f)
  /\ c = Wrong(Retirement(b, CodeAt(p, b.pc), c.after), f)
Runs(p, b, c) ==
  /\ b \in Harts /\ c.after \in Harts
  /\ ~Excepts(p, b)
  /\ CodeAt(p, b.pc).op = "sret" => b.mode # ModeM
  /\ Does(p, b, CodeAt(p, b.pc), c.after)
Reports(p, b, c) ==
  /\ Runs(p, b, c)
  /\ c \in Retirements
  /\ \/ Right(p, b, c)
     \/ \E f \in Errors : WrongBy(p, b, c, f)

(***************************************************************************)
(* Types.                                                                  *)
(***************************************************************************)
LEMMA CodeWellFormed ==
  ASSUME NEW p \in Programs, NEW pc
  PROVE  /\ WellFormed(CodeAt(p, pc))
         /\ IsLoad(CodeAt(p, pc)) /\ ~IsRam(CodeAt(p, pc)) => is_rtl_mmio_address(Pa(CodeAt(p, pc)))
<1>1. CASE pc \in DOMAIN p.code
  <2>1. CodeAt(p, pc) = p.code[pc]
    BY <1>1 DEF CodeAt
  <2>2. WellFormed(p.code[pc])
    BY <1>1, ProgramAssumption
  <2>3. IsLoad(p.code[pc]) /\ ~IsRam(p.code[pc]) => is_rtl_mmio_address(Pa(p.code[pc]))
    BY <1>1, DeviceAssumption
  <2>q. QED
    BY <2>1, <2>2, <2>3
<1>2. CASE pc \notin DOMAIN p.code
  <2>1. CodeAt(p, pc) = [op |-> "illegal", size |-> 0, addr |-> 0, arg |-> 0]
    BY <1>2 DEF CodeAt, Inst
  <2>2. CodeAt(p, pc) \in Insts
    BY <2>1 DEF Insts, Ops
  <2>3. ~IsMem(CodeAt(p, pc)) /\ CodeAt(p, pc).op # "amo"
    BY <2>1 DEF IsMem, IsLoad, IsWrite
  <2>q. QED
    BY <2>2, <2>3 DEF WellFormed, WithinWord, IsMem
<1>q. QED
  BY <1>1, <1>2

LEMMA PairType == ASSUME NEW a \in BOOLEAN, NEW b \in Int PROVE <<a, b>> \in BOOLEAN \X Int
OBVIOUS

LEMMA ResetType == ASSUME NEW pc \in Int, NEW x \in Int PROVE ResetHart(pc, x) \in Harts
<1>0. FALSE \in BOOLEAN /\ NoCause \in Int
  BY DEF NoCause
<1>1. <<FALSE, NoCause>> \in BOOLEAN \X Int
  <2>1. \A a \in BOOLEAN, b \in Int : <<a, b>> \in BOOLEAN \X Int
    BY PairType
  <2>q. QED
    BY <1>0, <2>1, Zenon
<1>2. ModeM \in Modes /\ ModeU \in Modes
  BY DEF Modes
<1>q. QED
  BY <1>0, <1>1, <1>2 DEF ResetHart, Harts
LEMMA VectorType ==
  ASSUME NEW tvec, tvec.base \in Int, NEW isIntr, NEW c \in Int
  PROVE  Vector(tvec, isIntr, c) \in Int
BY DEF Vector

LEMMA TrapType ==
  ASSUME NEW p \in Programs, NEW h \in Harts, NEW mode, NEW isIntr \in BOOLEAN, NEW c \in Int,
         NEW epc \in Int
  PROVE  Trap(h, p, mode, isIntr, c, epc) \in Harts
<1>1. Vector(p.mtvec, isIntr, c) \in Int /\ Vector(p.stvec, isIntr, c) \in Int
  BY VectorType, ProgramAssumption
<1>2. /\ h.mode \in Modes /\ h.mie \in BOOLEAN /\ h.sie \in BOOLEAN
      /\ <<isIntr, c>> \in BOOLEAN \X Int /\ ModeM \in Modes /\ ModeS \in Modes
  BY DEF Harts, Modes
<1>3. CASE mode = ModeM
  BY <1>1, <1>2, <1>3 DEF Trap, Harts
<1>4. CASE mode # ModeM
  BY <1>1, <1>2, <1>4 DEF Trap, Harts
<1>q. QED
  BY <1>3, <1>4

LEMMA CauseType ==
  ASSUME NEW h \in Harts, NEW i
  PROVE  ExptCause(h, i) \in Int
BY DEF ExptCause, Harts, Modes, ModeU, ModeS, ModeM, NoCause

LEMMA RaiseType ==
  ASSUME NEW p \in Programs, NEW h \in Harts
  PROVE  Raise(p, h) \in Harts
<1>1. ExptCause(h, CodeAt(p, h.pc)) \in Int
  BY CauseType
<1>2. h.pc \in Int
  BY DEF Harts
<1>q. QED
  BY <1>1, <1>2, TrapType DEF Raise, Exception

LEMMA InterruptType ==
  ASSUME NEW p \in Programs, NEW h \in Harts, NEW pend, NEW epc \in Int
  PROVE  Interrupt(h, p, pend, epc) \in Harts /\ IntrCause(h, pend) \in {MTI, SEI}
<1>1. IntrCause(h, pend) \in {MTI, SEI}
  BY DEF IntrCause
<1>2. IntrCause(h, pend) \in Int
  BY <1>1 DEF MTI, SEI
<1>q. QED
  BY <1>1, <1>2, TrapType DEF Interrupt

LEMMA EpcType ==
  ASSUME NEW p, NEW h \in Harts PROVE Epc(p, h) \in Int
BY DEF Epc, Harts

(***************************************************************************)
(* Parts of a word.  A slot is an access within a word: its lane and size.  *)
(***************************************************************************)
Slot(lane, size) == lane \in 0 .. 7 /\ size \in {1, 2, 4, 8} /\ lane + size <= 8

SlotOf1(lane, size) == size = 1 /\ lane \in {0, 1, 2, 3, 4, 5, 6, 7}
SlotOf2(lane, size) == size = 2 /\ lane \in {0, 1, 2, 3, 4, 5, 6}
SlotOf4(lane, size) == size = 4 /\ lane \in {0, 1, 2, 3, 4}
SlotOf8(lane, size) == size = 8 /\ lane \in {0}

\* Twenty-one slots fit into a word.
LEMMA SlotCases ==
  ASSUME NEW lane, NEW size, Slot(lane, size)
  PROVE  SlotOf1(lane, size) \/ SlotOf2(lane, size) \/ SlotOf4(lane, size) \/ SlotOf8(lane, size)
<1>1. CASE size = 1
  BY <1>1 DEF Slot, SlotOf1
<1>2. CASE size = 2
  BY <1>2 DEF Slot, SlotOf2
<1>4. CASE size = 4
  BY <1>4 DEF Slot, SlotOf4
<1>8. CASE size = 8
  BY <1>8 DEF Slot, SlotOf8
<1>q. QED
  BY <1>1, <1>2, <1>4, <1>8 DEF Slot

\* Insert replaces a slot, and what it inserts is read back.
LEMMA InsertSlot ==
  ASSUME NEW lane, NEW size, Slot(lane, size), NEW w \in Int, NEW v \in Int
  PROVE  /\ Insert(w, lane, size, v) \in Int
         /\ Extract(Insert(w, lane, size, v), lane, size) = v % 2^size
         /\ Extract(Insert(w, lane, size, v) % 2^WordSize, lane, size) = v % 2^size
<1>1. CASE SlotOf1(lane, size)
  <2>0. CASE lane = 0
    BY <1>1, <2>0 DEF SlotOf1, Extract, Insert, WordSize
  <2>1. CASE lane = 1
    BY <1>1, <2>1 DEF SlotOf1, Extract, Insert, WordSize
  <2>2. CASE lane = 2
    BY <1>1, <2>2 DEF SlotOf1, Extract, Insert, WordSize
  <2>3. CASE lane = 3
    BY <1>1, <2>3 DEF SlotOf1, Extract, Insert, WordSize
  <2>4. CASE lane = 4
    BY <1>1, <2>4 DEF SlotOf1, Extract, Insert, WordSize
  <2>5. CASE lane = 5
    BY <1>1, <2>5 DEF SlotOf1, Extract, Insert, WordSize
  <2>6. CASE lane = 6
    BY <1>1, <2>6 DEF SlotOf1, Extract, Insert, WordSize
  <2>7. CASE lane = 7
    BY <1>1, <2>7 DEF SlotOf1, Extract, Insert, WordSize
  <2>q. QED
    BY <1>1, <2>0, <2>1, <2>2, <2>3, <2>4, <2>5, <2>6, <2>7 DEF SlotOf1
<1>2. CASE SlotOf2(lane, size)
  <2>0. CASE lane = 0
    BY <1>2, <2>0 DEF SlotOf2, Extract, Insert, WordSize
  <2>1. CASE lane = 1
    BY <1>2, <2>1 DEF SlotOf2, Extract, Insert, WordSize
  <2>2. CASE lane = 2
    BY <1>2, <2>2 DEF SlotOf2, Extract, Insert, WordSize
  <2>3. CASE lane = 3
    BY <1>2, <2>3 DEF SlotOf2, Extract, Insert, WordSize
  <2>4. CASE lane = 4
    BY <1>2, <2>4 DEF SlotOf2, Extract, Insert, WordSize
  <2>5. CASE lane = 5
    BY <1>2, <2>5 DEF SlotOf2, Extract, Insert, WordSize
  <2>6. CASE lane = 6
    BY <1>2, <2>6 DEF SlotOf2, Extract, Insert, WordSize
  <2>q. QED
    BY <1>2, <2>0, <2>1, <2>2, <2>3, <2>4, <2>5, <2>6 DEF SlotOf2
<1>4. CASE SlotOf4(lane, size)
  <2>0. CASE lane = 0
    BY <1>4, <2>0 DEF SlotOf4, Extract, Insert, WordSize
  <2>1. CASE lane = 1
    BY <1>4, <2>1 DEF SlotOf4, Extract, Insert, WordSize
  <2>2. CASE lane = 2
    BY <1>4, <2>2 DEF SlotOf4, Extract, Insert, WordSize
  <2>3. CASE lane = 3
    BY <1>4, <2>3 DEF SlotOf4, Extract, Insert, WordSize
  <2>4. CASE lane = 4
    BY <1>4, <2>4 DEF SlotOf4, Extract, Insert, WordSize
  <2>q. QED
    BY <1>4, <2>0, <2>1, <2>2, <2>3, <2>4 DEF SlotOf4
<1>8. CASE SlotOf8(lane, size)
  <2>0. CASE lane = 0
    BY <1>8, <2>0 DEF SlotOf8, Extract, Insert, WordSize
  <2>q. QED
    BY <1>8, <2>0 DEF SlotOf8
<1>q. QED
  BY <1>1, <1>2, <1>4, <1>8, SlotCases

\* A slot is a number of its size, which sign extension does not change.
LEMMA ExtractSlot ==
  ASSUME NEW lane, NEW size, Slot(lane, size), NEW w \in Int
  PROVE  /\ Extract(w, lane, size) \in Int
         /\ Extract(w, lane, size) % 2^size = Extract(w, lane, size)
         /\ SignExtend(Extract(w, lane, size), size) \in Int
         /\ SignExtend(Extract(w, lane, size), size) % 2^size = Extract(w, lane, size)
<1>1. CASE SlotOf1(lane, size)
  <2>0. CASE lane = 0
    BY <1>1, <2>0 DEF SlotOf1, Extract, SignExtend, WordSize
  <2>1. CASE lane = 1
    BY <1>1, <2>1 DEF SlotOf1, Extract, SignExtend, WordSize
  <2>2. CASE lane = 2
    BY <1>1, <2>2 DEF SlotOf1, Extract, SignExtend, WordSize
  <2>3. CASE lane = 3
    BY <1>1, <2>3 DEF SlotOf1, Extract, SignExtend, WordSize
  <2>4. CASE lane = 4
    BY <1>1, <2>4 DEF SlotOf1, Extract, SignExtend, WordSize
  <2>5. CASE lane = 5
    BY <1>1, <2>5 DEF SlotOf1, Extract, SignExtend, WordSize
  <2>6. CASE lane = 6
    BY <1>1, <2>6 DEF SlotOf1, Extract, SignExtend, WordSize
  <2>7. CASE lane = 7
    BY <1>1, <2>7 DEF SlotOf1, Extract, SignExtend, WordSize
  <2>q. QED
    BY <1>1, <2>0, <2>1, <2>2, <2>3, <2>4, <2>5, <2>6, <2>7 DEF SlotOf1
<1>2. CASE SlotOf2(lane, size)
  <2>0. CASE lane = 0
    BY <1>2, <2>0 DEF SlotOf2, Extract, SignExtend, WordSize
  <2>1. CASE lane = 1
    BY <1>2, <2>1 DEF SlotOf2, Extract, SignExtend, WordSize
  <2>2. CASE lane = 2
    BY <1>2, <2>2 DEF SlotOf2, Extract, SignExtend, WordSize
  <2>3. CASE lane = 3
    BY <1>2, <2>3 DEF SlotOf2, Extract, SignExtend, WordSize
  <2>4. CASE lane = 4
    BY <1>2, <2>4 DEF SlotOf2, Extract, SignExtend, WordSize
  <2>5. CASE lane = 5
    BY <1>2, <2>5 DEF SlotOf2, Extract, SignExtend, WordSize
  <2>6. CASE lane = 6
    BY <1>2, <2>6 DEF SlotOf2, Extract, SignExtend, WordSize
  <2>q. QED
    BY <1>2, <2>0, <2>1, <2>2, <2>3, <2>4, <2>5, <2>6 DEF SlotOf2
<1>4. CASE SlotOf4(lane, size)
  <2>0. CASE lane = 0
    BY <1>4, <2>0 DEF SlotOf4, Extract, SignExtend, WordSize
  <2>1. CASE lane = 1
    BY <1>4, <2>1 DEF SlotOf4, Extract, SignExtend, WordSize
  <2>2. CASE lane = 2
    BY <1>4, <2>2 DEF SlotOf4, Extract, SignExtend, WordSize
  <2>3. CASE lane = 3
    BY <1>4, <2>3 DEF SlotOf4, Extract, SignExtend, WordSize
  <2>4. CASE lane = 4
    BY <1>4, <2>4 DEF SlotOf4, Extract, SignExtend, WordSize
  <2>q. QED
    BY <1>4, <2>0, <2>1, <2>2, <2>3, <2>4 DEF SlotOf4
<1>8. CASE SlotOf8(lane, size)
  <2>0. CASE lane = 0
    BY <1>8, <2>0 DEF SlotOf8, Extract, SignExtend, WordSize
  <2>q. QED
    BY <1>8, <2>0 DEF SlotOf8
<1>q. QED
  BY <1>1, <1>2, <1>4, <1>8, SlotCases

\* Adding a power of two that lies in a slot changes it.
LEMMA FlipSlot ==
  ASSUME NEW lane, NEW size, Slot(lane, size), NEW w \in Int, NEW l \in lane .. lane + size - 1
  PROVE  Extract((w + 2^l) % 2^WordSize, lane, size) # Extract(w, lane, size)
<1>1. CASE SlotOf1(lane, size)
  <2>0. CASE lane = 0
    <3>0. CASE l = 0
      BY <1>1, <2>0, <3>0 DEF SlotOf1, Extract, WordSize
    <3>q. QED
      BY <1>1, <2>0, <3>0 DEF SlotOf1
  <2>1. CASE lane = 1
    <3>1. CASE l = 1
      BY <1>1, <2>1, <3>1 DEF SlotOf1, Extract, WordSize
    <3>q. QED
      BY <1>1, <2>1, <3>1 DEF SlotOf1
  <2>2. CASE lane = 2
    <3>2. CASE l = 2
      BY <1>1, <2>2, <3>2 DEF SlotOf1, Extract, WordSize
    <3>q. QED
      BY <1>1, <2>2, <3>2 DEF SlotOf1
  <2>3. CASE lane = 3
    <3>3. CASE l = 3
      BY <1>1, <2>3, <3>3 DEF SlotOf1, Extract, WordSize
    <3>q. QED
      BY <1>1, <2>3, <3>3 DEF SlotOf1
  <2>4. CASE lane = 4
    <3>4. CASE l = 4
      BY <1>1, <2>4, <3>4 DEF SlotOf1, Extract, WordSize
    <3>q. QED
      BY <1>1, <2>4, <3>4 DEF SlotOf1
  <2>5. CASE lane = 5
    <3>5. CASE l = 5
      BY <1>1, <2>5, <3>5 DEF SlotOf1, Extract, WordSize
    <3>q. QED
      BY <1>1, <2>5, <3>5 DEF SlotOf1
  <2>6. CASE lane = 6
    <3>6. CASE l = 6
      BY <1>1, <2>6, <3>6 DEF SlotOf1, Extract, WordSize
    <3>q. QED
      BY <1>1, <2>6, <3>6 DEF SlotOf1
  <2>7. CASE lane = 7
    <3>7. CASE l = 7
      BY <1>1, <2>7, <3>7 DEF SlotOf1, Extract, WordSize
    <3>q. QED
      BY <1>1, <2>7, <3>7 DEF SlotOf1
  <2>q. QED
    BY <1>1, <2>0, <2>1, <2>2, <2>3, <2>4, <2>5, <2>6, <2>7 DEF SlotOf1
<1>2. CASE SlotOf2(lane, size)
  <2>0. CASE lane = 0
    <3>0. CASE l = 0
      BY <1>2, <2>0, <3>0 DEF SlotOf2, Extract, WordSize
    <3>1. CASE l = 1
      BY <1>2, <2>0, <3>1 DEF SlotOf2, Extract, WordSize
    <3>q. QED
      BY <1>2, <2>0, <3>0, <3>1 DEF SlotOf2
  <2>1. CASE lane = 1
    <3>1. CASE l = 1
      BY <1>2, <2>1, <3>1 DEF SlotOf2, Extract, WordSize
    <3>2. CASE l = 2
      BY <1>2, <2>1, <3>2 DEF SlotOf2, Extract, WordSize
    <3>q. QED
      BY <1>2, <2>1, <3>1, <3>2 DEF SlotOf2
  <2>2. CASE lane = 2
    <3>2. CASE l = 2
      BY <1>2, <2>2, <3>2 DEF SlotOf2, Extract, WordSize
    <3>3. CASE l = 3
      BY <1>2, <2>2, <3>3 DEF SlotOf2, Extract, WordSize
    <3>q. QED
      BY <1>2, <2>2, <3>2, <3>3 DEF SlotOf2
  <2>3. CASE lane = 3
    <3>3. CASE l = 3
      BY <1>2, <2>3, <3>3 DEF SlotOf2, Extract, WordSize
    <3>4. CASE l = 4
      BY <1>2, <2>3, <3>4 DEF SlotOf2, Extract, WordSize
    <3>q. QED
      BY <1>2, <2>3, <3>3, <3>4 DEF SlotOf2
  <2>4. CASE lane = 4
    <3>4. CASE l = 4
      BY <1>2, <2>4, <3>4 DEF SlotOf2, Extract, WordSize
    <3>5. CASE l = 5
      BY <1>2, <2>4, <3>5 DEF SlotOf2, Extract, WordSize
    <3>q. QED
      BY <1>2, <2>4, <3>4, <3>5 DEF SlotOf2
  <2>5. CASE lane = 5
    <3>5. CASE l = 5
      BY <1>2, <2>5, <3>5 DEF SlotOf2, Extract, WordSize
    <3>6. CASE l = 6
      BY <1>2, <2>5, <3>6 DEF SlotOf2, Extract, WordSize
    <3>q. QED
      BY <1>2, <2>5, <3>5, <3>6 DEF SlotOf2
  <2>6. CASE lane = 6
    <3>6. CASE l = 6
      BY <1>2, <2>6, <3>6 DEF SlotOf2, Extract, WordSize
    <3>7. CASE l = 7
      BY <1>2, <2>6, <3>7 DEF SlotOf2, Extract, WordSize
    <3>q. QED
      BY <1>2, <2>6, <3>6, <3>7 DEF SlotOf2
  <2>q. QED
    BY <1>2, <2>0, <2>1, <2>2, <2>3, <2>4, <2>5, <2>6 DEF SlotOf2
<1>4. CASE SlotOf4(lane, size)
  <2>0. CASE lane = 0
    <3>0. CASE l = 0
      BY <1>4, <2>0, <3>0 DEF SlotOf4, Extract, WordSize
    <3>1. CASE l = 1
      BY <1>4, <2>0, <3>1 DEF SlotOf4, Extract, WordSize
    <3>2. CASE l = 2
      BY <1>4, <2>0, <3>2 DEF SlotOf4, Extract, WordSize
    <3>3. CASE l = 3
      BY <1>4, <2>0, <3>3 DEF SlotOf4, Extract, WordSize
    <3>q. QED
      BY <1>4, <2>0, <3>0, <3>1, <3>2, <3>3 DEF SlotOf4
  <2>1. CASE lane = 1
    <3>1. CASE l = 1
      BY <1>4, <2>1, <3>1 DEF SlotOf4, Extract, WordSize
    <3>2. CASE l = 2
      BY <1>4, <2>1, <3>2 DEF SlotOf4, Extract, WordSize
    <3>3. CASE l = 3
      BY <1>4, <2>1, <3>3 DEF SlotOf4, Extract, WordSize
    <3>4. CASE l = 4
      BY <1>4, <2>1, <3>4 DEF SlotOf4, Extract, WordSize
    <3>q. QED
      BY <1>4, <2>1, <3>1, <3>2, <3>3, <3>4 DEF SlotOf4
  <2>2. CASE lane = 2
    <3>2. CASE l = 2
      BY <1>4, <2>2, <3>2 DEF SlotOf4, Extract, WordSize
    <3>3. CASE l = 3
      BY <1>4, <2>2, <3>3 DEF SlotOf4, Extract, WordSize
    <3>4. CASE l = 4
      BY <1>4, <2>2, <3>4 DEF SlotOf4, Extract, WordSize
    <3>5. CASE l = 5
      BY <1>4, <2>2, <3>5 DEF SlotOf4, Extract, WordSize
    <3>q. QED
      BY <1>4, <2>2, <3>2, <3>3, <3>4, <3>5 DEF SlotOf4
  <2>3. CASE lane = 3
    <3>3. CASE l = 3
      BY <1>4, <2>3, <3>3 DEF SlotOf4, Extract, WordSize
    <3>4. CASE l = 4
      BY <1>4, <2>3, <3>4 DEF SlotOf4, Extract, WordSize
    <3>5. CASE l = 5
      BY <1>4, <2>3, <3>5 DEF SlotOf4, Extract, WordSize
    <3>6. CASE l = 6
      BY <1>4, <2>3, <3>6 DEF SlotOf4, Extract, WordSize
    <3>q. QED
      BY <1>4, <2>3, <3>3, <3>4, <3>5, <3>6 DEF SlotOf4
  <2>4. CASE lane = 4
    <3>4. CASE l = 4
      BY <1>4, <2>4, <3>4 DEF SlotOf4, Extract, WordSize
    <3>5. CASE l = 5
      BY <1>4, <2>4, <3>5 DEF SlotOf4, Extract, WordSize
    <3>6. CASE l = 6
      BY <1>4, <2>4, <3>6 DEF SlotOf4, Extract, WordSize
    <3>7. CASE l = 7
      BY <1>4, <2>4, <3>7 DEF SlotOf4, Extract, WordSize
    <3>q. QED
      BY <1>4, <2>4, <3>4, <3>5, <3>6, <3>7 DEF SlotOf4
  <2>q. QED
    BY <1>4, <2>0, <2>1, <2>2, <2>3, <2>4 DEF SlotOf4
<1>8. CASE SlotOf8(lane, size)
  <2>0. CASE lane = 0
    <3>0. CASE l = 0
      BY <1>8, <2>0, <3>0 DEF SlotOf8, Extract, WordSize
    <3>1. CASE l = 1
      BY <1>8, <2>0, <3>1 DEF SlotOf8, Extract, WordSize
    <3>2. CASE l = 2
      BY <1>8, <2>0, <3>2 DEF SlotOf8, Extract, WordSize
    <3>3. CASE l = 3
      BY <1>8, <2>0, <3>3 DEF SlotOf8, Extract, WordSize
    <3>4. CASE l = 4
      BY <1>8, <2>0, <3>4 DEF SlotOf8, Extract, WordSize
    <3>5. CASE l = 5
      BY <1>8, <2>0, <3>5 DEF SlotOf8, Extract, WordSize
    <3>6. CASE l = 6
      BY <1>8, <2>0, <3>6 DEF SlotOf8, Extract, WordSize
    <3>7. CASE l = 7
      BY <1>8, <2>0, <3>7 DEF SlotOf8, Extract, WordSize
    <3>q. QED
      BY <1>8, <2>0, <3>0, <3>1, <3>2, <3>3, <3>4, <3>5, <3>6, <3>7 DEF SlotOf8
  <2>q. QED
    BY <1>8, <2>0 DEF SlotOf8
<1>q. QED
  BY <1>1, <1>2, <1>4, <1>8, SlotCases

(***************************************************************************)
(* What an instruction does, and its retirement, have their types.         *)
(***************************************************************************)
LEMMA AccessSlot ==
  ASSUME NEW i, WellFormed(i), IsMem(i)
  PROVE  /\ Slot(Lane(i.addr), i.size) /\ Slot(0, i.size)
         /\ Lane(Pa(i)) = Lane(i.addr)
         /\ i.size \in {1, 2, 4, 8} /\ i.addr \in Int /\ Pa(i) \in Int
<1>1. i.addr \in Int /\ i.size \in {1, 2, 4, 8} /\ Lane(i.addr) + i.size <= 8
  BY DEF WellFormed, WithinWord, WordSize, Insts
<1>2. Lane(i.addr) \in 0 .. 7
  BY <1>1 DEF Lane, WordSize
<1>3. 0 + i.size <= 8
  BY <1>1
<1>4. Lane(Pa(i)) = Lane(i.addr) /\ Pa(i) \in Int
  BY <1>1, PaAssumption DEF Lane, WordSize, Pa
<1>q. QED
  BY <1>1, <1>2, <1>3, <1>4 DEF Slot

LEMMA StoredType ==
  ASSUME NEW h \in Harts, NEW i, WellFormed(i), IsWrite(i)
  PROVE  Stored(h, i) \in Int
<1>1. h.x \in Int /\ i.arg \in Int
  BY DEF Harts, WellFormed, Insts
<1>2. i.size \in {1, 2, 4, 8}
  BY AccessSlot DEF IsMem
<1>3. h.x % 2^i.size \in Int
  <2>1. CASE i.size = 1  BY <1>1, <2>1
  <2>2. CASE i.size = 2  BY <1>1, <2>2
  <2>4. CASE i.size = 4  BY <1>1, <2>4
  <2>8. CASE i.size = 8  BY <1>1, <2>8
  <2>q. QED  BY <1>2, <2>1, <2>2, <2>4, <2>8
<1>q. QED
  BY <1>1, <1>3 DEF Stored

LEMMA ResultType ==
  ASSUME NEW h \in Harts, NEW i, WellFormed(i), NEW word \in Int, NEW time \in Int
  PROVE  Result(h, i, word, time) \in Int
<1>1. h.x \in Int /\ h.mepc \in Int /\ h.sepc \in Int /\ i.arg \in Int
  BY DEF Harts, WellFormed, Insts
<1>2. CASE i.op \in {"load", "loadu", "amo"}
  <2>1. Slot(Lane(i.addr), i.size)
    BY <1>2, AccessSlot DEF IsMem, IsLoad, IsWrite
  <2>2. /\ Extract(word, Lane(i.addr), i.size) \in Int
        /\ SignExtend(Extract(word, Lane(i.addr), i.size), i.size) \in Int
    BY <2>1, ExtractSlot
  <2>q. QED
    BY <1>2, <2>2 DEF Result
<1>3. CASE i.op \notin {"load", "loadu", "amo"}
  BY <1>1, <1>3 DEF Result, WordSize
<1>q. QED
  BY <1>2, <1>3

LEMMA CsrsType ==
  ASSUME NEW h \in Harts, NEW i, WellFormed(i)
  PROVE  Csrs(h, i) \in Harts
<1>1. /\ h.mpp \in Modes /\ h.spp \in Modes /\ h.mpie \in BOOLEAN /\ h.spie \in BOOLEAN
      /\ ModeU \in Modes /\ ModeS \in Modes /\ TRUE \in BOOLEAN
  BY DEF Harts, Modes
<1>2. h.mepc + 1 \in Int /\ h.sepc + 1 \in Int /\ i.arg \in Int
  BY DEF Harts, WellFormed, Insts
<1>3. CASE i.op = "mret"  BY <1>1, <1>3 DEF Csrs, Harts
<1>4. CASE i.op = "sret"  BY <1>1, <1>4 DEF Csrs, Harts
<1>5. CASE i.op = "setup"  BY <1>1, <1>2, <1>5 DEF Csrs, Harts
<1>6. CASE i.op = "skipm"  BY <1>2, <1>6 DEF Csrs, Harts
<1>7. CASE i.op = "skips"  BY <1>2, <1>7 DEF Csrs, Harts
<1>8. CASE i.op \notin {"mret", "sret", "setup", "skipm", "skips"}
  BY <1>8 DEF Csrs
<1>q. QED
  BY <1>3, <1>4, <1>5, <1>6, <1>7, <1>8

LEMMA ExecuteType ==
  ASSUME NEW h \in Harts, NEW i, WellFormed(i), NEW word \in Int, NEW time \in Int
  PROVE  Execute(h, i, IsRam(i), word, time) \in Harts
<1> DEFINE c == Csrs(h, i)
<1>1. c \in Harts
  BY CsrsType
<1>2. NextPc(h, i) \in Int
  BY DEF NextPc, Harts, WellFormed, Insts
<1>3. Result(h, i, word, time) \in Int
  BY ResultType
<1>4. c.ram \in Int /\ c.x \in Int
  BY <1>1 DEF Harts
<1>5. IsWrite(i) => Insert(c.ram, Lane(i.addr), i.size, Stored(h, i)) \in Int
  BY <1>4, StoredType, AccessSlot, InsertSlot DEF IsMem
<1>6. PICK x \in Int : x = IF WritesRd(i) THEN Result(h, i, word, time) ELSE c.x
  BY <1>3, <1>4
<1>7. PICK ram \in Int : ram = IF IsWrite(i) /\ IsRam(i)
                               THEN Insert(c.ram, Lane(i.addr), i.size, Stored(h, i)) ELSE c.ram
  BY <1>4, <1>5
<1>8. Execute(h, i, IsRam(i), word, time) = [c EXCEPT !.pc = NextPc(h, i), !.x = x, !.ram = ram]
  BY <1>1, <1>6, <1>7 DEF Execute
<1> HIDE DEF c
<1>q. QED
  BY <1>1, <1>2, <1>8 DEF Harts

LEMMA RetirementType ==
  ASSUME NEW h \in Harts, NEW i, WellFormed(i), NEW g \in Harts
  PROVE  Retirement(h, i, g) \in Retirements
<1>1. i \in Insts /\ i.addr \in Int /\ h.pc \in Int /\ h.mode \in Modes /\ h.ram \in Int /\ g.x \in Int
  BY DEF WellFormed, Insts, Harts
<1>2. retire_priv(h, i) \in Modes
  BY <1>1 DEF retire_priv, Modes
<1>3. PICK rd \in Int : rd = IF WritesRd(i) THEN 1 ELSE 0
  OBVIOUS
<1>4. PICK rd_data \in Int : rd_data = IF WritesRd(i) THEN g.x ELSE 0
  BY <1>1
<1>5. PICK pa \in Int : pa = IF IsMem(i) THEN Pa(i) ELSE 0
  BY AccessSlot
<1>6. PICK mask \in SUBSET Int : mask = CASE i.op = "amo" -> retire_store_mask(i.size, i.addr)
              [] IsWrite(i) /\ i.op # "amo" -> retire_arch_store_mask(i.size)
              [] OTHER        -> {}
  <2>1. CASE i.op = "amo"
    <3>1. i.size \in Int /\ Lane(i.addr) \in Int
      BY <1>1 DEF Lane, WordSize, WellFormed, Insts
    <3>2. retire_store_mask(i.size, i.addr) \in SUBSET Int
      BY <3>1 DEF retire_store_mask
    <3>q. QED
      BY <2>1, <3>2
  <2>2. CASE IsWrite(i) /\ i.op # "amo"
    <3>1. i.size \in Int
      BY DEF WellFormed, Insts
    <3>q. QED
      BY <2>2, <3>1 DEF retire_arch_store_mask
  <2>3. CASE ~IsWrite(i) /\ i.op # "amo"
    BY <2>3
  <2>q. QED
    BY <2>1, <2>2, <2>3
<1>7. PICK data \in Int : data = CASE i.op = "amo" -> Insert(h.ram, Lane(i.addr), i.size, Stored(h, i))
              [] IsWrite(i) /\ i.op # "amo" -> Stored(h, i)
              [] OTHER        -> 0
  <2>1. CASE i.op = "amo"
    <3>1. IsWrite(i) /\ IsMem(i)
      BY <2>1 DEF IsWrite, IsMem
    <3>2. Insert(h.ram, Lane(i.addr), i.size, Stored(h, i)) \in Int
      BY <1>1, <3>1, StoredType, AccessSlot, InsertSlot
    <3>q. QED
      BY <2>1, <3>2
  <2>2. CASE IsWrite(i) /\ i.op # "amo"
    BY <2>2, StoredType
  <2>3. CASE ~IsWrite(i) /\ i.op # "amo"
    BY <2>3
  <2>q. QED
    BY <2>1, <2>2, <2>3
<1>8. WritesRd(i) \in BOOLEAN /\ IsMem(i) \in BOOLEAN /\ IsWrite(i) \in BOOLEAN /\ FALSE \in BOOLEAN
  BY DEF WritesRd, IsMem, IsWrite, IsLoad
<1>9. Retirement(h, i, g) =
        [inst |-> i, pc |-> h.pc, priv |-> retire_priv(h, i), rd_we |-> WritesRd(i), rd |-> rd,
         rd_data |-> rd_data, mem_valid |-> IsMem(i), mem_write |-> IsWrite(i), va |-> i.addr,
         pa |-> pa, mask |-> mask, data |-> data, after |-> g, bad |-> FALSE]
  BY <1>3, <1>4, <1>5, <1>6, <1>7 DEF Retirement
<1>q. QED
  BY <1>1, <1>2, <1>8, <1>9 DEF Retirements

\* An error keeps the type and says nothing about the state behind it.
LEMMA WrongType ==
  ASSUME NEW c \in Retirements, NEW f \in Errors,
         f = "data" => c.mask # {} /\ c.mask \subseteq 0 .. 7
  PROVE  /\ Wrong(c, f) \in Retirements
         /\ Wrong(c, f).bad = TRUE /\ Wrong(c, f).after = c.after /\ Wrong(c, f).inst = c.inst
<1> DEFINE w == [c EXCEPT !.bad = TRUE]
<1>1. w \in Retirements /\ w.bad = TRUE /\ w.after = c.after /\ w.inst = c.inst
  BY DEF Retirements
<1>a. ModeM \in Modes /\ ModeS \in Modes /\ FALSE \in BOOLEAN
  BY DEF Modes
<1>b. w.rd_we \in BOOLEAN /\ w.mem_valid \in BOOLEAN /\ w.mem_write \in BOOLEAN
  BY <1>1 DEF Retirements
<1>c. /\ w.pc + 1 \in Int /\ 1 - w.rd \in Int /\ w.va + 1 \in Int /\ w.pa + 1 \in Int
      /\ (w.rd_data + 1) % 2^WordSize \in Int
  BY <1>1 DEF Retirements, WordSize
<1>2. (~w.rd_we) \in BOOLEAN /\ (~w.mem_valid) \in BOOLEAN /\ (~w.mem_write) \in BOOLEAN
  OBVIOUS
<1>d. w.mask = c.mask
  BY DEF Retirements
<1> HIDE DEF w
<1>3. Wrong(c, f) =
        CASE f = "pc"        -> [w EXCEPT !.pc = @ + 1]
          [] f = "priv"      -> [w EXCEPT !.priv = IF @ = ModeM THEN ModeS ELSE ModeM]
          [] f = "rd_we"     -> [w EXCEPT !.rd_we = ~@, !.rd = 1 - @, !.rd_data = 0]
          [] f = "rd"        -> [w EXCEPT !.rd = 2]
          [] f = "rd_data"   -> [w EXCEPT !.rd_data = (@ + 1) % 2^WordSize]
          [] f = "mem_valid" -> [w EXCEPT !.mem_valid = ~@, !.mem_write = FALSE]
          [] f = "mem_write" -> [w EXCEPT !.mem_write = ~@]
          [] f = "va"        -> [w EXCEPT !.va = @ + 1]
          [] f = "pa"        -> [w EXCEPT !.pa = @ + 1]
          [] f = "mask"      -> [w EXCEPT !.mask = @ \ {CHOOSE l \in @ : TRUE}]
          [] f = "data"      -> [w EXCEPT !.data = (@ + 2^(CHOOSE l \in w.mask : TRUE)) % 2^WordSize]
  BY DEF Wrong, w
<1>4. CASE f = "pc"  BY <1>1, <1>2, <1>a, <1>c, <1>3, <1>4 DEF Retirements
<1>5. CASE f = "priv"  BY <1>1, <1>2, <1>a, <1>c, <1>3, <1>5 DEF Retirements
<1>6. CASE f = "rd_we"
  <2>1. Wrong(c, f) = [[[w EXCEPT !.rd_we = ~w.rd_we] EXCEPT !.rd = 1 - w.rd] EXCEPT !.rd_data = 0]
    BY <1>1, <1>3, <1>6 DEF Retirements
  <2>2. PICK v : v = [w EXCEPT !.rd_we = ~w.rd_we]
    OBVIOUS
  <2>3. v \in Retirements /\ v.bad = TRUE /\ v.after = c.after /\ v.inst = c.inst
    BY <1>1, <1>2, <2>2 DEF Retirements
  <2>4. PICK u : u = [v EXCEPT !.rd = 1 - w.rd]
    OBVIOUS
  <2>5. u \in Retirements /\ u.bad = TRUE /\ u.after = c.after /\ u.inst = c.inst
    BY <1>c, <2>3, <2>4 DEF Retirements
  <2>6. Wrong(c, f) = [u EXCEPT !.rd_data = 0]
    BY <2>1, <2>2, <2>4
  <2>q. QED
    BY <2>5, <2>6 DEF Retirements
<1>7. CASE f = "rd"  BY <1>1, <1>2, <1>a, <1>c, <1>3, <1>7 DEF Retirements
<1>8. CASE f = "rd_data"  BY <1>1, <1>2, <1>a, <1>c, <1>3, <1>8 DEF Retirements
<1>9. CASE f = "mem_valid"  BY <1>1, <1>2, <1>a, <1>c, <1>3, <1>9 DEF Retirements
<1>10. CASE f = "mem_write"  BY <1>1, <1>2, <1>a, <1>c, <1>3, <1>10 DEF Retirements
<1>11. CASE f = "va"  BY <1>1, <1>2, <1>a, <1>c, <1>3, <1>11 DEF Retirements
<1>12. CASE f = "pa"  BY <1>1, <1>2, <1>a, <1>c, <1>3, <1>12 DEF Retirements
<1>13. CASE f = "mask"  BY <1>1, <1>2, <1>a, <1>c, <1>3, <1>13 DEF Retirements
<1>14. CASE f = "data"
  <2>1. PICK d : d = (w.data + 2^(CHOOSE l \in w.mask : TRUE)) % 2^WordSize
    OBVIOUS
  <2>2. d \in Int
    <3>1. PICK l \in 0 .. 7 : l = CHOOSE k \in w.mask : TRUE
      BY <1>14, <1>d
    <3>2. 2^l \in Int /\ w.data \in Int
      BY <1>1 DEF Retirements
    <3>q. QED
      BY <2>1, <3>1, <3>2 DEF WordSize
  <2>q. QED
    BY <1>1, <1>3, <1>14, <2>1, <2>2 DEF Retirements
<1>q. QED
  BY <1>4, <1>5, <1>6, <1>7, <1>8, <1>9, <1>10, <1>11, <1>12, <1>13, <1>14, ErrorsAssumption

(***************************************************************************)
(* Chains of exceptions: one is taken off the front by the reference, one  *)
(* is put at the end by the core.                                          *)
(***************************************************************************)
LEMMA ChainZero ==
  ASSUME NEW p, NEW h \in Harts, NEW g
  PROVE  Chain(p, h, 0, g) <=> g = h
<1>1. ASSUME Chain(p, h, 0, g) PROVE g = h
  BY <1>1 DEF Chain, ChainBy
<1>2. ASSUME g = h PROVE Chain(p, h, 0, g)
  <2> DEFINE s == [k \in 0 .. 0 |-> h]
  <2>1. s \in [0 .. 0 -> Harts] /\ s[0] = h
    OBVIOUS
  <2>2. ChainBy(p, s, h, 0, g)
    BY <1>2, <2>1 DEF ChainBy
  <2>q. QED
    BY <2>1, <2>2 DEF Chain
<1>q. QED
  BY <1>1, <1>2

\* The first exception of a chain may be taken off,
LEMMA ChainHead ==
  ASSUME NEW p, NEW h, NEW g, NEW n \in Nat, n > 0, Chain(p, h, n, g)
  PROVE  Excepts(p, h) /\ Chain(p, Raise(p, h), n - 1, g) /\ h \in Harts /\ Raise(p, h) \in Harts
<1>1. PICK s \in [0 .. n -> Harts] : ChainBy(p, s, h, n, g)
  BY DEF Chain
<1>2. Excepts(p, h) /\ s[1] = Raise(p, h) /\ s[0] = h /\ s[n] = g
  BY <1>1 DEF ChainBy
<1> DEFINE t == [k \in 0 .. n - 1 |-> s[k + 1]]
<1>3. t \in [0 .. n - 1 -> Harts] /\ s[0] \in Harts /\ s[1] \in Harts
  OBVIOUS
<1>4. t[0] = Raise(p, h) /\ t[n - 1] = g
  BY <1>2
<1>5. ASSUME NEW k \in 0 .. (n - 1) - 1
      PROVE  Excepts(p, t[k]) /\ t[k + 1] = Raise(p, t[k])
  <2>1. k + 1 \in 0 .. n - 1 /\ t[k] = s[k + 1] /\ t[k + 1] = s[(k + 1) + 1]
    OBVIOUS
  <2>q. QED
    BY <1>1, <2>1 DEF ChainBy
<1> HIDE DEF t
<1>6. ChainBy(p, t, Raise(p, h), n - 1, g)
  BY <1>4, <1>5 DEF ChainBy
<1>q. QED
  BY <1>2, <1>3, <1>6 DEF Chain

\* and another put behind its last.
LEMMA ChainAppend ==
  ASSUME NEW p \in Programs, NEW h, NEW g, NEW n \in Nat, Chain(p, h, n, g), Excepts(p, g)
  PROVE  Chain(p, h, n + 1, Raise(p, g))
<1>1. PICK s \in [0 .. n -> Harts] : ChainBy(p, s, h, n, g)
  BY DEF Chain
<1>2. s[0] = h /\ s[n] = g /\ g \in Harts
  BY <1>1 DEF ChainBy
<1>3. Raise(p, g) \in Harts
  BY <1>2, RaiseType
<1> DEFINE t == [k \in 0 .. n + 1 |-> IF k = n + 1 THEN Raise(p, g) ELSE s[k]]
<1>4. t \in [0 .. n + 1 -> Harts]
  BY <1>3
<1>5. t[0] = h /\ t[n + 1] = Raise(p, g) /\ t[n] = g
  BY <1>2
<1>6. ASSUME NEW k \in 0 .. (n + 1) - 1
      PROVE  Excepts(p, t[k]) /\ t[k + 1] = Raise(p, t[k])
  <2>1. CASE k = n
    BY <1>5, <2>1
  <2>2. CASE k \in 0 .. n - 1
    <3>1. t[k] = s[k] /\ t[k + 1] = s[k + 1]
      BY <2>2
    <3>q. QED
      BY <1>1, <2>2, <3>1 DEF ChainBy
  <2>q. QED
    BY <2>1, <2>2
<1> HIDE DEF t
<1>7. ChainBy(p, t, h, n + 1, Raise(p, g))
  BY <1>5, <1>6 DEF ChainBy
<1>q. QED
  BY <1>4, <1>7 DEF Chain

LEMMA ChainType ==
  ASSUME NEW p, NEW h, NEW g, NEW n \in Nat, Chain(p, h, n, g)
  PROVE  h \in Harts /\ g \in Harts
BY DEF Chain, ChainBy

(***************************************************************************)
(* Interrupts: the one the core took is the one the reference takes when   *)
(* only its cause is injected; neither it nor an exception leaves an       *)
(* injected interrupt enabled that was not.                                *)
(***************************************************************************)
LEMMA OneCause ==
  ASSUME NEW p, NEW h, NEW pend \in SUBSET {MTI, SEI}, IntrEnabled(h, pend), NEW epc
  PROVE  /\ IntrEnabled(h, {IntrCause(h, pend)})
         /\ Interrupt(h, p, {IntrCause(h, pend)}, epc) = Interrupt(h, p, pend, epc)
         /\ IntrCause(h, {IntrCause(h, pend)}) = IntrCause(h, pend)
<1> DEFINE c == IntrCause(h, pend)
<1>0. MTI # SEI
  BY DEF MTI, SEI
<1>1. CASE ToM(h, pend)
  <2>1. c \in pend \ Mideleg
    BY <1>1 DEF IntrCause, ToM
  <2>2. ToM(h, {c})
    BY <1>1, <2>1 DEF ToM
  <2>3. IntrMode(h, {c}) = IntrMode(h, pend)
    BY <1>1, <2>2 DEF IntrMode
  <2>4. IntrCause(h, {c}) = c
    BY <1>0, <2>1, <2>2 DEF IntrCause
  <2>q. QED
    BY <2>2, <2>3, <2>4 DEF IntrEnabled, Interrupt
<1>2. CASE ~ToM(h, pend)
  <2>0. ToS(h, pend)
    BY <1>2 DEF IntrEnabled
  <2>1. c \in pend \cap Mideleg
    BY <1>2, <2>0 DEF IntrCause, ToS
  <2>2. ToS(h, {c}) /\ ~ToM(h, {c})
    BY <2>0, <2>1 DEF ToS, ToM
  <2>3. IntrMode(h, {c}) = IntrMode(h, pend)
    BY <1>2, <2>2 DEF IntrMode
  <2>4. IntrCause(h, {c}) = c
    BY <1>0, <2>1, <2>2 DEF IntrCause
  <2>q. QED
    BY <2>2, <2>3, <2>4 DEF IntrEnabled, Interrupt
<1>q. QED
  BY <1>1, <1>2

\* An interrupt that was taken is masked in its handler,
LEMMA InterruptDisables ==
  ASSUME NEW p \in Programs, NEW h \in Harts, NEW c \in {MTI, SEI}, IntrEnabled(h, {c}),
         NEW epc
  PROVE  ~IntrEnabled(Interrupt(h, p, {c}, epc), {c})
<1> DEFINE g == Interrupt(h, p, {c}, epc)
<1>0. ModeM # ModeS /\ ModeM # ModeU /\ ModeS # ModeU
  BY DEF ModeM, ModeS, ModeU
<1>1. CASE ToM(h, {c})
  <2>1. g.mode = ModeM /\ g.mie = FALSE
    BY <1>1 DEF Interrupt, IntrMode, Trap, Harts
  <2>q. QED
    BY <1>0, <2>1 DEF IntrEnabled, ToM, ToS
<1>2. CASE ~ToM(h, {c})
  <2>1. g.mode = ModeS /\ g.sie = FALSE
    BY <1>0, <1>2 DEF Interrupt, IntrMode, Trap, Harts
  <2>2. {c} \ Mideleg = {}
    BY <1>2 DEF IntrEnabled, ToS
  <2>q. QED
    BY <1>0, <2>1, <2>2 DEF IntrEnabled, ToM, ToS
<1>q. QED
  BY <1>1, <1>2

\* and an exception unmasks none.
LEMMA RaiseDisables ==
  ASSUME NEW p \in Programs, NEW h \in Harts, NEW pend, ~IntrEnabled(h, pend)
  PROVE  ~IntrEnabled(Raise(p, h), pend)
<1> DEFINE c == ExptCause(h, CodeAt(p, h.pc))
           g == Raise(p, h)
<1>0. ModeM # ModeS /\ ModeM # ModeU /\ ModeS # ModeU
  BY DEF ModeM, ModeS, ModeU
<1>1. CASE ExptMode(h, c) = ModeM
  <2>1. g.mode = ModeM /\ g.mie = FALSE
    BY <1>1 DEF Raise, Exception, Trap, Harts
  <2>q. QED
    BY <1>0, <2>1 DEF IntrEnabled, ToM, ToS
<1>2. CASE ExptMode(h, c) # ModeM
  <2>1. g.mode = ModeS /\ g.sie = FALSE
    BY <1>2 DEF Raise, Exception, Trap, Harts
  <2>2. h.mode # ModeM
    BY <1>2 DEF ExptMode
  <2>3. pend \ Mideleg = {}
    BY <2>2 DEF IntrEnabled, ToM
  <2>q. QED
    BY <1>0, <2>1, <2>3 DEF IntrEnabled, ToM, ToS
<1>q. QED
  BY <1>1, <1>2

(***************************************************************************)
(* Store masks and data: what compare_commit makes of them.                *)
(***************************************************************************)
\* The first lane of the mask the core shows for a write.
StoreLane(i) == IF i.op = "amo" THEN Lane(i.addr) ELSE 0
StoreMask(i) == StoreLane(i) .. StoreLane(i) + i.size - 1

\* The lanes that a retirement shows for a store make up a slot.
LEMMA StoreSlot ==
  ASSUME NEW i, WellFormed(i), IsWrite(i)
  PROVE  /\ Slot(StoreLane(i), i.size) /\ StoreLane(i) \in Int /\ i.size \in {1, 2, 4, 8}
         /\ StoreMask(i) # {} /\ StoreMask(i) \subseteq 0 .. 7
<1>1. Slot(Lane(i.addr), i.size) /\ Slot(0, i.size)
  BY AccessSlot DEF IsMem
<1>2. Slot(StoreLane(i), i.size)
  BY <1>1 DEF StoreLane
<1>3. \/ SlotOf1(StoreLane(i), i.size) \/ SlotOf2(StoreLane(i), i.size)
      \/ SlotOf4(StoreLane(i), i.size) \/ SlotOf8(StoreLane(i), i.size)
  BY <1>2, SlotCases
<1>4. StoreMask(i) \subseteq 0 .. 7
  BY <1>3 DEF StoreMask, SlotOf1, SlotOf2, SlotOf4, SlotOf8
<1>5. StoreLane(i) \in StoreMask(i)
  BY <1>2 DEF StoreMask, Slot
<1>q. QED
  BY <1>2, <1>4, <1>5 DEF Slot

\* Its data, read at that slot, is the value stored.
LEMMA StoreShape ==
  ASSUME NEW h \in Harts, NEW i, WellFormed(i), IsWrite(i), NEW g
  PROVE  /\ Retirement(h, i, g).mask = StoreMask(i)
         /\ Retirement(h, i, g).data \in Int
         /\ Extract(Retirement(h, i, g).data, StoreLane(i), i.size) = Stored(h, i) % 2^i.size
<1>1. Stored(h, i) \in Int /\ h.ram \in Int
  BY StoredType DEF Harts
<1>2. i.size \in {1, 2, 4, 8}
  BY StoreSlot
<1>3. CASE i.op = "amo"
  <2>1. Retirement(h, i, g).mask = retire_store_mask(i.size, i.addr)
    BY <1>3 DEF Retirement
  <2>2. StoreLane(i) = Lane(i.addr) /\ Lane(i.addr) \in Int /\ Slot(Lane(i.addr), i.size)
    BY <1>3, StoreSlot DEF StoreLane
  <2>3. retire_store_mask(i.size, i.addr) = StoreMask(i)
    <3>1. ASSUME NEW k \in StoreMask(i) PROVE k - Lane(i.addr) \in 0 .. i.size - 1
      BY <1>2, <2>2 DEF StoreMask
    <3>2. \A k \in StoreMask(i) : k = (k - Lane(i.addr)) + Lane(i.addr)
      BY <1>2, <2>2 DEF StoreMask
    <3>3. StoreMask(i) \subseteq retire_store_mask(i.size, i.addr)
      BY <3>1, <3>2 DEF retire_store_mask
    <3>4. retire_store_mask(i.size, i.addr) \subseteq StoreMask(i)
      BY <1>2, <2>2 DEF retire_store_mask, StoreMask
    <3>q. QED
      BY <3>3, <3>4
  <2>4. Retirement(h, i, g).data = Insert(h.ram, Lane(i.addr), i.size, Stored(h, i))
    BY <1>3 DEF Retirement
  <2>q. QED
    BY <1>1, <2>1, <2>2, <2>3, <2>4, InsertSlot
<1>4. CASE i.op # "amo"
  <2>1. /\ Retirement(h, i, g).mask = 0 .. i.size - 1
        /\ Retirement(h, i, g).data = Stored(h, i) /\ StoreLane(i) = 0
    BY <1>4 DEF Retirement, retire_arch_store_mask, StoreLane
  <2>2. Stored(h, i) \div 2^0 = Stored(h, i)
    BY <1>1
  <2>3. 0 + i.size - 1 = i.size - 1
    BY <1>2
  <2>4. StoreMask(i) = 0 .. i.size - 1
    BY <2>1, <2>3 DEF StoreMask
  <2>5. Extract(Stored(h, i), 0, i.size) = Stored(h, i) % 2^i.size
    BY <2>2 DEF Extract
  <2>q. QED
    BY <1>1, <2>1, <2>4, <2>5
<1>q. QED
  BY <1>3, <1>4

\* The harness finds slot and size in the mask (size_from_byte_mask,
\* first_set_lane).
LEMMA MaskSize ==
  ASSUME NEW i, WellFormed(i), IsWrite(i)
  PROVE  /\ Cardinality(StoreMask(i)) = i.size /\ IsFiniteSet(StoreMask(i))
         /\ size_from_byte_mask(StoreMask(i)) = i.size
         /\ first_set_lane(StoreMask(i)) = StoreLane(i)
<1>1. StoreLane(i) \in Int /\ i.size \in {1, 2, 4, 8} /\ StoreMask(i) # {}
  BY StoreSlot
<1>2. PICK b \in Int : b = StoreLane(i) + i.size - 1
  BY <1>1
<1>3. /\ IsFiniteSet(StoreLane(i) .. b)
      /\ Cardinality(StoreLane(i) .. b) = IF StoreLane(i) > b THEN 0 ELSE b - StoreLane(i) + 1
  BY <1>1, FS_Interval
<1>4. Cardinality(StoreMask(i)) = i.size /\ IsFiniteSet(StoreMask(i))
  BY <1>1, <1>2, <1>3 DEF StoreMask
<1>5. size_from_byte_mask(StoreMask(i)) = i.size
  BY <1>1, <1>4 DEF size_from_byte_mask
<1>6. StoreLane(i) \in StoreMask(i) /\ \A k \in StoreMask(i) : StoreLane(i) <= k
  BY <1>1 DEF StoreMask
<1>7. ASSUME NEW l \in StoreMask(i), \A k \in StoreMask(i) : l <= k
      PROVE  l = StoreLane(i)
  BY <1>1, <1>6, <1>7 DEF StoreMask
<1>8. (CHOOSE l \in StoreMask(i) : \A k \in StoreMask(i) : l <= k) = StoreLane(i)
  BY <1>6, <1>7
<1>9. first_set_lane(StoreMask(i)) = StoreLane(i)
  BY <1>1, <1>8 DEF first_set_lane
<1>q. QED
  BY <1>4, <1>5, <1>9

\* The low part compare_commit looks at is the slot.
LEMMA NormalizedSlot ==
  ASSUME NEW i, WellFormed(i), IsWrite(i), NEW data \in Int
  PROVE  Masked(normalize_rtl_store_data(data, StoreMask(i)), value_mask_for_size(i.size))
           = Extract(data, StoreLane(i), i.size)
<1>1. /\ i.size \in {1, 2, 4, 8} /\ Slot(StoreLane(i), i.size)
  BY StoreSlot
<1>2. (2^i.size - 1) + 1 = 2^i.size
  BY <1>1
<1>3. normalize_rtl_store_data(data, StoreMask(i)) = (data \div 2^StoreLane(i)) % 2^i.size
  BY <1>1, <1>2, MaskSize DEF normalize_rtl_store_data, Masked, value_mask_for_size
<1>4. Extract(data, StoreLane(i), i.size) % 2^i.size = Extract(data, StoreLane(i), i.size)
  BY <1>1, ExtractSlot
<1>q. QED
  BY <1>2, <1>3, <1>4 DEF Extract, Masked, value_mask_for_size

LEMMA MaskedStored ==
  ASSUME NEW i, WellFormed(i), IsWrite(i), NEW v
  PROVE  Masked(v, value_mask_for_size(i.size)) = v % 2^i.size
<1>1. i.size \in {1, 2, 4, 8}
  BY StoreSlot
<1>2. (2^i.size - 1) + 1 = 2^i.size
  BY <1>1
<1>q. QED
  BY <1>2 DEF Masked, value_mask_for_size

(***************************************************************************)
(* Retirements.                                                            *)
(***************************************************************************)
\* Instructions whose result the reference takes from the core.
Taken(i) == i.op = "time" \/ (IsLoad(i) /\ ~IsRam(i))

LEMMA DoesType ==
  ASSUME NEW h \in Harts, NEW i, WellFormed(i), NEW p, NEW g, Does(p, h, i, g)
  PROVE  g \in Harts
<1>1. PICK word \in DeviceWords, time \in Times :
        g = Execute(h, i, IsRam(i), IF IsRam(i) THEN h.ram ELSE word, time)
  BY DEF Does
<1>2. PICK w \in Int : w = IF IsRam(i) THEN h.ram ELSE word
  BY InputAssumption DEF Harts
<1>3. time \in Int
  BY InputAssumption
<1>q. QED
  BY <1>1, <1>2, <1>3, ExecuteType

\* What Complete puts into WB reports its instruction, rightly
LEMMA ReportsRight ==
  ASSUME NEW p \in Programs, NEW b \in Harts, ~Excepts(p, b), NEW g,
         CodeAt(p, b.pc).op = "sret" => b.mode # ModeM,
         Does(p, b, CodeAt(p, b.pc), g), NEW c, c = Retirement(b, CodeAt(p, b.pc), g)
  PROVE  Reports(p, b, c) /\ c.after = g
<1> DEFINE i == CodeAt(p, b.pc)
<1>1. WellFormed(i)
  BY CodeWellFormed
<1>2. g \in Harts
  BY <1>1, DoesType
<1>3. c \in Retirements /\ c.after = g
  BY <1>1, <1>2, RetirementType DEF Retirement
<1>q. QED
  BY <1>2, <1>3 DEF Reports, Runs, Right

\* or with an error.
LEMMA ReportsWrong ==
  ASSUME NEW p \in Programs, NEW b \in Harts, ~Excepts(p, b), NEW g,
         CodeAt(p, b.pc).op = "sret" => b.mode # ModeM,
         Does(p, b, CodeAt(p, b.pc), g), NEW d, d = Retirement(b, CodeAt(p, b.pc), g),
         NEW f \in Errors, CanErr(d, f), NEW c, c = Wrong(d, f)
  PROVE  Reports(p, b, c) /\ c.after = g /\ c.bad /\ c \in Retirements
<1> DEFINE i == CodeAt(p, b.pc)
<1>1. WellFormed(i)
  BY CodeWellFormed
<1>2. g \in Harts
  BY <1>1, DoesType
<1>3. d \in Retirements /\ d.after = g /\ d.mem_write = IsWrite(i)
  BY <1>1, <1>2, RetirementType DEF Retirement
<1>4. f = "data" => d.mask # {} /\ d.mask \subseteq 0 .. 7
  <2>1. SUFFICES ASSUME f = "data" PROVE d.mask # {} /\ d.mask \subseteq 0 .. 7
    OBVIOUS
  <2>2. IsWrite(i)
    BY <1>3, <2>1 DEF CanErr
  <2>q. QED
    BY <1>1, <2>2, StoreShape, StoreSlot
<1>5. c \in Retirements /\ c.bad = TRUE /\ c.after = g
  BY <1>3, <1>4, WrongType
<1>q. QED
  BY <1>2, <1>5 DEF Reports, Runs, WrongBy

LEMMA ReportsFacts ==
  ASSUME NEW p \in Programs, NEW b, NEW c, Reports(p, b, c)
  PROVE  /\ b \in Harts /\ c \in Retirements /\ c.after \in Harts /\ c # None
         /\ c.inst = CodeAt(p, b.pc)
         /\ c.bad \in BOOLEAN
         /\ ~c.bad => Right(p, b, c)
         /\ c.bad => \E f \in Errors : WrongBy(p, b, c, f)
<1> DEFINE i == CodeAt(p, b.pc)
           d == Retirement(b, i, c.after)
<1>1. b \in Harts /\ c \in Retirements /\ c.after \in Harts /\ WellFormed(i)
  BY CodeWellFormed DEF Reports, Runs
<1>2. c # None /\ c.bad \in BOOLEAN
  BY <1>1, NoneAssumption DEF Retirements
<1>3. d \in Retirements /\ d.inst = i /\ d.bad = FALSE /\ d.mem_write = IsWrite(i)
  BY <1>1, RetirementType DEF Retirement
<1>4. CASE Right(p, b, c)
  BY <1>1, <1>2, <1>3, <1>4 DEF Right
<1>5. CASE \E f \in Errors : WrongBy(p, b, c, f)
  <2>1. PICK f \in Errors : WrongBy(p, b, c, f)
    BY <1>5
  <2>2. f = "data" => d.mask # {} /\ d.mask \subseteq 0 .. 7
    <3>1. SUFFICES ASSUME f = "data" PROVE d.mask # {} /\ d.mask \subseteq 0 .. 7
      OBVIOUS
    <3>2. IsWrite(i)
      BY <1>3, <2>1, <3>1 DEF CanErr, WrongBy
    <3>q. QED
      BY <1>1, <3>2, StoreShape, StoreSlot
  <2>3. c = Wrong(d, f)
    BY <2>1 DEF WrongBy
  <2>4. c.bad = TRUE /\ c.inst = i
    <3> HIDE DEF d, i
    <3>1. Wrong(d, f).bad = TRUE /\ Wrong(d, f).inst = d.inst
      BY <1>3, <2>2, WrongType
    <3>2. d.inst = i
      BY <1>3
    <3>q. QED
      BY <2>3, <3>1, <3>2
  <2>5. ~c.bad => Right(p, b, c)
    BY <2>4
  <2>6. c.inst = i
    BY <2>4
  <2>q. QED
    BY <1>1, <1>2, <1>5, <2>5, <2>6, Zenon
<1>q. QED
  BY <1>4, <1>5 DEF Reports

(***************************************************************************)
(* compare_commit accepts the retirement the reference has executed, and   *)
(* none with an error.                                                     *)
(***************************************************************************)
LEMMA PrivShown ==
  ASSUME NEW p, NEW b \in Harts, ~Excepts(p, b), CodeAt(p, b.pc).op = "sret" => b.mode # ModeM
  PROVE  retire_priv(b, CodeAt(p, b.pc)) = b.mode
<1>1. b.mode \in {ModeU, ModeS, ModeM}
  BY DEF Harts, Modes
<1>2. CASE CodeAt(p, b.pc).op = "mret"
  BY <1>1, <1>2 DEF Excepts, ExptCause, retire_priv, NoCause
<1>3. CASE CodeAt(p, b.pc).op = "sret"
  BY <1>1, <1>3 DEF Excepts, ExptCause, retire_priv, NoCause
<1>4. CASE CodeAt(p, b.pc).op \notin {"mret", "sret"}
  BY <1>4 DEF retire_priv
<1>q. QED
  BY <1>2, <1>3, <1>4

\* compare_commit accepts a right report of a reference that did the same,
LEMMA RightAccepted ==
  ASSUME NEW p \in Programs, NEW b, NEW c, Reports(p, b, c), Right(p, b, c), NEW r,
         r.before = b, r.inst = CodeAt(p, b.pc), r.h = c.after
  PROVE  compare_commit(c, RefCommit(r))
<1> DEFINE i == CodeAt(p, b.pc)
           s == RefCommit(r)
<1>1. WellFormed(i) /\ b \in Harts
  BY CodeWellFormed, ReportsFacts
<1>2. /\ c.pc = b.pc /\ c.priv = retire_priv(b, i) /\ c.rd_we = WritesRd(i)
      /\ c.rd = (IF WritesRd(i) THEN 1 ELSE 0) /\ c.rd_data = (IF WritesRd(i) THEN c.after.x ELSE 0)
      /\ c.mem_valid = IsMem(i) /\ c.mem_write = IsWrite(i) /\ c.va = i.addr
      /\ c.pa = (IF IsMem(i) THEN Pa(i) ELSE 0)
  BY DEF Right, Retirement
<1>3. /\ s.pc = b.pc /\ s.priv = b.mode /\ s.rd_we = WritesRd(i)
      /\ s.rd = (IF WritesRd(i) THEN 1 ELSE 0) /\ s.rd_data = (IF WritesRd(i) THEN c.after.x ELSE 0)
      /\ s.mem_valid = IsMem(i) /\ s.mem_write = IsWrite(i) /\ s.va = i.addr
      /\ s.pa = (IF IsMem(i) THEN Pa(i) ELSE 0) /\ s.size = i.size
      /\ IsWrite(i) => s.data = Stored(b, i)
  BY DEF RefCommit
<1>4. c.priv = s.priv
  BY <1>1, <1>2, <1>3, PrivShown DEF Reports, Runs
<1>5. ASSUME IsWrite(i)
      PROVE  /\ size_from_byte_mask(c.mask) = s.size
             /\ Masked(normalize_rtl_store_data(c.data, c.mask), value_mask_for_size(s.size))
                  = Masked(s.data, value_mask_for_size(s.size))
  <2>1. /\ c.mask = StoreMask(i) /\ c.data \in Int
        /\ Extract(c.data, StoreLane(i), i.size) = Stored(b, i) % 2^i.size
    BY <1>1, <1>5, StoreShape DEF Right
  <2>2. size_from_byte_mask(c.mask) = i.size
    BY <1>1, <1>5, <2>1, MaskSize
  <2>3. Masked(normalize_rtl_store_data(c.data, c.mask), value_mask_for_size(i.size))
          = Extract(c.data, StoreLane(i), i.size)
    BY <1>1, <1>5, <2>1, NormalizedSlot
  <2>4. Masked(s.data, value_mask_for_size(i.size)) = Stored(b, i) % 2^i.size
    BY <1>1, <1>3, <1>5, MaskedStored
  <2>q. QED
    BY <1>3, <2>1, <2>2, <2>3, <2>4
<1> HIDE DEF s, i
<1>q. QED
  BY <1>2, <1>3, <1>4, <1>5 DEF compare_commit, s

\* and rejects every wrong one.
LEMMA WrongRejected ==
  ASSUME NEW p \in Programs, NEW b, NEW c, Reports(p, b, c), NEW f \in Errors, WrongBy(p, b, c, f),
         NEW r, r.before = b, r.inst = CodeAt(p, b.pc), ~Taken(CodeAt(p, b.pc)) => r.h = c.after
  PROVE  ~compare_commit(c, RefCommit(r))
<1> DEFINE i == CodeAt(p, b.pc)
           s == RefCommit(r)
           d == Retirement(b, i, c.after)
<1>1. /\ WellFormed(i) /\ b \in Harts /\ c.after \in Harts /\ b.pc \in Int /\ c.after.x \in Int
      /\ i.addr \in Int
  <2>1. WellFormed(i) /\ b \in Harts /\ c.after \in Harts
    BY CodeWellFormed, ReportsFacts
  <2>q. QED
    BY <2>1 DEF Harts, WellFormed, Insts
<1>2. /\ d \in Retirements /\ d.inst = i
      /\ d.pc = b.pc /\ d.priv = retire_priv(b, i) /\ d.rd_we = WritesRd(i)
      /\ d.rd = (IF WritesRd(i) THEN 1 ELSE 0) /\ d.rd_data = (IF WritesRd(i) THEN c.after.x ELSE 0)
      /\ d.mem_valid = IsMem(i) /\ d.mem_write = IsWrite(i) /\ d.va = i.addr
      /\ d.pa = (IF IsMem(i) THEN Pa(i) ELSE 0)
  BY <1>1, RetirementType DEF Retirement
<1>3. /\ s.pc = b.pc /\ s.priv = b.mode /\ s.rd_we = WritesRd(i)
      /\ s.rd = (IF WritesRd(i) THEN 1 ELSE 0) /\ s.rd_data = (IF WritesRd(i) THEN r.h.x ELSE 0)
      /\ s.mem_valid = IsMem(i) /\ s.mem_write = IsWrite(i) /\ s.va = i.addr
      /\ s.pa = (IF IsMem(i) THEN Pa(i) ELSE 0) /\ s.size = i.size
      /\ IsWrite(i) => s.data = Stored(b, i)
  BY DEF RefCommit
<1>4. CanErr(d, f) /\ c = Wrong(d, f)
  BY DEF WrongBy
<1>5. d.priv = b.mode
  BY <1>1, <1>2, PrivShown DEF Reports, Runs
<1>6. IsWrite(i) => IsMem(i)
  BY DEF IsMem
<1>7. IsMem(i) => Pa(i) \in Int
  BY <1>1, AccessSlot
<1>8. IsWrite(i) => /\ d.mask = StoreMask(i) /\ d.data \in Int
                    /\ Extract(d.data, StoreLane(i), i.size) = Stored(b, i) % 2^i.size
  BY <1>1, StoreShape
<1> HIDE DEF s, d, i
<1>9. CASE f = "pc"
  <2>1. c.pc = b.pc + 1
    BY <1>2, <1>4, <1>9 DEF Wrong, Retirements
  <2>q. QED
    BY <1>1, <1>3, <2>1 DEF compare_commit, s
<1>10. CASE f = "priv"
  <2>1. c.priv = IF b.mode = ModeM THEN ModeS ELSE ModeM
    BY <1>2, <1>4, <1>5, <1>10 DEF Wrong, Retirements
  <2>2. c.priv # b.mode
    BY <2>1 DEF ModeM, ModeS
  <2>q. QED
    BY <1>3, <2>2 DEF compare_commit, s
<1>11. CASE f = "rd_we"
  <2>1. c.rd_we = ~d.rd_we
    BY <1>2, <1>4, <1>11 DEF Wrong, Retirements
  <2>2. c.rd_we # s.rd_we
    BY <1>2, <1>3, <2>1
  <2>q. QED
    BY <2>2 DEF compare_commit, s
<1>12. CASE f = "rd"
  <2>1. c.rd = 2 /\ c.rd_we = d.rd_we
    BY <1>2, <1>4, <1>12 DEF Wrong, Retirements
  <2>2. d.rd_we
    BY <1>4, <1>12 DEF CanErr
  <2>3. s.rd = 1
    BY <1>2, <1>3, <2>2
  <2>q. QED
    BY <2>1, <2>2, <2>3 DEF compare_commit, s
<1>13. CASE f = "rd_data"
  <2>1. c.rd_data = (d.rd_data + 1) % 2^WordSize /\ c.rd_we = d.rd_we
    BY <1>2, <1>4, <1>13 DEF Wrong, Retirements
  <2>2. d.rd_we /\ ~Authoritative(d)
    BY <1>4, <1>13 DEF CanErr
  <2>3. ~Taken(i)
    <3>1. CASE i.op = "time"
      BY <1>2, <2>2, <3>1 DEF Authoritative
    <3>2. CASE IsLoad(i) /\ ~IsRam(i)
      <4>1. IsMem(i) /\ ~(Pa(i) >= RamBase)
        BY <3>2 DEF IsRam, IsMem
      <4>2. d.pa < RamBase
        BY <1>2, <1>7, <4>1, InputAssumption
      <4>q. QED
        BY <1>2, <2>2, <3>2, <4>2 DEF Authoritative
    <3>q. QED
      BY <3>1, <3>2 DEF Taken
  <2>4. d.rd_data = c.after.x /\ s.rd_data = c.after.x
    BY <1>2, <1>3, <2>2, <2>3 DEF i
  <2>5. c.rd_data # s.rd_data
    BY <1>1, <2>1, <2>4 DEF WordSize
  <2>q. QED
    BY <2>1, <2>2, <2>5 DEF compare_commit, s
<1>14. CASE f = "mem_valid"
  <2>1. c.mem_valid = ~d.mem_valid
    BY <1>2, <1>4, <1>14 DEF Wrong, Retirements
  <2>2. c.mem_valid # s.mem_valid
    BY <1>2, <1>3, <2>1
  <2>q. QED
    BY <2>2 DEF compare_commit, s
<1>15. CASE f = "mem_write"
  <2>1. c.mem_write = ~d.mem_write /\ c.mem_valid = d.mem_valid
    BY <1>2, <1>4, <1>15 DEF Wrong, Retirements
  <2>2. d.mem_valid
    BY <1>4, <1>15 DEF CanErr
  <2>3. c.mem_write # s.mem_write
    BY <1>2, <1>3, <2>1
  <2>q. QED
    BY <2>1, <2>2, <2>3 DEF compare_commit, s
<1>16. CASE f = "va"
  <2>1. c.va = d.va + 1 /\ c.mem_valid = d.mem_valid
    BY <1>2, <1>4, <1>16 DEF Wrong, Retirements
  <2>2. d.mem_valid
    BY <1>4, <1>16 DEF CanErr
  <2>3. c.va # s.va
    BY <1>1, <1>2, <1>3, <2>1
  <2>q. QED
    BY <2>1, <2>2, <2>3 DEF compare_commit, s
<1>17. CASE f = "pa"
  <2>1. c.pa = d.pa + 1 /\ c.mem_valid = d.mem_valid
    BY <1>2, <1>4, <1>17 DEF Wrong, Retirements
  <2>2. d.mem_valid
    BY <1>4, <1>17 DEF CanErr
  <2>3. c.pa # s.pa
    BY <1>2, <1>3, <1>7, <2>1, <2>2
  <2>q. QED
    BY <2>1, <2>2, <2>3 DEF compare_commit, s
<1>18. CASE f = "mask"
  <2>1. /\ c.mask = d.mask \ {CHOOSE l \in d.mask : TRUE}
        /\ c.mem_valid = d.mem_valid /\ c.mem_write = d.mem_write
    BY <1>2, <1>4, <1>18 DEF Wrong, Retirements
  <2>2. IsWrite(i) /\ c.mem_write /\ c.mem_valid
    BY <1>2, <1>4, <1>6, <1>18, <2>1 DEF CanErr
  <2>3. PICK l \in StoreMask(i) : c.mask = StoreMask(i) \ {l}
    BY <1>1, <1>8, <2>1, <2>2, StoreSlot
  <2>4. /\ i.size \in {1, 2, 4, 8}
        /\ Cardinality(StoreMask(i)) = i.size /\ IsFiniteSet(StoreMask(i))
    BY <1>1, <2>2, MaskSize, StoreSlot
  <2>5. Cardinality(c.mask) = i.size - 1
    BY <2>3, <2>4, FS_RemoveElement
  <2>6. size_from_byte_mask(c.mask) # i.size
    BY <2>4, <2>5 DEF size_from_byte_mask
  <2>q. QED
    BY <1>3, <2>2, <2>6 DEF compare_commit, s
<1>19. CASE f = "data"
  <2>1. /\ c.data = (d.data + 2^(CHOOSE l \in d.mask : TRUE)) % 2^WordSize
        /\ c.mask = d.mask /\ c.mem_valid = d.mem_valid /\ c.mem_write = d.mem_write
    BY <1>2, <1>4, <1>19 DEF Wrong, Retirements
  <2>2. IsWrite(i) /\ c.mem_write /\ c.mem_valid
    BY <1>2, <1>4, <1>6, <1>19, <2>1 DEF CanErr
  <2>3. PICK l \in StoreMask(i) : c.data = (d.data + 2^l) % 2^WordSize
    BY <1>1, <1>8, <2>1, <2>2, StoreSlot
  <2>4. Extract(c.data, StoreLane(i), i.size) # Stored(b, i) % 2^i.size
    <3>1. Slot(StoreLane(i), i.size) /\ l \in StoreLane(i) .. StoreLane(i) + i.size - 1
      BY <1>1, <2>2, StoreSlot DEF StoreMask
    <3>q. QED
      BY <1>8, <2>2, <2>3, <3>1, FlipSlot
  <2>5. c.data \in Int
    BY ReportsFacts DEF Retirements
  <2>6. Masked(normalize_rtl_store_data(c.data, c.mask), value_mask_for_size(i.size))
          = Extract(c.data, StoreLane(i), i.size)
    BY <1>1, <1>8, <2>1, <2>2, <2>5, NormalizedSlot
  <2>7. Masked(s.data, value_mask_for_size(i.size)) = Stored(b, i) % 2^i.size
    BY <1>1, <1>3, <2>2, MaskedStored
  <2>8. s.mem_write /\ s.size = i.size
    BY <1>3, <2>2
  <2>q. QED
    BY <2>2, <2>4, <2>6, <2>7, <2>8 DEF compare_commit, s
<1>q. QED
  BY <1>9, <1>10, <1>11, <1>12, <1>13, <1>14, <1>15, <1>16, <1>17, <1>18, <1>19, ErrorsAssumption

(***************************************************************************)
(* The reference: what a step does in each of its cases.                   *)
(***************************************************************************)
Refs ==
  [h : Harts, dev : Int, mip : SUBSET {MTI, SEI}, trapped : BOOLEAN, interrupted : BOOLEAN,
   cause : Int, retired : BOOLEAN, inst : Insts, before : Harts]

LEMMA CodeIs == ASSUME NEW pc PROVE Code(pc) = CodeAt(prog, pc)
BY DEF Code, CodeAt

LEMMA TrapTarget ==
  ASSUME NEW p, NEW h \in Harts, NEW mode, NEW isIntr, NEW c, NEW epc
  PROVE  Trap(h, p, mode, isIntr, c, epc).pc \in {Vector(p.mtvec, isIntr, c), Vector(p.stvec, isIntr, c)}
BY DEF Trap, Harts

\* What singleStep does with an enabled interrupt,
LEMMA StepInterrupt ==
  ASSUME prog \in Programs, NEW q \in Refs, IntrEnabled(q.h, q.mip), NEW r \in singleStep(q)
  PROVE  /\ r \in Refs /\ r.h = Interrupt(q.h, prog, q.mip, q.h.pc)
         /\ r.interrupted = TRUE /\ r.cause = IntrCause(q.h, q.mip) /\ r.retired = FALSE
         /\ non_retiring_event(r)
<1> DEFINE i == Code(q.h.pc)
           g == Interrupt(q.h, prog, q.mip, q.h.pc)
           c == IntrCause(q.h, q.mip)
<1>1. i \in Insts /\ q.h \in Harts /\ q.h.pc \in Int
  <2>1. i \in Insts
    BY CodeWellFormed, CodeIs DEF WellFormed
  <2>q. QED
    BY <2>1 DEF Refs, Harts
<1>2. g \in Harts /\ c \in {MTI, SEI}
  BY <1>1, InterruptType
<1>3. r = trap_step(q, i, g, TRUE, c)
  BY DEF singleStep
<1>4. c \in Int
  BY <1>2 DEF MTI, SEI
<1> HIDE DEF i, g, c
<1>t. r = [q EXCEPT !.h = g, !.trapped = FALSE, !.interrupted = TRUE, !.cause = c,
                    !.retired = FALSE, !.inst = i, !.before = q.h]
  BY <1>3 DEF trap_step
<1>5. r \in Refs /\ r.h = g /\ r.interrupted = TRUE /\ r.cause = c /\ r.retired = FALSE
  BY <1>1, <1>2, <1>4, <1>t DEF Refs
<1>6. g.pc \in {Vector(prog.mtvec, TRUE, c), Vector(prog.stvec, TRUE, c)}
  BY <1>1, TrapTarget DEF g, c, Interrupt
<1>7. non_retiring_event(r)
  BY <1>5, <1>6 DEF non_retiring_event, entered_mtvec, entered_stvec, trap_target
<1>q. QED
  BY <1>5, <1>7 DEF g, c

\* with an instruction that traps
LEMMA StepException ==
  ASSUME prog \in Programs, NEW q \in Refs, ~IntrEnabled(q.h, q.mip), Excepts(prog, q.h),
         NEW r \in singleStep(q)
  PROVE  /\ r \in Refs /\ r.h = Raise(prog, q.h) /\ r.interrupted = FALSE /\ r.retired = FALSE
         /\ non_retiring_event(r)
<1> DEFINE i == Code(q.h.pc)
           g == Exception(q.h, prog, i)
           c == ExptCause(q.h, i)
<1>1. i \in Insts /\ q.h \in Harts /\ q.h.pc \in Int /\ i = CodeAt(prog, q.h.pc)
  <2>1. i \in Insts
    BY CodeWellFormed, CodeIs DEF WellFormed
  <2>q. QED
    BY <2>1, CodeIs DEF Refs, Harts
<1>2. g = Raise(prog, q.h) /\ g \in Harts /\ c \in Int /\ c # NoCause
  BY <1>1, RaiseType, CauseType DEF Raise, Excepts
<1>3. r = trap_step(q, i, g, FALSE, c)
  BY <1>2 DEF singleStep
<1>6. g.pc \in {Vector(prog.mtvec, FALSE, c), Vector(prog.stvec, FALSE, c)}
  BY <1>1, TrapTarget DEF Exception
<1> HIDE DEF i, g, c
<1>5. r \in Refs /\ r.h = g /\ r.interrupted = FALSE /\ r.trapped = TRUE /\ r.cause = c /\ r.retired = FALSE
  <2>1. r = [q EXCEPT !.h = g, !.trapped = TRUE, !.interrupted = FALSE, !.cause = c,
                      !.retired = FALSE, !.inst = i, !.before = q.h]
    BY <1>3 DEF trap_step
  <2>q. QED
    BY <1>1, <1>2, <2>1 DEF Refs
<1>7. non_retiring_event(r)
  BY <1>5, <1>6 DEF non_retiring_event, entered_mtvec, entered_stvec, trap_target
<1>q. QED
  BY <1>2, <1>5, <1>7

\* and with one that completes.
LEMMA StepExecute ==
  ASSUME prog \in Programs, NEW q \in Refs, ~IntrEnabled(q.h, q.mip), ~Excepts(prog, q.h),
         NEW r \in singleStep(q)
  PROVE  LET i == CodeAt(prog, q.h.pc) IN
         /\ r \in Refs /\ r.retired = TRUE /\ r.before = q.h /\ r.inst = i
         /\ \E time \in Times :
              r.h = Execute(q.h, i, IsRam(i), IF IsRam(i) THEN q.h.ram ELSE q.dev, time)
<1> DEFINE i == Code(q.h.pc)
           word == IF IsRam(i) THEN q.h.ram ELSE q.dev
           dev == IF IsWrite(i) /\ ~IsRam(i)
                  THEN Insert(q.dev, Lane(i.addr), i.size, Stored(q.h, i)) ELSE q.dev
<1>1. /\ i \in Insts /\ WellFormed(i) /\ q.h \in Harts /\ q.h.ram \in Int /\ q.dev \in Int
      /\ i = CodeAt(prog, q.h.pc)
  <2>1. WellFormed(i) /\ i \in Insts
    BY CodeWellFormed, CodeIs DEF WellFormed
  <2>q. QED
    BY <2>1, CodeIs DEF Refs, Harts
<1>2. ExptCause(q.h, i) = NoCause
  BY <1>1 DEF Excepts
<1>3. word \in Int
  BY <1>1
<1>4. dev \in Int
  <2>1. IsWrite(i) => Insert(q.dev, Lane(i.addr), i.size, Stored(q.h, i)) \in Int
    BY <1>1, StoredType, AccessSlot, InsertSlot DEF IsMem
  <2>q. QED
    BY <1>1, <2>1
<1>5. singleStep(q) = {retire_step(q, i, time, stale) : time \in Times, stale \in BOOLEAN}
  BY <1>2 DEF singleStep
<1>6. PICK time \in Times, stale \in BOOLEAN : r = retire_step(q, i, time, stale)
  BY <1>5
<1>7. PICK g \in Harts : g = Execute(q.h, i, IsRam(i), word, time)
  BY <1>1, <1>3, ExecuteType, InputAssumption
<1>8. PICK t \in BOOLEAN, u \in BOOLEAN : t = (q.trapped /\ stale) /\ u = (q.interrupted /\ stale)
  OBVIOUS
<1>9. r = [q EXCEPT !.h = g, !.dev = dev, !.trapped = t, !.interrupted = u, !.retired = TRUE,
                    !.inst = i, !.before = q.h]
  <2> HIDE DEF i
  <2>q. QED
    BY <1>6, <1>7, <1>8 DEF Refs, retire_step
<1> HIDE DEF dev, i, word
<1>10. r \in Refs /\ r.retired = TRUE /\ r.before = q.h /\ r.inst = i /\ r.h = g
  BY <1>1, <1>4, <1>7, <1>9 DEF Refs
<1>q. QED
  BY <1>1, <1>7, <1>10 DEF word

(***************************************************************************)
(* What step() makes of the reference besides Whisper's own step: the      *)
(* injected bits, the device word the core has read, the time it has read, *)
(* the return address of an interrupt taken at a WFI.                      *)
(***************************************************************************)
\* The interrupt bits that are injected.
Mips(m, s) == (IF m THEN {MTI} ELSE {}) \cup (IF s THEN {SEI} ELSE {})
Seeded(r, c, m, s) == seed_mmio_read(synchronize_interrupts(r, m, s), c)

LEMMA LanePower ==
  ASSUME NEW lane \in 0 .. 7 PROVE 2^lane \in Nat /\ 2^lane > 0
<1>0. CASE lane = 0
  BY <1>0
<1>1. CASE lane = 1
  BY <1>1
<1>2. CASE lane = 2
  BY <1>2
<1>3. CASE lane = 3
  BY <1>3
<1>4. CASE lane = 4
  BY <1>4
<1>5. CASE lane = 5
  BY <1>5
<1>6. CASE lane = 6
  BY <1>6
<1>7. CASE lane = 7
  BY <1>7
<1>q. QED
  BY <1>0, <1>1, <1>2, <1>3, <1>4, <1>5, <1>6, <1>7

LEMMA InsertType ==
  ASSUME NEW w \in Int, NEW lane \in 0 .. 7, NEW size \in {1, 2, 4, 8}, NEW v \in Int
  PROVE  Insert(w, lane, size, v) % 2^WordSize \in Int
<1>1. PICK a \in Nat : a = 2^lane /\ a > 0
  BY LanePower
<1>2. PICK b \in Nat : b = 2^size /\ b > 0
  <2>1. CASE size = 1
    BY <2>1
  <2>2. CASE size = 2
    BY <2>2
  <2>4. CASE size = 4
    BY <2>4
  <2>8. CASE size = 8
    BY <2>8
  <2>q. QED
    BY <2>1, <2>2, <2>4, <2>8
<1>3. PICK u \in Int : u = (w \div a) % b
  BY <1>1, <1>2
<1>4. v % b \in Int
  BY <1>2
<1>5. ((v % b) - u) * a \in Int
  BY <1>1, <1>3, <1>4
<1>6. Insert(w, lane, size, v) \in Int
  BY <1>1, <1>2, <1>3, <1>5 DEF Insert, Extract
<1>q. QED
  BY <1>6 DEF WordSize

\* Injection and seeding leave the state of the reference alone.
LEMMA SeedType ==
  ASSUME NEW r \in Refs, NEW c \in Retirements, WellFormed(c.inst), NEW m \in BOOLEAN,
         NEW s \in BOOLEAN, is_mmio_read(c) => scalar_load_size(c.inst) # 0
  PROVE  /\ Seeded(r, c, m, s) \in Refs
         /\ Seeded(r, c, m, s).h = r.h /\ Seeded(r, c, m, s).mip = Mips(m, s)
<1>1. PICK x : x = synchronize_interrupts(r, m, s)
  OBVIOUS
<1>2. PICK bits \in SUBSET {MTI, SEI} : bits = Mips(m, s)
  BY DEF Mips
<1>3. x = [r EXCEPT !.mip = bits]
  BY <1>1, <1>2 DEF synchronize_interrupts, Mips
<1>4. x \in Refs /\ x.h = r.h /\ x.mip = bits /\ x.dev = r.dev /\ r.dev \in Int
  BY <1>3 DEF Refs
<1>5. CASE is_mmio_read(c)
  <2>1. IsLoad(c.inst) /\ scalar_load_size(c.inst) = c.inst.size
    BY <1>5 DEF scalar_load_size
  <2>2. c.inst.size \in {1, 2, 4, 8}
    BY <2>1 DEF WellFormed, WithinWord, IsMem
  <2>3. c.pa \in Int /\ c.rd_data \in Int
    BY DEF Retirements
  <2>4. Lane(c.pa) \in 0 .. 7
    BY <2>3 DEF Lane, WordSize
  <2>5. PICK d \in Int : d = Insert(x.dev, Lane(c.pa), scalar_load_size(c.inst), c.rd_data) % 2^WordSize
    BY <1>4, <2>1, <2>2, <2>3, <2>4, InsertType
  <2>6. Seeded(r, c, m, s) = [x EXCEPT !.dev = d]
    BY <1>1, <1>5, <2>5 DEF Seeded, seed_mmio_read
  <2>q. QED
    BY <1>2, <1>4, <2>6 DEF Refs
<1>6. CASE ~is_mmio_read(c)
  <2>1. Seeded(r, c, m, s) = x
    BY <1>1, <1>6 DEF Seeded, seed_mmio_read
  <2>q. QED
    BY <1>2, <1>4, <2>1
<1>q. QED
  BY <1>5, <1>6

\* Inputs matter only through the result.
LEMMA ExecuteSame ==
  ASSUME NEW h, NEW i, NEW ram, NEW w1, NEW t1, NEW w2, NEW t2,
         WritesRd(i) => Result(h, i, w1, t1) = Result(h, i, w2, t2)
  PROVE  Execute(h, i, ram, w1, t1) = Execute(h, i, ram, w2, t2)
<1>1. CASE WritesRd(i)
  BY <1>1 DEF Execute
<1>2. CASE ~WritesRd(i)
  BY <1>2 DEF Execute
<1>q. QED
  BY <1>1, <1>2

\* With the result replaced, inputs do not matter at all (synchronize_time).
LEMMA ExecuteX ==
  ASSUME NEW h \in Harts, NEW i, WellFormed(i), NEW w \in Int, NEW t1 \in Int, NEW t2 \in Int,
         WritesRd(i)
  PROVE  LET g == Execute(h, i, IsRam(i), w, t2)
         IN  /\ g.x = Result(h, i, w, t2)
             /\ [Execute(h, i, IsRam(i), w, t1) EXCEPT !.x = g.x] = g
<1>1. PICK k \in Harts : k = Csrs(h, i)
  BY CsrsType
<1> DEFINE pc == NextPc(h, i)
           ram == IF IsWrite(i) /\ IsRam(i) THEN Insert(k.ram, Lane(i.addr), i.size, Stored(h, i)) ELSE k.ram
<1>2. ASSUME NEW t \in Int
      PROVE  Execute(h, i, IsRam(i), w, t) = [k EXCEPT !.pc = pc, !.x = Result(h, i, w, t), !.ram = ram]
  BY <1>1 DEF Execute, Harts
<1> HIDE DEF pc, ram
<1>3. k = [f \in DOMAIN k |-> k[f]] /\ {"pc", "x", "ram"} \subseteq DOMAIN k
  BY <1>1 DEF Harts
<1>4. PICK v1, v2 : v1 = Result(h, i, w, t1) /\ v2 = Result(h, i, w, t2)
  OBVIOUS
<1>5. PICK e1, e2 : e1 = Execute(h, i, IsRam(i), w, t1) /\ e2 = Execute(h, i, IsRam(i), w, t2)
  OBVIOUS
<1>6. /\ e1 = [k EXCEPT !.pc = pc, !.x = v1, !.ram = ram]
      /\ e2 = [k EXCEPT !.pc = pc, !.x = v2, !.ram = ram]
  BY <1>2, <1>4, <1>5
<1>7. e2.x = v2 /\ [e1 EXCEPT !.x = v2] = e2
  BY <1>3, <1>6
<1>q. QED
  BY <1>4, <1>5, <1>7

\* A device word seeded with what the core's load shows gives that load.
LEMMA SeedValue ==
  ASSUME NEW p \in Programs, NEW b, NEW c, Reports(p, b, c), Right(p, b, c),
         NEW r \in Refs, NEW m, NEW s, NEW time \in Times,
         IsLoad(CodeAt(p, b.pc)), ~IsRam(CodeAt(p, b.pc))
  PROVE  c.after = Execute(b, CodeAt(p, b.pc), IsRam(CodeAt(p, b.pc)), Seeded(r, c, m, s).dev, time)
<1>1. PICK i : i = CodeAt(p, b.pc)
  OBVIOUS
<1>2. /\ WellFormed(i) /\ b \in Harts /\ is_rtl_mmio_address(Pa(i)) /\ c.inst = i /\ IsLoad(i)
      /\ ~IsRam(i) /\ IsMem(i) /\ WritesRd(i) /\ ~IsWrite(i)
  BY <1>1, CodeWellFormed, ReportsFacts DEF IsMem, IsLoad, WritesRd, IsWrite
<1>3. /\ c.mem_valid = IsMem(i) /\ c.mem_write = IsWrite(i)
      /\ c.pa = (IF IsMem(i) THEN Pa(i) ELSE 0)
      /\ c.rd_data = (IF WritesRd(i) THEN c.after.x ELSE 0)
  BY <1>1 DEF Right, Retirement
<1>4. PICK word \in DeviceWords, t \in Times : c.after = Execute(b, i, IsRam(i), word, t)
  BY <1>1, <1>2 DEF Reports, Runs, Does
<1>5. word \in Int /\ t \in Int /\ time \in Int
  BY InputAssumption
<1>6. c.after.x = Result(b, i, word, t)
  BY <1>2, <1>4, <1>5, ExecuteX
<1>7. PICK lane, size : lane = Lane(i.addr) /\ size = i.size
  OBVIOUS
<1>8. Slot(lane, size) /\ Lane(c.pa) = lane /\ scalar_load_size(i) = size
  BY <1>2, <1>3, <1>7, AccessSlot DEF scalar_load_size
<1>9. PICK dev \in Int : dev = r.dev
  BY DEF Refs
<1>10. PICK v \in Int : v = c.rd_data
  BY <1>2, <1>3, <1>5, <1>6, ResultType
<1>11. Seeded(r, c, m, s).dev = Insert(dev, lane, size, v) % 2^WordSize
  <2>1. is_mmio_read(c)
    BY <1>2, <1>3 DEF is_mmio_read
  <2>2. synchronize_interrupts(r, m, s).dev = dev
    BY <1>9 DEF synchronize_interrupts, Refs
  <2>3. DOMAIN synchronize_interrupts(r, m, s) = DOMAIN r /\ "dev" \in DOMAIN r
    BY DEF synchronize_interrupts, Refs
  <2>q. QED
    BY <1>2, <1>8, <1>10, <2>1, <2>2, <2>3 DEF Seeded, seed_mmio_read
<1>12. PICK d : d = Seeded(r, c, m, s).dev
  OBVIOUS
<1>13. Extract(d, lane, size) = v % 2^size
  BY <1>8, <1>11, <1>12, InsertSlot
<1>14. v = Extract(word, lane, size) \/ v = SignExtend(Extract(word, lane, size), size)
  BY <1>2, <1>3, <1>6, <1>7, <1>10 DEF Result, IsLoad
<1>15. v % 2^size = Extract(word, lane, size)
  BY <1>5, <1>8, <1>14, ExtractSlot
<1>16. Result(b, i, d, time) = Result(b, i, word, t)
  BY <1>2, <1>7, <1>13, <1>15 DEF Result, IsLoad
<1>q. QED
  BY <1>1, <1>4, <1>12, <1>16, ExecuteSame

\* The reference's own step, with what step() adds to it, does what the core
\* did, unless it takes a wrong value from the core.
LEMMA StepSame ==
  ASSUME prog \in Programs, NEW b, NEW c, Reports(prog, b, c),
         NEW q \in Refs, NEW m, NEW s, NEW r0 \in Refs, q = Seeded(r0, c, m, s), q.h = b,
         ~IntrEnabled(q.h, q.mip), NEW r \in singleStep(q),
         Right(prog, b, c) \/ ~Taken(CodeAt(prog, b.pc))
  PROVE  synchronize_time(r, c).h = c.after
<1>1. PICK i : i = CodeAt(prog, b.pc)
  OBVIOUS
<1>2. WellFormed(i) /\ b \in Harts /\ c.inst = i /\ b.ram \in Int /\ q.dev \in Int
  BY <1>1, CodeWellFormed, ReportsFacts DEF Harts, Refs
<1>3. r \in Refs /\ \E time \in Times : r.h = Execute(b, i, IsRam(i), IF IsRam(i) THEN b.ram ELSE q.dev, time)
  <2>1. ~Excepts(prog, q.h)
    BY DEF Reports, Runs
  <2>q. QED
    BY <1>1, <2>1, StepExecute
<1>4. PICK t1 \in Times : r.h = Execute(b, i, IsRam(i), IF IsRam(i) THEN b.ram ELSE q.dev, t1)
  BY <1>3
<1>5. PICK word \in DeviceWords, t2 \in Times :
        c.after = Execute(b, i, IsRam(i), IF IsRam(i) THEN b.ram ELSE word, t2)
  BY <1>1 DEF Reports, Runs, Does
<1>6. word \in Int /\ t1 \in Int /\ t2 \in Int
  BY InputAssumption
<1>7. CASE i.op = "time"
  <2>1. Right(prog, b, c) /\ WritesRd(i) /\ ~IsRam(i)
    BY <1>1, <1>7 DEF Taken, WritesRd, IsRam, IsMem, IsLoad, IsWrite
  <2>2. c.rd_data = c.after.x
    BY <1>1, <2>1 DEF Right, Retirement
  <2>3. r.h = Execute(b, i, IsRam(i), word, t1) /\ c.after = Execute(b, i, IsRam(i), word, t2)
    <3>1. Result(b, i, word, t1) = Result(b, i, q.dev, t1)
      BY <1>7 DEF Result
    <3>q. QED
      BY <1>4, <1>5, <2>1, <3>1, ExecuteSame
  <2>4. [r.h EXCEPT !.x = c.after.x] = c.after
    BY <1>2, <1>6, <2>1, <2>3, ExecuteX
  <2>5. synchronize_time(r, c) = [r EXCEPT !.h.x = c.rd_data]
    BY <1>2, <1>7 DEF synchronize_time, is_time_csr_instruction
  <2>q. QED
    BY <1>3, <2>2, <2>4, <2>5 DEF Refs
<1>8. CASE i.op # "time"
  <2>0. synchronize_time(r, c) = r
    BY <1>2, <1>8 DEF synchronize_time, is_time_csr_instruction
  <2>1. CASE IsLoad(i) /\ ~IsRam(i)
    <3>1. Right(prog, b, c)
      BY <1>1, <2>1 DEF Taken
    <3>2. c.after = Execute(b, i, IsRam(i), q.dev, t1)
      BY <1>1, <2>1, <3>1, SeedValue
    <3>q. QED
      BY <1>4, <2>0, <2>1, <3>2
  <2>2. CASE ~(IsLoad(i) /\ ~IsRam(i))
    <3>1. CASE IsRam(i)
      <4>1. WritesRd(i) => Result(b, i, b.ram, t1) = Result(b, i, b.ram, t2)
        BY <1>8 DEF Result, WritesRd
      <4>2. r.h = Execute(b, i, IsRam(i), b.ram, t1) /\ c.after = Execute(b, i, IsRam(i), b.ram, t2)
        BY <1>4, <1>5, <3>1
      <4>q. QED
        BY <2>0, <4>1, <4>2, ExecuteSame
    <3>2. CASE ~IsRam(i)
      <4>1. WritesRd(i) => Result(b, i, q.dev, t1) = Result(b, i, word, t2)
        <5>1. i.op \notin {"load", "loadu", "amo"}
          BY <1>2, <2>2, <3>2 DEF IsLoad, WellFormed
        <5>q. QED
          BY <1>8, <5>1 DEF Result, WritesRd
      <4>q. QED
        BY <1>4, <1>5, <2>0, <3>2, <4>1, ExecuteSame
    <3>q. QED
      BY <3>1, <3>2
  <2>q. QED
    BY <2>1, <2>2
<1>q. QED
  BY <1>7, <1>8

\* An interrupt taken at a WFI returns behind it, in the reference too.
IntrVector(tvec, c) == Vector(tvec, TRUE, c)
SetMepc(h, epc) == [h EXCEPT !.mepc = epc]
SetSepc(h, epc) == [h EXCEPT !.sepc = epc]

\* Only the EPC of the mode that was entered depends on the return address.
LEMMA InterruptEpc ==
  ASSUME NEW h \in Harts, NEW pend, NEW e2
  PROVE  \/ /\ IntrMode(h, pend) = ModeM
            /\ SetMepc(Interrupt(h, prog, pend, h.pc), e2) = Interrupt(h, prog, pend, e2)
            /\ Interrupt(h, prog, pend, h.pc).pc = IntrVector(prog.mtvec, IntrCause(h, pend))
         \/ /\ IntrMode(h, pend) # ModeM
            /\ SetSepc(Interrupt(h, prog, pend, h.pc), e2) = Interrupt(h, prog, pend, e2)
            /\ Interrupt(h, prog, pend, h.pc).pc = IntrVector(prog.stvec, IntrCause(h, pend))
<1>1. /\ h = [f \in DOMAIN h |-> h[f]]
      /\ DOMAIN h = {"pc", "mode", "mepc", "sepc", "mcause", "scause", "mpp", "spp", "mie", "mpie",
                     "sie", "spie", "x", "ram"}
  BY DEF Harts
<1>2. PICK v, w : /\ v = IntrVector(prog.mtvec, IntrCause(h, pend))
                  /\ w = IntrVector(prog.stvec, IntrCause(h, pend))
  OBVIOUS
<1>3. PICK k, m, d, e, e1 : e1 = h.pc /\ k = <<TRUE, IntrCause(h, pend)>> /\ m = h.mode /\ d = h.sie /\ e = h.mie
  OBVIOUS
<1>4. PICK g1, g2 : g1 = Interrupt(h, prog, pend, h.pc) /\ g2 = Interrupt(h, prog, pend, e2)
  OBVIOUS
<1>5. CASE IntrMode(h, pend) = ModeM
  <2>1. /\ g1 = [h EXCEPT !.pc = v, !.mode = ModeM, !.mepc = e1, !.mcause = k, !.mpp = m,
                          !.mpie = e, !.mie = FALSE]
        /\ g2 = [h EXCEPT !.pc = v, !.mode = ModeM, !.mepc = e2, !.mcause = k, !.mpp = m,
                          !.mpie = e, !.mie = FALSE]
    BY <1>2, <1>3, <1>4, <1>5 DEF Interrupt, Trap, IntrVector
  <2>2. SetMepc(g1, e2) = g2 /\ g1.pc = v
    BY <1>1, <2>1 DEF SetMepc
  <2>q. QED
    BY <1>2, <1>4, <1>5, <2>2
<1>6. CASE IntrMode(h, pend) # ModeM
  <2>1. /\ g1 = [h EXCEPT !.pc = w, !.mode = ModeS, !.sepc = e1, !.scause = k, !.spp = m,
                          !.spie = d, !.sie = FALSE]
        /\ g2 = [h EXCEPT !.pc = w, !.mode = ModeS, !.sepc = e2, !.scause = k, !.spp = m,
                          !.spie = d, !.sie = FALSE]
    BY <1>2, <1>3, <1>4, <1>6 DEF Interrupt, Trap, IntrVector
  <2>2. SetSepc(g1, e2) = g2 /\ g1.pc = w
    BY <1>1, <2>1 DEF SetSepc
  <2>q. QED
    BY <1>2, <1>4, <1>6, <2>2
<1>q. QED
  BY <1>5, <1>6

LEMMA CauseAlone ==
  ASSUME NEW h, NEW c \in {MTI, SEI}, IntrEnabled(h, {c}) PROVE IntrCause(h, {c}) = c
<1>0. MTI # SEI
  BY DEF MTI, SEI
<1>1. CASE ToM(h, {c})
  BY <1>0, <1>1 DEF IntrCause, ToM
<1>2. CASE ~ToM(h, {c})
  BY <1>0, <1>2 DEF IntrCause, IntrEnabled, ToS
<1>q. QED
  BY <1>1, <1>2

WfiSynced(r, h) == synchronize_wfi_epc(r, CodeAt(prog, h.pc).op = "wfi", h.pc + 1)

\* synchronize_wfi_epc makes the return address that of the core.
LEMMA WfiEpc ==
  ASSUME prog \in Programs, NEW h \in Harts, NEW c \in {MTI, SEI}, IntrEnabled(h, {c}),
         NEW r \in Refs, r.h = Interrupt(h, prog, {c}, h.pc), r.interrupted, r.cause = c
  PROVE  /\ WfiSynced(r, h) \in Refs
         /\ WfiSynced(r, h).h = Interrupt(h, prog, {c}, Epc(prog, h))
<1>0. PICK wfi : wfi = (CodeAt(prog, h.pc).op = "wfi")
  OBVIOUS
<1>1. PICK s : s = WfiSynced(r, h) /\ s = synchronize_wfi_epc(r, wfi, h.pc + 1)
  BY <1>0 DEF WfiSynced
<1>2. CASE ~wfi
  <2>1. s = r /\ Epc(prog, h) = h.pc
    BY <1>0, <1>1, <1>2 DEF synchronize_wfi_epc, Epc
  <2>q. QED
    BY <1>1, <2>1
<1>3. CASE wfi
  <2>0. r.interrupted /\ wfi
    BY <1>3
  <2>1. PICK e \in Int : e = h.pc + 1
    BY DEF Harts
  <2>2. Epc(prog, h) = e
    BY <1>0, <1>3, <2>1 DEF Epc
  <2>3. PICK pend : pend = {c} /\ IntrCause(h, pend) = c
    BY CauseAlone
  <2>4. IntrVector(prog.mtvec, c) # IntrVector(prog.stvec, c)
    BY ProgramAssumption DEF IntrVector
  <2>5. trap_target(prog.mtvec, r) = IntrVector(prog.mtvec, c)
    <3>1. r.interrupted = TRUE
      BY DEF Refs
    <3>q. QED
      BY <3>1 DEF trap_target, IntrVector
  <2>6. PICK g \in Harts : g = Interrupt(h, prog, {c}, e) /\ g = Interrupt(h, prog, pend, e)
    BY <2>3, InterruptType
  <2>7. CASE IntrMode(h, {c}) = ModeM
    <3>1. SetMepc(r.h, e) = g /\ r.h.pc = IntrVector(prog.mtvec, c)
      <4>1. r.h = Interrupt(h, prog, pend, h.pc)
        BY <2>3
      <4>2. /\ SetMepc(Interrupt(h, prog, pend, h.pc), e) = Interrupt(h, prog, pend, e)
            /\ Interrupt(h, prog, pend, h.pc).pc = IntrVector(prog.mtvec, IntrCause(h, pend))
        <5>1. IntrMode(h, pend) = ModeM
          BY <2>3, <2>7
        <5>q. QED
          BY <5>1, InterruptEpc
      <4>q. QED
        BY <2>3, <2>6, <4>1, <4>2
    <3>2. entered_mtvec(r)
      BY <2>5, <3>1 DEF entered_mtvec
    <3>3. s = [r EXCEPT !.h.mepc = e]
      BY <1>1, <2>0, <2>1, <3>2 DEF synchronize_wfi_epc
    <3>4. s = [r EXCEPT !.h = g]
      BY <3>1, <3>3 DEF SetMepc
    <3>q. QED
      BY <1>1, <2>1, <2>2, <2>6, <3>4 DEF Refs
  <2>8. CASE IntrMode(h, {c}) # ModeM
    <3>1. SetSepc(r.h, e) = g /\ r.h.pc = IntrVector(prog.stvec, c)
      <4>1. r.h = Interrupt(h, prog, pend, h.pc)
        BY <2>3
      <4>2. /\ SetSepc(Interrupt(h, prog, pend, h.pc), e) = Interrupt(h, prog, pend, e)
            /\ Interrupt(h, prog, pend, h.pc).pc = IntrVector(prog.stvec, IntrCause(h, pend))
        BY <2>3, <2>8, InterruptEpc
      <4>q. QED
        BY <2>3, <2>6, <4>1, <4>2
    <3>2. ~entered_mtvec(r)
      BY <2>4, <2>5, <3>1 DEF entered_mtvec
    <3>3. s = [r EXCEPT !.h.sepc = e]
      BY <1>1, <2>0, <2>1, <3>2 DEF synchronize_wfi_epc
    <3>4. s = [r EXCEPT !.h = g]
      BY <3>1, <3>3 DEF SetSepc
    <3>q. QED
      BY <1>1, <2>1, <2>2, <2>6, <3>4 DEF Refs
  <2>q. QED
    BY <2>7, <2>8
<1>q. QED
  BY <1>2, <1>3

(***************************************************************************)
(* The inductive invariant.                                                *)
(*                                                                         *)
(* Owes: taking the traps it has still to take leads the reference from h  *)
(* to g: none but a chain of n exceptions, or one injected interrupt and   *)
(* then such a chain.                                                      *)
(***************************************************************************)
Injected(p, h, event, c, n, g) ==
  /\ event # None /\ event = [pc |-> h.pc, inst |-> CodeAt(p, h.pc)]
  /\ h \in Harts /\ IntrEnabled(h, {c})
  /\ Chain(p, Interrupt(h, p, {c}, Epc(p, h)), n, g)
Owes(p, h, mt, se, n, g) ==
  \/ mt = None /\ se = None /\ Chain(p, h, n, g)
  \/ se = None /\ Injected(p, h, mt, MTI, n, g)
  \/ mt = None /\ Injected(p, h, se, SEI, n, g)

\* The core in the boot ROM, or at the OpenSBI entry.
Boot(g) ==
  /\ g \in Harts /\ g.pc \in (ResetPc .. BootEnd) \cup {StartPc}
  /\ g = ResetHart(g.pc, g.x)
  /\ g.pc \in {BootEnd, StartPc} => g.x = BootX

\* The oldest instruction of the core that is not yet compared ran in g.
Front(p, begun, r, mt, se, n, g) ==
  IF begun THEN Owes(p, r.h, mt, se, n, g)
  ELSE mt = None /\ se = None /\ n = 0 /\ Boot(g) /\ r = Whisper(ResetHart(StartPc, BootX))

\* From g the core got to x, with w in WB.
Behind(p, g, w, x) == (w = None /\ x = g) \/ (Reports(p, g, w) /\ x = w.after)

\* The same over the edge with ports o.
Quiet(p, o, w, x, g) ==
  o.took = None /\ o.expt = None /\ o.intr = None /\ Behind(p, g, w, x)
Raised(p, o, w, x, g) ==
  /\ o.took = "exception" /\ w = None /\ Excepts(p, g) /\ x = Raise(p, g)
  /\ \/ o.expt # None /\ o.expt.pc = g.pc /\ o.intr = None
     \/ o.expt = None /\ o.intr # None
Accepted(p, o, w, x, g) ==
  /\ o.took = "interrupt" /\ w = None /\ o.expt = None
  /\ \E pend \in SUBSET {MTI, SEI} :
       /\ IntrEnabled(g, pend) /\ x = Interrupt(g, p, pend, Epc(p, g))
       /\ o.intr # None /\ o.intr.cause = IntrCause(g, pend)
       /\ pending(o.intr) = [pc |-> g.pc, inst |-> CodeAt(p, g.pc)]
Edge(p, o, w, x, g) ==
  g \in Harts /\ (Quiet(p, o, w, x, g) \/ Raised(p, o, w, x, g) \/ Accepted(p, o, w, x, g))

\* The reference, after a attempts, is on its way to b.
Debt(mt, se, n) == n + ((IF mt # None THEN 1 ELSE 0) + (IF se # None THEN 1 ELSE 0))
Stepping(p, h, mt, se, n, a, b) ==
  \/ a = 0 /\ (mt # None \/ se # None) /\ Owes(p, h, mt, se, n, b)
  \/ /\ ~IntrEnabled(h, Mips(mt # None, se # None))
     /\ Debt(mt, se, n) - a \in Nat /\ Chain(p, h, Debt(mt, se, n) - a, b)

Bad(c) == c # None /\ c.bad
Live == phase \in {"observe", "step", "compare"}

AtEval == \E g \in Harts : Front(prog, started, ref, mtimer, seip, deferred, g) /\ Behind(prog, g, wb, rtl)
AtObserve ==
  \/ /\ out.retire = None
     /\ \E g \in Harts : Front(prog, started, ref, mtimer, seip, deferred, g) /\ Edge(prog, out, wb, rtl, g)
  \/ /\ out.retire # None /\ Edge(prog, out, wb, rtl, out.retire.after)
     /\ \E b \in Harts : Front(prog, started, ref, mtimer, seip, deferred, b) /\ Reports(prog, b, out.retire)
AtStep ==
  /\ Edge(prog, out, wb, rtl, out.retire.after)
  /\ Debt(mtimer, seip, deferred) < kMaxNonRetiringSteps
  /\ \E b \in Harts :
       Reports(prog, b, out.retire) /\ Stepping(prog, ref.h, mtimer, seip, deferred, attempt, b)
AtCompare ==
  /\ Edge(prog, out, wb, rtl, out.retire.after)
  /\ Reports(prog, ref.before, out.retire) /\ ref.inst = CodeAt(prog, ref.before.pc)
  /\ ~out.retire.bad \/ ~Taken(ref.inst) => ref.h = out.retire.after

\* The reference follows the core, and no error has been compared.
Tracks ==
  /\ prog \in Programs /\ ref \in Refs /\ deferred \in Nat /\ attempt \in Nat
  /\ ~failed /\ ~bad_seen /\ phase # "thrown"
  /\ corrupted => Bad(wb) \/ (Live /\ Bad(out.retire))
  /\ phase = "eval" => AtEval
  /\ phase = "observe" => AtObserve
  /\ phase = "step" => AtStep
  /\ phase = "compare" => AtCompare

\* The error was in the boot ROM, which is not compared.
Lost == corrupted /\ ~bad_seen /\ ~Bad(wb) /\ (Live => ~Bad(out.retire))

\* The error was found.
Caught == corrupted /\ (failed \/ phase = "thrown")

Books ==
  /\ phase \in {"eval", "observe", "step", "compare", "ended", "thrown"}
  /\ failed \in BOOLEAN /\ started \in BOOLEAN
  /\ retired \in Nat /\ order = retired /\ (started => retired > 0)
  /\ failed => phase \in {"eval", "ended"}
  /\ phase \in {"step", "compare"} => started /\ out.retire # None
  /\ phase # "ended" => exit = None
  /\ exit = 0 => started /\ ~failed

\* One retirement at most is wrong.
OneError ==
  /\ Bad(wb) => corrupted
  /\ Live /\ Bad(out.retire) => corrupted /\ ~Bad(wb)

Inv == Books /\ OneError /\ (limits = {} => Lost \/ Caught \/ Tracks)

(***************************************************************************)
(* The boot ROM takes no trap and leads to the OpenSBI entry.              *)
(***************************************************************************)
LEMMA BootQuiet ==
  ASSUME NEW p \in Programs, NEW g, Boot(g)
  PROVE  ~Excepts(p, g) /\ \A pend \in SUBSET {MTI, SEI} : ~IntrEnabled(g, pend)
<1>1. g.mode = ModeM /\ g.mie = FALSE
  BY DEF Boot, ResetHart
<1>2. \A pend : ~IntrEnabled(g, pend)
  BY <1>1 DEF IntrEnabled, ToM, ToS, ModeM, ModeU, ModeS
<1>3. CodeAt(p, g.pc).op \notin {"ecall", "illegal"}
  <2>1. CASE g.pc \in ResetPc .. BootEnd - 1
    BY <2>1, BootAssumption DEF CodeAt
  <2>2. CASE g.pc = BootEnd
    BY <2>2, BootAssumption DEF CodeAt
  <2>3. CASE g.pc = StartPc
    BY <2>3, BootAssumption DEF CodeAt
  <2>q. QED
    BY <2>1, <2>2, <2>3, BootAssumption DEF Boot
<1>4. ~Excepts(p, g)
  BY <1>1, <1>3 DEF Excepts, ExptCause, ModeM, ModeU, NoCause
<1>q. QED
  BY <1>2, <1>4

Moved(b, pc, x) == [b EXCEPT !.pc = pc, !.x = x, !.ram = b.ram]

LEMMA ResetMoved ==
  ASSUME NEW b, NEW pc0, NEW x0, b = ResetHart(pc0, x0), NEW pc, NEW x
  PROVE  Moved(b, pc, x) = ResetHart(pc, x)
<1>0. PICK g : g = Moved(b, pc, x)
  OBVIOUS
<1>1. PICK t, f : t = <<FALSE, NoCause>> /\ f = FALSE
  OBVIOUS
<1>2. b = [pc |-> pc0, mode |-> ModeM, mepc |-> 0, sepc |-> 0, mcause |-> t, scause |-> t,
           mpp |-> ModeU, spp |-> ModeU, mie |-> f, mpie |-> f, sie |-> f, spie |-> f,
           x |-> x0, ram |-> 0]
  BY <1>1 DEF ResetHart
<1>3. g = [pc |-> pc, mode |-> ModeM, mepc |-> 0, sepc |-> 0, mcause |-> t, scause |-> t,
           mpp |-> ModeU, spp |-> ModeU, mie |-> f, mpie |-> f, sie |-> f, spie |-> f,
           x |-> x, ram |-> 0]
  <2>1. /\ DOMAIN b = {"pc", "mode", "mepc", "sepc", "mcause", "scause", "mpp", "spp", "mie", "mpie",
                       "sie", "spie", "x", "ram"}
        /\ b.mode = ModeM /\ b.mepc = 0 /\ b.sepc = 0 /\ b.mcause = t /\ b.scause = t
        /\ b.mpp = ModeU /\ b.spp = ModeU /\ b.mie = f /\ b.mpie = f /\ b.sie = f /\ b.spie = f
        /\ b.ram = 0
    BY <1>2
  <2>2. /\ DOMAIN g = {"pc", "mode", "mepc", "sepc", "mcause", "scause", "mpp", "spp", "mie", "mpie",
                       "sie", "spie", "x", "ram"}
        /\ g = [y \in DOMAIN g |-> g[y]]
        /\ g.mode = ModeM /\ g.mepc = 0 /\ g.sepc = 0 /\ g.mcause = t /\ g.scause = t
        /\ g.mpp = ModeU /\ g.spp = ModeU /\ g.mie = f /\ g.mpie = f /\ g.sie = f /\ g.spie = f
        /\ g.ram = 0 /\ g.pc = pc /\ g.x = x
    BY <1>0, <2>1 DEF Moved
  <2>q. QED
    BY <2>2
<1>q. QED
  BY <1>0, <1>1, <1>3 DEF ResetHart

\* The boot ROM is executed in a row and ends at StartPc.
LEMMA BootNext ==
  ASSUME NEW p \in Programs, NEW b, Boot(b), b.pc # StartPc, NEW g, Does(p, b, CodeAt(p, b.pc), g)
  PROVE  Boot(g)
<1>1. b \in Harts /\ b.pc \in ResetPc .. BootEnd /\ b.pc \in Int /\ b = ResetHart(b.pc, b.x)
  BY BootAssumption DEF Boot
<1>2. PICK i : i = CodeAt(p, b.pc)
  OBVIOUS
<1>3. WellFormed(i) /\ i = p.code[b.pc] /\ g \in Harts /\ i.arg \in Int
  BY <1>1, <1>2, CodeWellFormed, DoesType, BootAssumption DEF CodeAt, WellFormed, Insts
<1>4. PICK w, time, k : g = Execute(b, i, k, w, time)
  BY <1>2 DEF Does
<1>5. CASE b.pc \in ResetPc .. BootEnd - 1
  <2>1. i.op = "li" /\ (b.pc = BootEnd - 1 => i.arg = BootX)
    BY <1>3, <1>5, BootAssumption
  <2>2. Csrs(b, i) = b /\ NextPc(b, i) = b.pc + 1 /\ WritesRd(i) /\ ~IsWrite(i)
    BY <2>1 DEF Csrs, NextPc, WritesRd, IsWrite
  <2>3. Result(b, i, w, time) = i.arg
    BY <2>1 DEF Result
  <2>4. g = Moved(b, b.pc + 1, i.arg)
    BY <1>4, <2>2, <2>3 DEF Execute, Moved
  <2>5. g = ResetHart(b.pc + 1, i.arg)
    BY <1>1, <2>4, ResetMoved
  <2>6. g.pc = b.pc + 1 /\ g.x = i.arg
    BY <2>5 DEF ResetHart
  <2>q. QED
    BY <1>1, <1>3, <1>5, <2>1, <2>5, <2>6, BootAssumption DEF Boot
<1>6. CASE b.pc = BootEnd
  <2>1. i.op = "jump" /\ i.arg = StartPc /\ b.x = BootX
    BY <1>3, <1>6, BootAssumption DEF Boot
  <2>2. Csrs(b, i) = b /\ NextPc(b, i) = StartPc /\ ~WritesRd(i) /\ ~IsWrite(i)
    BY <2>1 DEF Csrs, NextPc, WritesRd, IsWrite
  <2>4. g = Moved(b, StartPc, b.x)
    BY <1>4, <2>2 DEF Execute, Moved
  <2>5. g = ResetHart(StartPc, BootX)
    BY <1>1, <2>1, <2>4, ResetMoved
  <2>6. g.pc = StartPc /\ g.x = BootX
    BY <2>5 DEF ResetHart
  <2>q. QED
    BY <1>3, <2>5, <2>6 DEF Boot
<1>q. QED
  BY <1>1, <1>5, <1>6, BootAssumption

(***************************************************************************)
(* The core: every edge leads from the state behind MEM to the next one.   *)
(***************************************************************************)
LEMMA PortsShow ==
  ASSUME NEW took, NEW expt, NEW intr, NEW fin, Ports(took, expt, intr, fin)
  PROVE  out'.retire = wb /\ out'.took = took /\ out'.expt = expt /\ out'.intr = intr
BY DEF Ports

\* An edge reports the first error of the run, or none.
LEMMA ErrorStep ==
  ASSUME Bubble \/ Progress
  PROVE  /\ out'.retire = wb /\ prog' = prog
         /\ Bad(wb') => corrupted' /\ ~corrupted
         /\ corrupted => corrupted'
<1>1. CASE Bubble
  BY <1>1, PortsShow DEF Bubble, Bad
<1>2. CASE Complete
  <2>1. \/ wb' = Retirement(rtl, InMem, rtl') /\ corrupted' = corrupted
        \/ ~corrupted /\ corrupted' = TRUE
    BY <1>2 DEF Complete
  <2>2. Retirement(rtl, InMem, rtl').bad = FALSE
    BY DEF Retirement
  <2>3. out'.retire = wb /\ prog' = prog
    BY <1>2, PortsShow DEF Complete
  <2>4. CASE wb' = Retirement(rtl, InMem, rtl') /\ corrupted' = corrupted
    BY <2>2, <2>3, <2>4 DEF Bad
  <2>5. CASE ~corrupted /\ corrupted' = TRUE
    BY <2>3, <2>5
  <2>q. QED
    BY <2>1, <2>4, <2>5
<1>3. CASE TakeException
  BY <1>3, PortsShow DEF TakeException, Bad
<1>4. CASE TakeInterrupt
  BY <1>4, PortsShow DEF TakeInterrupt, Bad
<1>q. QED
  BY <1>1, <1>2, <1>3, <1>4 DEF Progress

LEMMA PulseShows ==
  ASSUME prog \in Programs, rtl \in Harts, NEW c \in Int
  PROVE  /\ Pulse(c) # None /\ Pulse(c).pc = rtl.pc /\ Pulse(c).cause = c
         /\ pending(Pulse(c)) = [pc |-> rtl.pc, inst |-> CodeAt(prog, rtl.pc)]
<1>1. InMem = CodeAt(prog, rtl.pc) /\ InMem \in Insts /\ rtl.pc \in Int
  BY CodeIs, CodeWellFormed DEF InMem, Harts, WellFormed
<1>2. Pulse(c) \in Pulses
  BY <1>1 DEF Pulse, Pulses
<1>q. QED
  BY <1>1, <1>2, NoneAssumption DEF Pulse, pending

\* What the ports show of an edge without limits.
LEMMA EdgeStep ==
  ASSUME prog \in Programs, rtl \in Harts, Bubble \/ Progress, Eval, limits' = {}
  PROVE  /\ Edge(prog, out', wb', rtl', rtl)
         /\ corrupted' => corrupted \/ Bad(wb')
<1>i. PICK i : i = CodeAt(prog, rtl.pc) /\ i = InMem
  BY CodeIs DEF InMem
<1>1. CASE Bubble
  <2>1. /\ out'.took = None /\ out'.expt = None /\ out'.intr = None
        /\ wb' = None /\ rtl' = rtl /\ corrupted' = corrupted
    BY <1>1, PortsShow DEF Bubble
  <2>q. QED
    BY <2>1 DEF Edge, Quiet, Behind
<1>2. CASE Complete
  <2>1. out'.took = None /\ out'.expt = None /\ out'.intr = None
    BY <1>2, PortsShow DEF Complete
  <2>2. ~Excepts(prog, rtl) /\ Does(prog, rtl, i, rtl')
    BY <1>2, <1>i DEF Complete, Excepts, Does
  <2>3. PICK d : d = Retirement(rtl, i, rtl')
    OBVIOUS
  <2>4. \/ wb' = d /\ corrupted' = corrupted
        \/ \E f \in Errors : CanErr(d, f) /\ wb' = Wrong(d, f)
    BY <1>2, <1>i, <2>3 DEF Complete
  <2>5. wb' # None /\ i.op = "sret" => rtl.mode # ModeM
    BY <1>i DEF Eval
  <2>6. CASE i.op = "sret" /\ rtl.mode = ModeM
    \* The limit is met unless the retirement is None, which it is not.
    <3>1. WellFormed(i) /\ rtl' \in Harts
      BY <1>i, <2>2, CodeWellFormed, DoesType
    <3>2. d \in Retirements /\ d.mem_write = IsWrite(i)
      BY <2>3, <3>1, RetirementType DEF Retirement
    <3>3. wb' \in Retirements
      <4>1. CASE wb' = d
        BY <3>2, <4>1
      <4>2. CASE \E f \in Errors : CanErr(d, f) /\ wb' = Wrong(d, f)
        <5>1. PICK f \in Errors : CanErr(d, f) /\ wb' = Wrong(d, f)
          BY <4>2
        <5>2. f # "data"
          BY <2>6, <3>2, <5>1 DEF CanErr, IsWrite
        <5>q. QED
          BY <3>2, <5>1, <5>2, WrongType
      <4>q. QED
        BY <2>4, <4>1, <4>2
    <3>q. QED
      BY <2>5, <2>6, <3>3, NoneAssumption
  <2>7. CASE i.op = "sret" => rtl.mode # ModeM
    <3>0. PICK c, g : c = wb' /\ g = rtl'
      OBVIOUS
    <3>1. /\ Does(prog, rtl, CodeAt(prog, rtl.pc), g) /\ d = Retirement(rtl, CodeAt(prog, rtl.pc), g)
          /\ CodeAt(prog, rtl.pc).op = "sret" => rtl.mode # ModeM
          /\ ~Excepts(prog, rtl)
      BY <1>i, <2>2, <2>3, <2>7, <3>0
    <3>a. CASE c = d /\ corrupted' = corrupted
      <4>1. Reports(prog, rtl, c) /\ c.after = g
        BY <3>1, <3>a, ReportsRight
      <4>q. QED
        BY <2>1, <3>0, <3>a, <4>1 DEF Edge, Quiet, Behind
    <3>b. CASE \E f \in Errors : CanErr(d, f) /\ c = Wrong(d, f)
      <4>1. PICK f \in Errors : CanErr(d, f) /\ c = Wrong(d, f)
        BY <3>b
      <4>2. Reports(prog, rtl, c) /\ c.after = g /\ c.bad /\ c \in Retirements
        BY <3>1, <4>1, ReportsWrong
      <4>3. c # None
        BY <4>2, NoneAssumption
      <4>q. QED
        BY <2>1, <3>0, <4>2, <4>3 DEF Edge, Quiet, Behind, Bad
    <3>q. QED
      BY <2>4, <3>0, <3>a, <3>b
  <2>q. QED
    BY <2>6, <2>7
<1>3. CASE TakeException
  <2>1. PICK c \in Int : c = ExptCause(rtl, InMem)
    BY CauseType
  <2>2. /\ Excepts(prog, rtl) /\ rtl' = Raise(prog, rtl) /\ wb' = None /\ corrupted' = corrupted
    BY <1>3, <1>i DEF TakeException, Excepts, Raise
  <2>3. Pulse(c) # None /\ Pulse(c).pc = rtl.pc
    BY PulseShows
  <2>4. /\ out'.took = "exception"
        /\ \/ out'.expt = Pulse(c) /\ out'.intr = None
           \/ out'.expt = None /\ out'.intr = Pulse(c)
    BY <1>3, <2>1, PortsShow DEF TakeException
  <2>q. QED
    BY <2>2, <2>3, <2>4 DEF Edge, Raised
<1>4. CASE TakeInterrupt
  <2>1. PICK pend \in SUBSET {MTI, SEI} :
          /\ IntrEnabled(rtl, pend)
          /\ rtl' = Interrupt(rtl, prog, pend, Epc(prog, rtl)) /\ wb' = None
          /\ Ports("interrupt", None, Pulse(IntrCause(rtl, pend)), FALSE)
    BY <1>4, <1>i DEF TakeInterrupt, Epc
  <2>2. PICK c \in Int : c = IntrCause(rtl, pend)
    BY DEF IntrCause, MTI, SEI
  <2>3. /\ Pulse(c) # None /\ Pulse(c).cause = c
        /\ pending(Pulse(c)) = [pc |-> rtl.pc, inst |-> CodeAt(prog, rtl.pc)]
    BY PulseShows
  <2>4. out'.took = "interrupt" /\ out'.expt = None /\ out'.intr = Pulse(c)
    BY <2>1, <2>2, PortsShow
  <2>5. Accepted(prog, out', wb', rtl', rtl)
    BY <2>1, <2>2, <2>3, <2>4 DEF Accepted
  <2>6. corrupted' = corrupted
    BY <1>4 DEF TakeInterrupt
  <2>q. QED
    BY <2>5, <2>6 DEF Edge
<1>q. QED
  BY <1>1, <1>2, <1>3, <1>4 DEF Progress

(***************************************************************************)
(* The bookkeeping, and what happens once the error is lost or caught.     *)
(***************************************************************************)
LEMMA InitInv == Init => Inv
<1>1. SUFFICES ASSUME Init PROVE Inv
  OBVIOUS
<1>2. Books
  <2>1. failed = FALSE /\ started = FALSE /\ failed \in BOOLEAN /\ started \in BOOLEAN
    BY <1>1 DEF Init
  <2>2. phase = "eval" /\ order = 0 /\ retired = 0 /\ exit = None
    BY <1>1 DEF Init
  <2>3. None # 0
    BY NoneAssumption
  <2>q. QED
    BY <2>1, <2>2, <2>3 DEF Books
<1>3. OneError
  BY <1>1 DEF Init, RtlInit, OneError, Bad, Live
<1>4. ref \in Refs
  <2>1. PICK h \in Harts : h = ResetHart(StartPc, BootX)
    BY ResetType, BootAssumption
  <2>2. Inst("li", 0) \in Insts
    BY DEF Inst, Insts, Ops
  <2>3. ref = [h |-> h, dev |-> 0, mip |-> {}, trapped |-> FALSE, interrupted |-> FALSE,
               cause |-> NoCause, retired |-> FALSE, inst |-> Inst("li", 0), before |-> h]
    BY <1>1, <2>1 DEF Init, RefInit, Whisper
  <2>q. QED
    BY <2>1, <2>2, <2>3 DEF Refs, NoCause
<1>5. Boot(rtl)
  <2>1. rtl = ResetHart(ResetPc, 0) /\ ResetPc \in Int
    BY <1>1, BootAssumption DEF Init, RtlInit
  <2>2. rtl \in Harts
    BY <2>1, ResetType
  <2>3. rtl.pc = ResetPc /\ rtl.x = 0
    BY <2>1 DEF ResetHart
  <2>4. ResetPc \in ResetPc .. BootEnd /\ ResetPc # BootEnd /\ ResetPc # StartPc
    BY BootAssumption
  <2>q. QED
    BY <2>1, <2>2, <2>3, <2>4 DEF Boot
<1>6. AtEval
  <2>1. /\ started = FALSE /\ mtimer = None /\ seip = None /\ deferred = 0 /\ wb = None
        /\ ref = Whisper(ResetHart(StartPc, BootX))
    BY <1>1 DEF Init, RtlInit, RefInit
  <2>2. Front(prog, started, ref, mtimer, seip, deferred, rtl)
    BY <1>5, <2>1 DEF Front
  <2>3. Behind(prog, rtl, wb, rtl) /\ rtl \in Harts
    BY <1>5, <2>1 DEF Behind, Boot
  <2>q. QED
    BY <2>2, <2>3 DEF AtEval
<1>7. Tracks
  BY <1>1, <1>4, <1>6 DEF Init, RtlInit, Tracks
<1>q. QED
  BY <1>2, <1>3, <1>7 DEF Inv

\* The counters and flags of the loop keep together.
LEMMA BooksStep ==
  ASSUME Books, Next PROVE Books'
<1>1. CASE (Bubble \/ Progress) /\ Eval
  BY <1>1 DEF Books, Eval, LoopOver
<1>2. CASE ObserveTrap
  BY <1>2 DEF Books, ObserveTrap, rtlVars, Throw
<1>3. CASE ObserveRetire
  BY <1>3 DEF Books, ObserveRetire, rtlVars
<1>4. CASE StepAttempt
  BY <1>4 DEF Books, StepAttempt, rtlVars, Throw
<1>5. CASE Compare
  <2>1. failed' \in BOOLEAN
    BY <1>5 DEF Compare
  <2>q. QED
    BY <1>5, <2>1, NoneAssumption DEF Books, Compare, rtlVars
<1>6. CASE End
  <2>1. exit' = 0 => started /\ ~failed
    BY <1>6 DEF End, ExitCode
  <2>q. QED
    BY <1>6, <2>1 DEF Books, End, rtlVars, histVars
<1>q. QED
  BY <1>1, <1>2, <1>3, <1>4, <1>5, <1>6 DEF Next, EvalBubble, EvalProgress

LEMMA NextLive ==
  ASSUME Next, UNCHANGED rtlVars, ~((Bubble \/ Progress) /\ Eval) PROVE Live' => Live
BY DEF Next, EvalBubble, EvalProgress, ObserveTrap, ObserveRetire, StepAttempt, Compare, End, Live,
       Throw

\* At most one wrong retirement is in the pipeline.
LEMMA OneErrorStep ==
  ASSUME Books, OneError, Next PROVE OneError'
<1>1. CASE (Bubble \/ Progress) /\ Eval
  <2>1. /\ out'.retire = wb /\ (Bad(wb') => corrupted' /\ ~corrupted)
        /\ corrupted => corrupted'
    BY <1>1, ErrorStep
  <2>2. Bad(wb)' = Bad(wb') /\ Bad(out.retire)' = Bad(wb)
    BY <2>1 DEF Bad
  <2>q. QED
    BY <2>1, <2>2 DEF OneError
<1>2. CASE UNCHANGED rtlVars /\ ~((Bubble \/ Progress) /\ Eval)
  <2>1. Live' => Live
    BY <1>2, NextLive
  <2>q. QED
    BY <1>2, <2>1 DEF OneError, Bad, rtlVars
<1>q. QED
  BY <1>1, <1>2 DEF Next, EvalBubble, EvalProgress, ObserveTrap, ObserveRetire, StepAttempt, Compare, End

\* An error of the boot ROM is never compared.
LEMMA LostStep ==
  ASSUME Books, Lost, Next PROVE Lost'
<1>1. CASE (Bubble \/ Progress) /\ Eval
  <2>1. /\ out'.retire = wb /\ (Bad(wb') => corrupted' /\ ~corrupted)
        /\ corrupted => corrupted'
    BY <1>1, ErrorStep
  <2>2. Bad(wb)' = Bad(wb') /\ Bad(out.retire)' = Bad(wb)
    BY <2>1 DEF Bad
  <2>3. bad_seen' = bad_seen
    BY <1>1 DEF Eval
  <2>q. QED
    BY <2>1, <2>2, <2>3 DEF Lost
<1>2. CASE UNCHANGED rtlVars /\ ~((Bubble \/ Progress) /\ Eval)
  <2>1. Live' => Live
    BY <1>2, NextLive
  <2>2. ~bad_seen'
    <3>1. CASE Compare
      BY <3>1 DEF Compare, Lost, Live, Books, Bad
    <3>2. CASE ~Compare
      BY <3>2 DEF Next, EvalBubble, EvalProgress, Eval, ObserveTrap, ObserveRetire, StepAttempt, End,
                  histVars, Lost
    <3>q. QED
      BY <3>1, <3>2
  <2>q. QED
    BY <1>2, <2>1, <2>2 DEF Lost, Bad, rtlVars
<1>q. QED
  BY <1>1, <1>2 DEF Next, EvalBubble, EvalProgress, ObserveTrap, ObserveRetire, StepAttempt, Compare, End

\* A caught error ends the run.
LEMMA CaughtStep ==
  ASSUME Books, Caught, Next PROVE Caught'
<1>1. CASE phase = "thrown"
  BY <1>1 DEF Next, EvalBubble, EvalProgress, Eval, ObserveTrap, ObserveRetire, StepAttempt, Compare,
              End
<1>2. CASE failed
  BY <1>2 DEF Caught, Books, Next, EvalBubble, EvalProgress, Eval, LoopOver, ObserveTrap,
              ObserveRetire, StepAttempt, Compare, End, rtlVars
<1>q. QED
  BY <1>1, <1>2 DEF Caught

(***************************************************************************)
(* The reference keeps following the core, action by action.               *)
(***************************************************************************)
LEMMA EvalTracks ==
  ASSUME Tracks, Bubble \/ Progress, Eval, limits' = {}
  PROVE  Tracks'
<1>0. phase = "eval" /\ phase' = "observe"
  BY DEF Eval
<1>1. PICK g \in Harts : Front(prog, started, ref, mtimer, seip, deferred, g) /\ Behind(prog, g, wb, rtl)
  BY <1>0 DEF Tracks, AtEval
<1>2. prog \in Programs
  BY DEF Tracks
<1>3. rtl \in Harts
  BY <1>1, <1>2, ReportsFacts DEF Behind
<1>4. /\ out'.retire = wb /\ prog' = prog /\ Edge(prog, out', wb', rtl', rtl)
      /\ corrupted' => corrupted \/ Bad(wb')
  BY <1>2, <1>3, ErrorStep, EdgeStep
<1>5. UNCHANGED <<ref, started, failed, mtimer, seip, attempt, bad_seen, deferred>>
  BY DEF Eval
<1>6. AtObserve'
  <2>1. CASE wb = None /\ rtl = g
    BY <1>1, <1>4, <1>5, <2>1 DEF AtObserve
  <2>2. CASE Reports(prog, g, wb) /\ rtl = wb.after
    <3>1. wb # None
      BY <1>2, <2>2, ReportsFacts
    <3>q. QED
      BY <1>1, <1>4, <1>5, <2>2, <3>1 DEF AtObserve
  <2>q. QED
    BY <1>1, <2>1, <2>2 DEF Behind
<1>7. (corrupted => Bad(wb) \/ (Live /\ Bad(out.retire)))'
  <2>1. corrupted => Bad(wb)
    BY <1>0 DEF Tracks, Live
  <2>2. Live' /\ (Bad(wb) => Bad(out'.retire))
    BY <1>0, <1>4 DEF Live, Bad
  <2>q. QED
    BY <1>4, <2>1, <2>2 DEF Bad
<1>q. QED
  BY <1>0, <1>4, <1>5, <1>6, <1>7 DEF Tracks

\* The reference takes the exception a pulse reports.
LEMMA SyncStep ==
  ASSUME prog \in Programs, ref \in Refs, Excepts(prog, ref.h), NEW r \in step_non_retiring_trap(ref)
  PROVE  r \in Refs /\ r.h = Raise(prog, ref.h) /\ non_retiring_event(r)
<1>1. PICK q : q = synchronize_interrupts(ref, FALSE, FALSE)
  OBVIOUS
<1>2. q = [ref EXCEPT !.mip = {}]
  BY <1>1 DEF synchronize_interrupts
<1>3. q \in Refs /\ q.h = ref.h /\ q.mip = {}
  BY <1>2 DEF Refs
<1>4. ~IntrEnabled(q.h, q.mip)
  BY <1>3 DEF IntrEnabled, ToM, ToS
<1>5. r \in singleStep(q)
  BY <1>1 DEF step_non_retiring_trap
<1>q. QED
  BY <1>3, <1>4, <1>5, StepException

\* An interrupt accepted when the reference owes nothing is injected.
LEMMA AcceptedOwed ==
  ASSUME NEW p \in Programs, NEW o, NEW w, NEW x, NEW h \in Harts, Accepted(p, o, w, x, h), NEW mt, NEW se,
         mt = IF o.intr # None /\ o.intr.cause = MTI THEN pending(o.intr) ELSE None,
         se = IF o.intr # None /\ o.intr.cause = SEI THEN pending(o.intr) ELSE None
  PROVE  Owes(p, h, mt, se, 0, x) /\ x \in Harts
<1>1. PICK pend \in SUBSET {MTI, SEI} :
       /\ IntrEnabled(h, pend) /\ x = Interrupt(h, p, pend, Epc(p, h))
       /\ o.intr # None /\ o.intr.cause = IntrCause(h, pend)
       /\ pending(o.intr) = [pc |-> h.pc, inst |-> CodeAt(p, h.pc)]
  BY DEF Accepted
<1>2. PICK c : c = IntrCause(h, pend)
  OBVIOUS
<1>3. c \in {MTI, SEI} /\ MTI # SEI
  BY <1>2 DEF IntrCause, MTI, SEI
<1>4. IntrEnabled(h, {c}) /\ x = Interrupt(h, p, {c}, Epc(p, h))
  BY <1>1, <1>2, OneCause
<1>5. PICK e : e = pending(o.intr)
  OBVIOUS
<1>6. e = [pc |-> h.pc, inst |-> CodeAt(p, h.pc)] /\ e # None
  <2>1. h.pc \in Int /\ CodeAt(p, h.pc) \in Insts
    BY CodeWellFormed DEF Harts, WellFormed
  <2>q. QED
    BY <1>1, <1>5, <2>1, PendingAssumption
<1>7. x \in Harts
  BY <1>3, <1>4, InterruptType, EpcType
<1>8. Injected(p, h, e, c, 0, x)
  BY <1>4, <1>6, <1>7, ChainZero DEF Injected
<1>9. CASE c = MTI
  <2>1. mt = e /\ se = None
    BY <1>1, <1>2, <1>3, <1>5, <1>9
  <2>q. QED
    BY <1>7, <1>8, <1>9, <2>1 DEF Owes
<1>10. CASE c = SEI
  <2>1. se = e /\ mt = None
    BY <1>1, <1>2, <1>3, <1>5, <1>10
  <2>q. QED
    BY <1>7, <1>8, <1>10, <2>1 DEF Owes
<1>q. QED
  BY <1>3, <1>9, <1>10

\* An exception of the core is one more the reference owes, or it takes one.
LEMMA OwesRaise ==
  ASSUME NEW p \in Programs, NEW h, NEW mt, NEW se, NEW n \in Nat, NEW g, Owes(p, h, mt, se, n, g),
         Excepts(p, g)
  PROVE  Owes(p, h, mt, se, n + 1, Raise(p, g))
<1>1. \A k : Chain(p, k, n, g) => Chain(p, k, n + 1, Raise(p, g))
  BY ChainAppend
<1>q. QED
  BY <1>1 DEF Owes, Injected

\* A chain that goes on may be shifted by one exception: the reference takes one
\* as the core does.
LEMMA ChainRaise ==
  ASSUME NEW p \in Programs, NEW h, NEW n \in Nat, NEW g, Chain(p, h, n, g), Excepts(p, g)
  PROVE  Excepts(p, h) /\ Chain(p, Raise(p, h), n, Raise(p, g))
<1>0. h \in Harts /\ g \in Harts
  BY ChainType
<1>1. CASE n = 0
  <2>1. g = h
    BY <1>0, <1>1, ChainZero
  <2>2. Raise(p, h) \in Harts
    BY <1>0, RaiseType
  <2>q. QED
    BY <1>1, <2>1, <2>2, ChainZero
<1>2. CASE n > 0
  <2>1. PICK k, m : k = Raise(p, h) /\ m \in Nat /\ m = n - 1
    BY <1>2
  <2>2. Excepts(p, h) /\ Chain(p, k, m, g)
    BY <1>2, <2>1, ChainHead
  <2>3. Chain(p, k, m + 1, Raise(p, g))
    BY <2>1, <2>2, ChainAppend
  <2>q. QED
    BY <1>2, <2>1, <2>2, <2>3
<1>q. QED
  BY <1>1, <1>2

LEMMA OwesType ==
  ASSUME NEW p, NEW h, NEW mt, NEW se, NEW n \in Nat, NEW g, Owes(p, h, mt, se, n, g)
  PROVE  h \in Harts /\ g \in Harts
BY ChainType DEF Owes, Injected

\* A trap the harness sees is taken at once, or owed.
LEMMA ObserveTrapTracks ==
  ASSUME Tracks, ObserveTrap, limits' = {}
  PROVE  Tracks'
<1>0. phase = "observe" /\ out.retire = None /\ LimitsMet(Outstanding) = {}
  BY DEF ObserveTrap
<1>1. PICK g \in Harts : Front(prog, started, ref, mtimer, seip, deferred, g) /\ Edge(prog, out, wb, rtl, g)
  BY <1>0 DEF Tracks, AtObserve
<1>2. /\ prog \in Programs /\ ref \in Refs /\ deferred \in Nat /\ attempt \in Nat
      /\ ~failed /\ ~bad_seen /\ (corrupted => Bad(wb))
  BY <1>0 DEF Tracks, Bad
<1>3. UNCHANGED <<prog, rtl, wb, out, corrupted, started, failed, attempt, bad_seen>>
  BY DEF ObserveTrap, rtlVars
<1> DEFINE synced == out.expt # None /\ can_sync_exception
<1>4. /\ deferred' = IF out.took = "exception" /\ ~synced THEN deferred + 1 ELSE deferred
      /\ seip' = IF seip_event THEN pending(out.intr) ELSE seip
      /\ mtimer' = IF mtimer_event THEN pending(out.intr) ELSE mtimer
  BY DEF ObserveTrap
<1>5. /\ synced => \E r \in step_non_retiring_trap(ref) :
                     ref' = r /\ IF non_retiring_event(r) THEN phase' = "eval" ELSE Throw
      /\ ~synced => phase' = "eval" /\ ref' = ref
  BY DEF ObserveTrap
<1>6. ASSUME ref' \in Refs, deferred' \in Nat, phase' = "eval", AtEval'
      PROVE  Tracks'
  <2>1. (corrupted => Bad(wb))'
    BY <1>2, <1>3 DEF Bad
  <2>q. QED
    BY <1>2, <1>3, <1>6, <2>1 DEF Tracks
<1>7. CASE Quiet(prog, out, wb, rtl, g)
  <2>1. out.took # "exception" /\ ~synced /\ ~seip_event /\ ~mtimer_event
    BY <1>7, NoneAssumption DEF Quiet, seip_event, mtimer_event
  <2>2. UNCHANGED <<deferred, seip, mtimer, ref>> /\ phase' = "eval"
    BY <1>4, <1>5, <2>1
  <2>3. AtEval'
    BY <1>1, <1>3, <1>7, <2>2 DEF AtEval, Quiet
  <2>q. QED
    BY <1>2, <1>6, <2>2, <2>3
<1>8. CASE Raised(prog, out, wb, rtl, g)
  <2>1. out.took = "exception" /\ wb = None /\ Excepts(prog, g) /\ rtl = Raise(prog, g)
    BY <1>8 DEF Raised
  <2>2. started /\ Owes(prog, ref.h, mtimer, seip, deferred, g)
    BY <1>1, <1>2, <2>1, BootQuiet DEF Front
  <2>3. ~seip_event /\ ~mtimer_event
    BY <1>0, <2>1 DEF LimitsMet
  <2>4. UNCHANGED <<seip, mtimer>> /\ rtl \in Harts
    BY <1>1, <1>2, <1>4, <2>1, <2>3, RaiseType
  <2>5. CASE synced
    <3>1. mtimer = None /\ seip = None
      BY <2>5 DEF can_sync_exception
    <3>2. Chain(prog, ref.h, deferred, g)
      BY <2>2, <3>1 DEF Owes, Injected
    <3>3. Excepts(prog, ref.h) /\ Chain(prog, Raise(prog, ref.h), deferred, rtl)
      BY <1>2, <2>1, <3>2, ChainRaise
    <3>4. PICK r \in step_non_retiring_trap(ref) :
            ref' = r /\ IF non_retiring_event(r) THEN phase' = "eval" ELSE Throw
      BY <1>5, <2>5
    <3>5. r \in Refs /\ r.h = Raise(prog, ref.h) /\ phase' = "eval"
      BY <1>2, <3>3, <3>4, SyncStep
    <3>6. deferred' = deferred
      BY <1>4, <2>5
    <3>7. AtEval'
      <4>1. Owes(prog, r.h, mtimer, seip, deferred, rtl)
        BY <3>1, <3>3, <3>5 DEF Owes
      <4>q. QED
        BY <1>3, <2>1, <2>2, <2>4, <3>4, <3>6, <4>1 DEF AtEval, Front, Behind
    <3>q. QED
      BY <1>2, <1>6, <3>4, <3>5, <3>6, <3>7
  <2>6. CASE ~synced
    <3>1. deferred' = deferred + 1 /\ ref' = ref /\ phase' = "eval" /\ deferred + 1 \in Nat
      BY <1>2, <1>4, <1>5, <2>1, <2>6
    <3>2. Owes(prog, ref.h, mtimer, seip, deferred + 1, rtl)
      BY <1>2, <2>1, <2>2, OwesRaise
    <3>3. AtEval'
      BY <1>3, <2>1, <2>2, <2>4, <3>1, <3>2 DEF AtEval, Front, Behind
    <3>q. QED
      BY <1>2, <1>6, <3>1, <3>3
  <2>q. QED
    BY <2>5, <2>6
<1>9. CASE Accepted(prog, out, wb, rtl, g)
  <2>1. out.took = "interrupt" /\ wb = None /\ out.expt = None
    BY <1>9 DEF Accepted
  <2>2. \E pend \in SUBSET {MTI, SEI} : IntrEnabled(g, pend)
    BY <1>9 DEF Accepted
  <2>3. started /\ Owes(prog, ref.h, mtimer, seip, deferred, g)
    BY <1>1, <1>2, <2>2, BootQuiet DEF Front
  <2>4. ~(Outstanding > 0)
    BY <1>0, <2>1 DEF LimitsMet
  <2>5. deferred = 0 /\ mtimer = None /\ seip = None
    BY <1>2, <2>4 DEF Outstanding, Injections
  <2>6. g = ref.h
    <3>1. Chain(prog, ref.h, 0, g) /\ ref.h \in Harts
      BY <1>2, <2>3, <2>5 DEF Owes, Injected, Refs
    <3>q. QED
      BY <3>1, ChainZero
  <2>7. UNCHANGED <<deferred, ref>> /\ phase' = "eval"
    BY <1>4, <1>5, <2>1
  <2>8. /\ mtimer' = IF out.intr # None /\ out.intr.cause = MTI THEN pending(out.intr) ELSE None
        /\ seip' = IF out.intr # None /\ out.intr.cause = SEI THEN pending(out.intr) ELSE None
    BY <1>4, <2>5 DEF seip_event, mtimer_event
  <2>9. PICK mt, se : mt = mtimer' /\ se = seip'
    OBVIOUS
  <2>10. Owes(prog, ref.h, mt, se, 0, rtl) /\ rtl \in Harts
    BY <1>2, <1>9, <2>6, <2>8, <2>9, AcceptedOwed
  <2>11. AtEval'
    BY <1>3, <2>1, <2>3, <2>5, <2>7, <2>9, <2>10 DEF AtEval, Front, Behind
  <2>q. QED
    BY <1>2, <1>6, <2>7, <2>11
<1>q. QED
  BY <1>1, <1>7, <1>8, <1>9 DEF Edge

\* The pc a retirement shows is the right one, or the next.
LEMMA PcShown ==
  ASSUME NEW p \in Programs, NEW b, NEW c, Reports(p, b, c)
  PROVE  /\ c.pc = b.pc \/ c.pc = b.pc + 1
         /\ ~c.bad => c.pc = b.pc
<1>1. b \in Harts /\ c.after \in Harts /\ WellFormed(CodeAt(p, b.pc))
  BY CodeWellFormed, ReportsFacts
<1>2. PICK d : d = Retirement(b, CodeAt(p, b.pc), c.after)
  OBVIOUS
<1>3. d \in Retirements /\ d.pc = b.pc
  BY <1>1, <1>2, RetirementType DEF Retirement
<1>4. ~c.bad => c.pc = b.pc
  <2>1. ~c.bad => c = d
    BY <1>2, ReportsFacts DEF Right
  <2>q. QED
    BY <1>3, <2>1
<1>5. c.pc = b.pc \/ c.pc = b.pc + 1
  <2>1. CASE c = d
    BY <1>3, <2>1
  <2>2. CASE \E f \in Errors : c = Wrong(d, f)
    <3>1. PICK f \in Errors : c = Wrong(d, f)
      BY <2>2
    <3>2. PICK w : w = [d EXCEPT !.bad = TRUE]
      OBVIOUS
    <3>3. w \in Retirements /\ w.pc = b.pc
      BY <1>3, <3>2 DEF Retirements
    <3>4. CASE f = "pc"
      <4>1. c = [w EXCEPT !.pc = @ + 1]
        BY <3>1, <3>2, <3>4 DEF Wrong
      <4>q. QED
        BY <3>3, <4>1 DEF Retirements
    <3>5. CASE f # "pc"
      <4>1. Wrong(d, f).pc = w.pc
        BY <3>2, <3>3, <3>5, ErrorsAssumption DEF Wrong, Retirements
      <4>q. QED
        BY <3>1, <3>3, <4>1
    <3>q. QED
      BY <3>4, <3>5
  <2>q. QED
    BY <1>2, <2>1, <2>2 DEF Reports, Right, WrongBy
<1>q. QED
  BY <1>4, <1>5

LEMMA DebtIs == Outstanding = Debt(mtimer, seip, deferred)
BY DEF Outstanding, Injections, Debt

LEMMA DebtNat ==
  ASSUME NEW mt, NEW se, NEW n \in Nat PROVE Debt(mt, se, n) \in Nat /\ Debt(mt, se, n) >= n
BY DEF Debt

\* Comparison begins with what the reference owes.
LEMMA OwesSteps ==
  ASSUME NEW p, NEW h, NEW mt, NEW se, NEW n \in Nat, NEW b, Owes(p, h, mt, se, n, b)
  PROVE  Stepping(p, h, mt, se, n, 0, b)
<1>1. CASE mt # None \/ se # None
  BY <1>1 DEF Stepping
<1>2. CASE mt = None /\ se = None
  <2>1. Mips(mt # None, se # None) = {}
    BY <1>2 DEF Mips
  <2>2. ~IntrEnabled(h, {})
    BY DEF IntrEnabled, ToM, ToS
  <2>3. Chain(p, h, n, b)
    BY <1>2 DEF Owes, Injected
  <2>4. Debt(mt, se, n) - 0 = n
    BY <1>2 DEF Debt
  <2>q. QED
    BY <2>1, <2>2, <2>3, <2>4 DEF Stepping
<1>q. QED
  BY <1>1, <1>2

\* A retirement finds the reference behind by what it owes.
LEMMA ObserveRetireTracks ==
  ASSUME Books, OneError, Tracks, ObserveRetire, limits' = {}
  PROVE  Lost' \/ Tracks'
<1>0. phase = "observe" /\ out.retire # None
  BY DEF ObserveRetire
<1>1. PICK c : c = out.retire
  OBVIOUS
<1>2. PICK b \in Harts : Front(prog, started, ref, mtimer, seip, deferred, b) /\ Reports(prog, b, c)
  BY <1>0, <1>1 DEF Tracks, AtObserve
<1>3. /\ prog \in Programs /\ ref \in Refs /\ deferred \in Nat /\ ~failed /\ ~bad_seen
      /\ Edge(prog, out, wb, rtl, c.after)
      /\ corrupted => Bad(wb) \/ Bad(c)
  BY <1>0, <1>1 DEF Tracks, AtObserve
<1>4. UNCHANGED <<prog, rtl, wb, out, corrupted, ref, failed, mtimer, seip, bad_seen, deferred>>
  BY DEF ObserveRetire, rtlVars
<1>5. /\ started' = (started \/ c.pc = StartPc) /\ attempt' = 0
      /\ started' => phase' = "step" /\ Outstanding < kMaxNonRetiringSteps
      /\ ~started' => phase' = "eval"
  <2>1. started' => ~(Outstanding >= kMaxNonRetiringSteps)
    BY DEF ObserveRetire
  <2>2. Outstanding \in Int /\ kMaxNonRetiringSteps \in Int
    BY <1>3, DebtIs, DebtNat, AttemptsAssumption
  <2>q. QED
    BY <1>1, <2>1, <2>2 DEF ObserveRetire
<1>6. ASSUME started', Owes(prog, ref.h, mtimer, seip, deferred, b)
      PROVE  Tracks'
  <2>1. Stepping(prog, ref.h, mtimer, seip, deferred, 0, b)
    BY <1>3, <1>6, OwesSteps
  <2>2. Debt(mtimer, seip, deferred) < kMaxNonRetiringSteps
    BY <1>5, <1>6, DebtIs
  <2>3. AtStep'
    BY <1>1, <1>2, <1>3, <1>4, <1>5, <2>1, <2>2 DEF AtStep
  <2>4. Live' /\ phase' = "step"
    BY <1>5, <1>6 DEF Live
  <2>5. (corrupted => Bad(wb) \/ (Live /\ Bad(out.retire)))'
    BY <1>1, <1>3, <1>4, <2>4 DEF Bad
  <2>q. QED
    BY <1>3, <1>4, <1>5, <2>3, <2>4, <2>5 DEF Tracks
<1>7. CASE started
  <2>1. Owes(prog, ref.h, mtimer, seip, deferred, b)
    BY <1>2, <1>7 DEF Front
  <2>q. QED
    BY <1>5, <1>6, <1>7, <2>1
<1>8. CASE ~started
  <2>1. /\ mtimer = None /\ seip = None /\ deferred = 0 /\ Boot(b)
        /\ ref = Whisper(ResetHart(StartPc, BootX))
    BY <1>2, <1>8 DEF Front
  <2>2. ref.h = ResetHart(StartPc, BootX)
    BY <2>1 DEF Whisper
  <2>3. b.pc \in Int /\ (c.pc = StartPc => b.pc = StartPc)
    <3>1. c.pc = b.pc \/ c.pc = b.pc + 1
      BY <1>2, <1>3, PcShown
    <3>q. QED
      BY <2>1, <3>1, BootAssumption DEF Boot
  <2>4. CASE c.pc = StartPc
    <3>1. b = ref.h
      BY <2>1, <2>2, <2>3, <2>4 DEF Boot
    <3>2. Owes(prog, ref.h, mtimer, seip, deferred, b)
      BY <1>2, <2>1, <3>1, ChainZero DEF Owes
    <3>q. QED
      BY <1>5, <1>6, <2>4, <3>2
  <2>5. CASE c.pc # StartPc
    <3>1. ~started' /\ phase' = "eval"
      BY <1>5, <1>8, <2>5
    <3>2. ~Live'
      BY <3>1 DEF Live
    <3>3. CASE c.bad
      <4>1. corrupted /\ ~Bad(wb)
        BY <1>0, <1>1, <3>3 DEF OneError, Live, Bad
      <4>q. QED
        BY <1>3, <1>4, <3>2, <4>1 DEF Lost, Bad
    <3>4. CASE ~c.bad
      <4>1. b.pc # StartPc
        BY <1>2, <1>3, <2>5, <3>4, PcShown
      <4>2. Boot(c.after)
        BY <1>2, <1>3, <2>1, <4>1, BootNext DEF Reports, Runs
      <4>3. Quiet(prog, out, wb, rtl, c.after)
        BY <1>3, <4>2, BootQuiet DEF Edge, Raised, Accepted
      <4>4. Behind(prog, c.after, wb, rtl) /\ c.after \in Harts
        BY <4>2, <4>3 DEF Quiet, Boot
      <4>5. Front(prog, FALSE, ref, mtimer, seip, deferred, c.after)
        BY <2>1, <4>2 DEF Front
      <4>6. started' = FALSE
        BY <3>1, <1>5
      <4>7. AtEval'
        BY <1>4, <4>4, <4>5, <4>6 DEF AtEval
      <4>8. (corrupted => Bad(wb))'
        BY <1>3, <1>4, <3>4 DEF Bad
      <4>q. QED
        BY <1>3, <1>4, <1>5, <3>1, <4>7, <4>8 DEF Tracks
    <3>q. QED
      BY <3>3, <3>4
  <2>q. QED
    BY <2>4, <2>5
<1>q. QED
  BY <1>7, <1>8

\* step() has no reason to throw over a right retirement.
LEMMA RightServed ==
  ASSUME NEW p \in Programs, NEW b, NEW c, Reports(p, b, c), ~c.bad
  PROVE  /\ is_mmio_read(c) => scalar_load_size(c.inst) # 0
         /\ \A r : r.inst = CodeAt(p, b.pc) => ~time_sync_fails(r, c)
<1>1. PICK i : i = CodeAt(p, b.pc)
  OBVIOUS
<1>2. WellFormed(i) /\ c.inst = i /\ c = Retirement(b, i, c.after)
  BY <1>1, CodeWellFormed, ReportsFacts DEF Right
<1>3. /\ c.mem_valid = IsMem(i) /\ c.mem_write = IsWrite(i) /\ c.rd_we = WritesRd(i)
      /\ c.rd = IF WritesRd(i) THEN 1 ELSE 0
  BY <1>2 DEF Retirement
<1>4. is_mmio_read(c) => scalar_load_size(i) # 0
  <2>1. is_mmio_read(c) => IsLoad(i)
    BY <1>3 DEF is_mmio_read, IsMem
  <2>2. IsLoad(i) => i.size # 0
    BY <1>2, AccessSlot DEF IsMem
  <2>q. QED
    BY <2>1, <2>2 DEF scalar_load_size
<1>5. ASSUME NEW r, r.inst = i, time_sync_fails(r, c) PROVE FALSE
  <2>1. i.op = "time"
    BY <1>2, <1>5 DEF time_sync_fails, is_time_csr_instruction
  <2>2. WritesRd(i)
    BY <2>1 DEF WritesRd
  <2>q. QED
    BY <1>3, <1>5, <2>2 DEF time_sync_fails
<1>q. QED
  BY <1>1, <1>2, <1>4, <1>5

\* The reference takes the injected interrupt.
LEMMA InjectionStep ==
  ASSUME prog \in Programs, NEW q \in Refs, NEW k \in {MTI, SEI}, q.mip = {k}, NEW e, NEW n, NEW b,
         Injected(prog, q.h, e, k, n, b), NEW r \in singleStep(q),
         NEW wfi, wfi = (e.inst.op = "wfi"), NEW s, s = synchronize_wfi_epc(r, wfi, e.pc + 1)
  PROVE  /\ non_retiring_event(r) /\ r.retired = FALSE
         /\ s \in Refs /\ Chain(prog, s.h, n, b) /\ ~IntrEnabled(s.h, {k})
<1>1. PICK h \in Harts : h = q.h
  BY DEF Refs
<1>2. /\ IntrEnabled(h, {k}) /\ e.pc = h.pc /\ e.inst = CodeAt(prog, h.pc)
      /\ Chain(prog, Interrupt(h, prog, {k}, Epc(prog, h)), n, b)
  BY <1>1 DEF Injected
<1>3. /\ r \in Refs /\ r.h = Interrupt(h, prog, {k}, h.pc) /\ r.interrupted = TRUE
      /\ r.cause = IntrCause(h, {k}) /\ r.retired = FALSE /\ non_retiring_event(r)
  <2>1. IntrEnabled(q.h, q.mip)
    BY <1>1, <1>2
  <2>q. QED
    BY <1>1, <2>1, StepInterrupt
<1>4. r.cause = k
  BY <1>2, <1>3, CauseAlone
<1>5. wfi = (CodeAt(prog, h.pc).op = "wfi")
  BY <1>2
<1>6. s = WfiSynced(r, h)
  BY <1>2, <1>5 DEF WfiSynced
<1>7. s \in Refs /\ s.h = Interrupt(h, prog, {k}, Epc(prog, h))
  <2>1. IntrEnabled(h, {k}) /\ r \in Refs /\ r.h = Interrupt(h, prog, {k}, h.pc)
    BY <1>2, <1>3
  <2>2. r.interrupted /\ r.cause = k
    BY <1>3, <1>4
  <2>3. WfiSynced(r, h) \in Refs /\ WfiSynced(r, h).h = Interrupt(h, prog, {k}, Epc(prog, h))
    BY <2>1, <2>2, WfiEpc
  <2>q. QED
    BY <1>6, <2>3
<1>8. ~IntrEnabled(s.h, {k})
  <2>1. PICK epc : epc = Epc(prog, h)
    OBVIOUS
  <2>2. ~IntrEnabled(Interrupt(h, prog, {k}, epc), {k})
    BY <1>2, InterruptDisables
  <2>q. QED
    BY <1>7, <2>1, <2>2
<1>q. QED
  BY <1>2, <1>3, <1>7, <1>8

\* The reference has executed the retired instruction.
LEMMA ExecuteStep ==
  ASSUME prog \in Programs, ref \in Refs, NEW c, NEW m, NEW k,
         NEW q \in Refs, q = Seeded(ref, c, m, k), Reports(prog, q.h, c), ~IntrEnabled(q.h, q.mip),
         NEW r \in singleStep(q)
  PROVE  /\ r.retired /\ r.inst = CodeAt(prog, q.h.pc)
         /\ synchronize_time(r, c) \in Refs /\ synchronize_time(r, c).before = q.h
         /\ synchronize_time(r, c).inst = CodeAt(prog, q.h.pc)
         /\ ~c.bad \/ ~Taken(CodeAt(prog, q.h.pc)) => synchronize_time(r, c).h = c.after
<1>0. PICK b, s : b = q.h /\ s = synchronize_time(r, c)
  OBVIOUS
<1>1. ~Excepts(prog, q.h) /\ c \in Retirements
  BY DEF Reports, Runs
<1>2. r \in Refs /\ r.retired = TRUE /\ r.before = b /\ r.inst = CodeAt(prog, b.pc)
  BY <1>0, <1>1, StepExecute
<1>3. s \in Refs /\ s.before = r.before /\ s.inst = r.inst
  <2>1. CASE s = r
    BY <1>2, <2>1
  <2>2. CASE s = [r EXCEPT !.h.x = c.rd_data]
    <3>1. PICK v \in Int : v = c.rd_data
      BY <1>1 DEF Retirements
    <3>2. PICK g \in Harts : g = [r.h EXCEPT !.x = v]
      <4>1. r.h \in Harts
        BY <1>2 DEF Refs
      <4>q. QED
        BY <4>1 DEF Harts
    <3>3. s = [r EXCEPT !.h = g]
      BY <2>2, <3>1, <3>2
    <3>q. QED
      BY <1>2, <3>3 DEF Refs
  <2>q. QED
    BY <1>0, <2>1, <2>2 DEF synchronize_time
<1>4. ASSUME ~c.bad \/ ~Taken(CodeAt(prog, b.pc)) PROVE s.h = c.after
  <2>1. Right(prog, b, c) \/ ~Taken(CodeAt(prog, b.pc))
    BY <1>0, <1>2, <1>3, <1>4, ReportsFacts
  <2>q. QED
    BY <1>0, <2>1, StepSame
<1>q. QED
  BY <1>0, <1>2, <1>3, <1>4

\* An attempt pays one trap, the last one executes the instruction.
LEMMA StepAttemptTracks ==
  ASSUME Books, OneError, Tracks, StepAttempt, limits' = {}
  PROVE  Caught' \/ Tracks'
<1>0. phase = "step" /\ out.retire # None /\ Live
  BY DEF StepAttempt, Books, Live
<1>1. PICK c : c = out.retire
  OBVIOUS
<1>2. /\ prog \in Programs /\ ref \in Refs /\ deferred \in Nat /\ attempt \in Nat
      /\ ~failed /\ ~bad_seen /\ (corrupted => Bad(wb) \/ Bad(c))
      /\ Edge(prog, out, wb, rtl, c.after)
      /\ Debt(mtimer, seip, deferred) < kMaxNonRetiringSteps
  BY <1>0, <1>1 DEF Tracks, AtStep
<1>3. PICK b \in Harts :
        Reports(prog, b, c) /\ Stepping(prog, ref.h, mtimer, seip, deferred, attempt, b)
  BY <1>0, <1>1 DEF Tracks, AtStep
<1>4. UNCHANGED <<prog, rtl, wb, out, corrupted, started, failed, mtimer, seip, bad_seen, deferred>>
  BY DEF StepAttempt, rtlVars
<1>5. c \in Retirements /\ c.inst = CodeAt(prog, b.pc) /\ WellFormed(c.inst)
  BY <1>2, <1>3, ReportsFacts, CodeWellFormed
<1>6. c.bad => corrupted
  BY <1>0, <1>1 DEF OneError, Bad
<1>7. ASSUME phase' = "thrown", c.bad PROVE Caught'
  BY <1>4, <1>6, <1>7 DEF Caught
<1>8. PICK n \in Nat : n = Debt(mtimer, seip, deferred)
  BY <1>2, DebtNat
<1>9. attempt < kMaxNonRetiringSteps
  BY <1>2, <1>3, <1>8, AttemptsAssumption DEF Stepping
\* A further trap: the reference is one step nearer.
<1>10. ASSUME phase' = "step", ref' \in Refs, attempt' = attempt + 1,
              ~IntrEnabled(ref'.h, Mips(mtimer # None, seip # None)),
              n - (attempt + 1) \in Nat, Chain(prog, ref'.h, n - (attempt + 1), b)
       PROVE  Tracks'
  <2>1. Stepping(prog, ref'.h, mtimer, seip, deferred, attempt + 1, b)
    BY <1>8, <1>10 DEF Stepping
  <2>2. AtStep'
    BY <1>1, <1>2, <1>3, <1>4, <1>10, <2>1 DEF AtStep
  <2>3. (corrupted => Bad(wb) \/ (Live /\ Bad(out.retire)))'
    BY <1>1, <1>2, <1>4, <1>10 DEF Bad, Live
  <2>4. attempt + 1 \in Nat
    BY <1>2
  <2>q. QED
    BY <1>2, <1>4, <1>10, <2>2, <2>3, <2>4 DEF Tracks
<1>11. CASE is_mmio_read(c) /\ scalar_load_size(c.inst) = 0
  <2>1. c.bad
    BY <1>2, <1>3, <1>11, RightServed
  <2>2. phase' = "thrown"
    BY <1>1, <1>11 DEF StepAttempt, Throw
  <2>q. QED
    BY <1>7, <2>1, <2>2
<1>12. CASE is_mmio_read(c) => scalar_load_size(c.inst) # 0
  <2>0. PICK m \in BOOLEAN, s \in BOOLEAN : m = (mtimer # None) /\ s = (seip # None)
    OBVIOUS
  <2>1. PICK q : q = Seeded(ref, c, m, s)
    OBVIOUS
  <2>2. q \in Refs /\ q.h = ref.h /\ q.mip = Mips(m, s)
    BY <1>2, <1>5, <1>12, <2>1, SeedType
  <2>3. PICK r \in singleStep(q) :
          IF non_retiring_event(r)
          THEN /\ ref' = synchronize_wfi_epc(r, inject_from_wfi, inject_epc)
               /\ attempt' = attempt + 1
               /\ limits' = IF r.retired THEN limits \cup {"vector"} ELSE limits
               /\ phase' = phase
          ELSE /\ ref' = synchronize_time(r, c)
               /\ IF time_sync_fails(r, c) THEN phase' = "thrown" ELSE phase' = "compare"
               /\ attempt' = attempt
    <3>1. attempt_step(ref, c, mtimer # None, seip # None) = singleStep(q)
      BY <2>0, <2>1 DEF attempt_step, Seeded
    <3>2. ~(attempt >= kMaxNonRetiringSteps)
      BY <1>2, <1>9, AttemptsAssumption
    <3>q. QED
      BY <1>1, <1>12, <3>1, <3>2 DEF StepAttempt, Throw
  <2>4. CASE attempt = 0 /\ Owes(prog, ref.h, mtimer, seip, deferred, b) /\ (mtimer # None \/ seip # None)
    <3>1. PICK k, e :
            /\ k \in {MTI, SEI}
            /\ Injected(prog, ref.h, e, k, deferred, b) /\ Mips(m, s) = {k}
            /\ inject_from_wfi = (e.inst.op = "wfi") /\ inject_epc = e.pc + 1
            /\ n = deferred + 1
      <4>1. CASE seip = None /\ Injected(prog, ref.h, mtimer, MTI, deferred, b)
        <5>1. mtimer # None
          BY <4>1 DEF Injected
        <5>2. Mips(m, s) = {MTI}
          BY <2>0, <4>1, <5>1 DEF Mips
        <5>3. inject_from_wfi = (mtimer.inst.op = "wfi") /\ inject_epc = mtimer.pc + 1
          BY <4>1, <5>1 DEF inject_from_wfi, inject_epc, kWfiInstruction
        <5>4. n = deferred + 1
          BY <1>2, <1>8, <4>1, <5>1 DEF Debt
        <5>q. QED
          BY <4>1, <5>2, <5>3, <5>4
      <4>2. CASE mtimer = None /\ Injected(prog, ref.h, seip, SEI, deferred, b)
        <5>1. seip # None
          BY <4>2 DEF Injected
        <5>2. Mips(m, s) = {SEI}
          BY <2>0, <4>2, <5>1 DEF Mips
        <5>3. inject_from_wfi = (seip.inst.op = "wfi") /\ inject_epc = seip.pc + 1
          BY <4>2, <5>1 DEF inject_from_wfi, inject_epc, kWfiInstruction
        <5>4. n = deferred + 1
          BY <1>2, <1>8, <4>2, <5>1 DEF Debt
        <5>q. QED
          BY <4>2, <5>2, <5>3, <5>4
      <4>q. QED
        BY <2>4, <4>1, <4>2 DEF Owes
    <3>2. PICK w, t : w = inject_from_wfi /\ t = synchronize_wfi_epc(r, w, e.pc + 1)
      OBVIOUS
    <3>3. /\ non_retiring_event(r) /\ r.retired = FALSE
          /\ t \in Refs /\ Chain(prog, t.h, deferred, b) /\ ~IntrEnabled(t.h, {k})
      <4>1. Injected(prog, q.h, e, k, deferred, b) /\ q.mip = {k} /\ w = (e.inst.op = "wfi")
        BY <2>2, <3>1, <3>2
      <4>q. QED
        BY <1>2, <2>2, <2>3, <3>1, <3>2, <4>1, InjectionStep
    <3>4. ref' = t /\ attempt' = attempt + 1 /\ phase' = "step"
      BY <1>0, <2>3, <3>1, <3>2, <3>3
    <3>5. n - (attempt + 1) = deferred
      BY <1>2, <2>4, <3>1
    <3>6. Mips(mtimer # None, seip # None) = {k}
      BY <2>0, <3>1
    <3>q. QED
      BY <1>2, <1>10, <3>3, <3>4, <3>5, <3>6
  <2>5. CASE /\ ~IntrEnabled(ref.h, Mips(mtimer # None, seip # None))
             /\ n - attempt \in Nat /\ Chain(prog, ref.h, n - attempt, b)
    <3>1. PICK k \in Nat : k = n - attempt
      BY <2>5
    <3>2. Chain(prog, ref.h, k, b) /\ ref.h \in Harts
      BY <1>2, <2>5, <3>1 DEF Refs
    <3>3. PICK pend : pend = Mips(m, s) /\ pend = Mips(mtimer # None, seip # None)
      BY <2>0
    <3>4. ~IntrEnabled(q.h, q.mip) /\ ~IntrEnabled(ref.h, pend)
      BY <2>2, <2>5, <3>3
    <3>5. CASE k > 0
      <4>1. Excepts(prog, ref.h) /\ Chain(prog, Raise(prog, ref.h), k - 1, b)
        BY <3>2, <3>5, ChainHead
      <4>2. /\ r \in Refs /\ r.h = Raise(prog, ref.h) /\ r.interrupted = FALSE /\ r.retired = FALSE
            /\ non_retiring_event(r)
        BY <1>2, <2>2, <2>3, <3>4, <4>1, StepException
      <4>3. ~r.interrupted
        BY <4>2
      <4>4. ref' = r /\ attempt' = attempt + 1 /\ phase' = "step"
        BY <1>0, <2>3, <4>2, <4>3 DEF synchronize_wfi_epc
      <4>5. ~IntrEnabled(r.h, pend)
        BY <1>2, <3>2, <3>4, <4>2, RaiseDisables
      <4>6. n - (attempt + 1) = k - 1 /\ k - 1 \in Nat
        BY <1>2, <1>8, <3>1, <3>5
      <4>q. QED
        BY <1>10, <3>3, <4>1, <4>2, <4>4, <4>5, <4>6
    <3>6. CASE k = 0
      <4>1. b = ref.h
        BY <3>2, <3>6, ChainZero
      <4>2. PICK t : t = synchronize_time(r, c)
        OBVIOUS
      <4>3. /\ r.retired /\ r.inst = CodeAt(prog, b.pc)
            /\ t \in Refs /\ t.before = b /\ t.inst = CodeAt(prog, b.pc)
            /\ ~c.bad \/ ~Taken(t.inst) => t.h = c.after
        <5>1. q.h = b /\ Reports(prog, q.h, c)
          BY <1>3, <2>2, <4>1
        <5>2. /\ r.retired /\ r.inst = CodeAt(prog, q.h.pc)
              /\ synchronize_time(r, c) \in Refs /\ synchronize_time(r, c).before = q.h
              /\ synchronize_time(r, c).inst = CodeAt(prog, q.h.pc)
              /\ ~c.bad \/ ~Taken(CodeAt(prog, q.h.pc)) => synchronize_time(r, c).h = c.after
          BY <1>2, <2>1, <2>2, <3>4, <5>1, ExecuteStep
        <5>q. QED
          BY <4>2, <5>1, <5>2
      <4>5. ~non_retiring_event(r)
        BY <2>3, <4>3
      <4>6. ref' = t /\ attempt' = attempt
        BY <2>3, <4>2, <4>5
      <4>7. CASE phase' = "thrown"
        <5>1. time_sync_fails(r, c)
          BY <2>3, <4>5, <4>7
        <5>2. c.bad
          BY <1>2, <1>3, <4>3, <5>1, RightServed
        <5>q. QED
          BY <1>7, <4>7, <5>2
      <4>8. CASE phase' = "compare"
        <5>1. AtCompare'
          <6>1. /\ Edge(prog, out, wb, rtl, out.retire.after)'
                /\ Reports(prog, ref.before, out.retire)' /\ (ref.inst = CodeAt(prog, ref.before.pc))'
            BY <1>1, <1>2, <1>3, <1>4, <4>3, <4>6
          <6>2. (~out.retire.bad \/ ~Taken(ref.inst) => ref.h = out.retire.after)'
            BY <1>1, <1>4, <4>3, <4>6
          <6>q. QED
            BY <6>1, <6>2 DEF AtCompare
        <5>2. (corrupted => Bad(wb) \/ (Live /\ Bad(out.retire)))'
          BY <1>1, <1>2, <1>4, <4>8 DEF Bad, Live
        <5>q. QED
          BY <1>2, <1>4, <4>3, <4>6, <4>8, <5>1, <5>2 DEF Tracks
      <4>q. QED
        BY <2>3, <4>5, <4>7, <4>8
    <3>q. QED
      BY <3>5, <3>6
  <2>q. QED
    BY <1>3, <1>8, <2>4, <2>5 DEF Stepping
<1>q. QED
  BY <1>11, <1>12

\* A comparison without an error leaves both machines together.
LEMMA CompareTracks ==
  ASSUME Books, OneError, Tracks, Compare, limits' = {}
  PROVE  Caught' \/ Tracks'
<1>0. phase = "compare" /\ out.retire # None /\ Live /\ started
  BY DEF Compare, Books, Live
<1>1. PICK c, b, h : c = out.retire /\ b = ref.before /\ h = ref.h
  OBVIOUS
<1>2. /\ prog \in Programs /\ ref \in Refs /\ attempt \in Nat /\ ~bad_seen
      /\ corrupted => Bad(wb) \/ Bad(c)
      /\ Edge(prog, out, wb, rtl, c.after)
      /\ Reports(prog, b, c) /\ ref.inst = CodeAt(prog, b.pc)
      /\ ~c.bad \/ ~Taken(CodeAt(prog, b.pc)) => h = c.after
  BY <1>0, <1>1 DEF Tracks, AtCompare
<1>3. UNCHANGED <<prog, rtl, wb, out, corrupted, started, ref, attempt>> /\ phase' = "eval"
  BY DEF Compare, rtlVars
<1>4. CASE c.bad
  <2>1. PICK f \in Errors : WrongBy(prog, b, c, f)
    BY <1>2, <1>4, ReportsFacts
  <2>2. ~Taken(CodeAt(prog, b.pc)) => ref.h = c.after
    BY <1>1, <1>2
  <2>3. ~compare_commit(c, RefCommit(ref))
    BY <1>1, <1>2, <2>1, <2>2, WrongRejected
  <2>4. failed'
    BY <1>1, <2>3 DEF Compare
  <2>5. corrupted
    BY <1>0, <1>1, <1>4 DEF OneError, Bad
  <2>q. QED
    BY <1>3, <2>4, <2>5 DEF Caught
<1>5. CASE ~c.bad
  <2>1. ref.h = c.after
    BY <1>1, <1>2, <1>5
  <2>2. Right(prog, b, c)
    BY <1>2, <1>5, ReportsFacts
  <2>3. compare_commit(c, RefCommit(ref))
    BY <1>1, <1>2, <2>1, <2>2, RightAccepted
  <2>4. ~failed' /\ ~bad_seen'
    BY <1>1, <1>2, <1>5, <2>3 DEF Compare
  <2>5. (corrupted => Bad(wb))'
    BY <1>2, <1>3, <1>5 DEF Bad
  <2>6. h \in Harts /\ h = c.after
    BY <1>1, <1>2, <2>1 DEF Refs
  <2>7. PICK mt, se, n : mt = mtimer' /\ se = seip' /\ n = deferred'
    OBVIOUS
  <2>8. /\ mt = IF out.intr # None /\ out.intr.cause = MTI THEN pending(out.intr) ELSE None
        /\ se = IF out.intr # None /\ out.intr.cause = SEI THEN pending(out.intr) ELSE None
        /\ n = IF out.took = "exception" THEN 1 ELSE 0
    BY <2>7 DEF Compare, mtimer_event, seip_event
  <2>9. LimitsMet(0) = {}
    BY DEF Compare
  <2>10. ASSUME NEW g \in Harts, Owes(prog, h, mt, se, n, g), Behind(prog, g, wb, rtl)
         PROVE  Tracks'
    <3>1. AtEval'
      BY <1>0, <1>1, <1>3, <2>7, <2>10 DEF AtEval, Front
    <3>2. deferred' \in Nat
      BY <2>7, <2>8
    <3>q. QED
      BY <1>2, <1>3, <2>4, <2>5, <3>1, <3>2 DEF Tracks
  <2>11. CASE Quiet(prog, out, wb, rtl, c.after)
    <3>1. mt = None /\ se = None /\ n = 0 /\ Behind(prog, h, wb, rtl)
      BY <2>6, <2>8, <2>11, NoneAssumption DEF Quiet
    <3>2. Owes(prog, h, mt, se, n, h)
      BY <2>6, <3>1, ChainZero DEF Owes
    <3>q. QED
      BY <2>6, <2>10, <3>1, <3>2
  <2>12. CASE Raised(prog, out, wb, rtl, c.after)
    <3>1. out.took = "exception" /\ wb = None /\ Excepts(prog, h) /\ rtl = Raise(prog, h)
      BY <2>6, <2>12 DEF Raised
    <3>2. ~seip_event /\ ~mtimer_event
      BY <2>9, <3>1 DEF LimitsMet
    <3>3. mt = None /\ se = None /\ n = 0 + 1
      BY <2>8, <3>1, <3>2 DEF seip_event, mtimer_event
    <3>4. Owes(prog, h, mt, se, 0, h)
      BY <2>6, <3>3, ChainZero DEF Owes
    <3>5. Owes(prog, h, mt, se, n, rtl) /\ rtl \in Harts
      BY <1>2, <2>6, <3>1, <3>3, <3>4, OwesRaise, RaiseType
    <3>q. QED
      BY <2>10, <3>1, <3>5 DEF Behind
  <2>13. CASE Accepted(prog, out, wb, rtl, c.after)
    <3>1. wb = None /\ n = 0
      BY <2>8, <2>13 DEF Accepted
    <3>2. Owes(prog, h, mt, se, 0, rtl) /\ rtl \in Harts
      BY <1>2, <2>6, <2>8, <2>13, AcceptedOwed
    <3>q. QED
      BY <2>10, <3>1, <3>2 DEF Behind
  <2>q. QED
    BY <1>2, <2>11, <2>12, <2>13 DEF Edge
<1>q. QED
  BY <1>4, <1>5

\* Every step keeps track, unless it meets an error: in the boot ROM, or caught.
LEMMA TracksStep ==
  ASSUME Books, OneError, Tracks, Next, limits' = {}
  PROVE  Lost' \/ Caught' \/ Tracks'
<1>1. CASE (Bubble \/ Progress) /\ Eval
  BY <1>1, EvalTracks
<1>2. CASE ObserveTrap
  BY <1>2, ObserveTrapTracks
<1>3. CASE ObserveRetire
  BY <1>3, ObserveRetireTracks
<1>4. CASE StepAttempt
  BY <1>4, StepAttemptTracks
<1>5. CASE Compare
  BY <1>5, CompareTracks
<1>6. CASE End
  BY <1>6 DEF End, Tracks, rtlVars, histVars, Bad, Live
<1>q. QED
  BY <1>1, <1>2, <1>3, <1>4, <1>5, <1>6 DEF Next, EvalBubble, EvalProgress

LEMMA NextInv == Inv /\ [Next]_vars => Inv'
<1>1. SUFFICES ASSUME Inv, [Next]_vars PROVE Inv'
  OBVIOUS
<1>2. CASE UNCHANGED vars
  BY <1>1, <1>2 DEF Inv, Books, OneError, Lost, Caught, Tracks, Live, Bad, AtEval, AtObserve, AtStep,
                    AtCompare, vars, rtlVars, tbVars, histVars
<1>3. CASE Next
  <2>1. Books' /\ OneError'
    BY <1>1, <1>3, BooksStep, OneErrorStep DEF Inv
  <2>2. ASSUME limits' = {} PROVE Lost' \/ Caught' \/ Tracks'
    <3>1. limits = {}
      BY <1>3, <2>2 DEF Next, EvalBubble, EvalProgress, Eval, ObserveTrap, ObserveRetire, StepAttempt,
                        Compare, End, histVars
    <3>q. QED
      BY <1>1, <1>3, <2>2, <3>1, LostStep, CaughtStep, TracksStep DEF Inv
  <2>q. QED
    BY <2>1, <2>2 DEF Inv
<1>q. QED
  BY <1>1, <1>2, <1>3

\* The invariant holds of the harness loop of tb_verilator.cpp: the reference
\* follows the core until an error is lost in the boot ROM or caught, or a limit
\* is met.
THEOREM Invariance == Spec => []Inv
BY InitInv, NextInv, PTL DEF Spec

(***************************************************************************)
(* The properties.                                                         *)
(***************************************************************************)
LEMMA InvAligned == Inv => Aligned
<1>1. SUFFICES ASSUME Inv, phase = "compare", ~corrupted, limits = {}
               PROVE  ref.h = out.retire.after
  BY DEF Aligned, Clean
<1>2. Tracks
  BY <1>1 DEF Inv, Lost, Caught
<1>3. ~out.retire.bad
  BY <1>1 DEF Inv, OneError, Books, Live, Bad
<1>q. QED
  BY <1>1, <1>2, <1>3 DEF Tracks, AtCompare

LEMMA InvNoFalseAlarm == Inv => NoFalseAlarm
BY DEF Inv, NoFalseAlarm, Clean, Lost, Caught, Tracks

LEMMA InvPassIsHonest == Inv => PassIsHonest
<1>1. SUFFICES ASSUME Inv, exit = 0
               PROVE  started /\ order = retired /\ retired > 0 /\ (bad_seen => limits # {})
  BY DEF PassIsHonest
<1>2. started /\ ~failed /\ order = retired /\ retired > 0
  BY <1>1 DEF Inv, Books
<1>3. phase = "ended"
  BY <1>1, NoneAssumption DEF Inv, Books
<1>4. bad_seen => limits # {}
  BY <1>1, <1>2, <1>3 DEF Inv, Lost, Caught, Tracks
<1>q. QED
  BY <1>2, <1>4

\* When WhisperRef::step has returned for a retirement, the reference's whole
\* state is that of the core behind the retired instruction, for every program,
\* every order of stalls, retirements, exceptions and interrupts, and any number
\* of attempts, unless one of the harness's limits was met.
THEOREM ReferenceAligned == Spec => []Aligned
BY Invariance, InvAligned, PTL

\* A core that reports no error neither fails the comparison nor makes
\* WhisperRef.cpp throw, unless one of the limits was met.
THEOREM CorrectCorePasses == Spec => []NoFalseAlarm
BY Invariance, InvNoFalseAlarm, PTL

\* "[LOCKSTEP] PASS" means that comparison started, that every retirement since
\* was compared and that no wrong one was among them, the limits aside.
THEOREM PassMeansCompared == Spec => []PassIsHonest
BY Invariance, InvPassIsHonest, PTL
=============================================================================
