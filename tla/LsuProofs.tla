------------------------------ MODULE LsuProofs -----------------------------
(***************************************************************************)
(* Proofs about the MEM stage: an instruction that leaves it has done its  *)
(* whole access exactly once or none of it, and no answer is left behind.  *)
(***************************************************************************)
EXTENDS Lsu, TLAPS

Bytes == (0 .. RamBytes - 1) \cup (RomBase .. RomEnd)

\* A byte and a word of memory m; a device reads 0.
Byte(m, a) == IF a \in DOMAIN m THEN m[a] ELSE 0
WordAt(m, b) == [l \in 0 .. 7 |-> Byte(m, b + l)]

\* Where an access begins, the words it touches, and memory behind the store
\* of the first of them.
Target(i) == Phys(i, 0)
FirstWord(i) == Target(i) - offset(i)
FirstWritten(m, i) ==
  [a \in DOMAIN m |->
     IF InRam(a) /\ Target(i) <= a /\ a < Target(i) + i.size /\ a < FirstWord(i) + 8
     THEN a - Target(i) + 1 ELSE m[a]]

\* An access that has passed the checks of memunit.sv.
Translatable(i) ==
  /\ i.op = "amo" => ~access_misaligned(i)
  /\ i.sv39 => ~crosses_page(i)
Proper(i) == Translatable(i) /\ Allowed(i)

LsuType ==
  /\ ins \in Insts \cup {None} /\ is_new \in BOOLEAN
  /\ mem \in [Bytes -> Int] /\ start \in [Bytes -> Int]

\* Between instructions, and in the first cycle of one, nothing is under way.
Quiet == mem_owner = "None" /\ answer = None
Untouched == issued = 0 /\ mem = start
IdleInv == state = "Init" /\ walk = "none" /\ Quiet /\ Untouched

\* An access in each of the states of memunit.sv.
StoredInv ==
  /\ Proper(ins) /\ ins.op = "store" /\ Quiet
  /\ issued = IF crosses_word(ins) THEN 2 ELSE 1
  /\ mem = Written(start, ins)
TranslateInv ==
  /\ ins.sv39 /\ Translatable(ins) /\ Untouched
  /\ walk \in {"none", "req", "wait", "done"}
  /\ IF walk = "wait" THEN mem_owner = "Translation" ELSE Quiet
ReadyInv == Proper(ins) /\ req_paddr = Target(ins) /\ Quiet /\ Untouched
ValidInv ==
  /\ Proper(ins) /\ req_paddr = Target(ins) /\ mem_owner = "Data"
  /\ ins.op # "store" /\ issued = 1
  /\ answer = WordAt(start, FirstWord(ins)) /\ mem = Written(start, ins)
SplitReadyInv ==
  /\ Proper(ins) /\ req_paddr = Target(ins) /\ Quiet
  /\ crosses_word(ins) /\ issued = 1
  /\ IF ins.op = "store" THEN mem = FirstWritten(start, ins)
     ELSE mem = start /\ req_first_rdata = WordAt(start, FirstWord(ins))
SplitValidInv ==
  /\ Proper(ins) /\ mem_owner = "Data"
  /\ crosses_word(ins) /\ ins.op = "load" /\ issued = 2 /\ mem = start
  /\ req_first_rdata = WordAt(start, FirstWord(ins))
  /\ answer = WordAt(start, FirstWord(ins) + 8)

AccessInv ==
  /\ inst_is_memop(ins) /\ ~ins.expt
  /\ state \in {"Init", "TranslateWait", "AccessWaitReady", "AccessWaitValid",
                "SplitAccessWaitReady", "SplitAccessWaitValid", "Fault"}
  /\ state # "TranslateWait" => walk = "none"
  /\ state = "Init" => StoredInv
  /\ state = "TranslateWait" => TranslateInv
  /\ state = "AccessWaitReady" => ReadyInv
  /\ state = "AccessWaitValid" => ValidInv
  /\ state = "SplitAccessWaitReady" => SplitReadyInv
  /\ state = "SplitAccessWaitValid" => SplitValidInv
  /\ state = "Fault" => Quiet /\ Untouched

LsuInv ==
  /\ LsuType
  /\ ins = None \/ is_new => IdleInv
  /\ ins # None /\ ~is_new => AccessInv

-----------------------------------------------------------------------------
(***************************************************************************)
(* Where the bytes of an access lie.                                       *)
(***************************************************************************)

LEMMA Division ==
  ASSUME NEW N \in Nat \ {0}, NEW z \in Int
  PROVE  \E q \in Int, r \in 0 .. N - 1 : z = N * q + r /\ z % N = r /\ z \div N = q
OBVIOUS

LEMMA Quotient ==
  ASSUME NEW N \in Nat \ {0}, NEW q \in Int, NEW r \in 0 .. N - 1
  PROVE  (N * q + r) % N = r /\ (N * q + r) \div N = q
OBVIOUS

\* A multiple of 8 does not change where in a word an address lies.
LEMMA SameLane ==
  ASSUME NEW m \in Int, m % 8 = 0, NEW r \in Int PROVE (m + r) % 8 = r % 8
OBVIOUS

LEMMA PageLane == ASSUME NEW q \in Int PROVE (PageBytes * q) % 8 = 0
<1>1. PageBytes \in Nat \ {0} /\ PageBytes % 8 = 0
  BY LsuAssumption
<1>2. PICK p \in Int : PageBytes = 8 * p
  BY <1>1
<1>3. p * q \in Int /\ PageBytes * q = 8 * (p * q)
  BY <1>2
<1> QED
  BY <1>3, Quotient

\* Translation keeps the lane, and the offset in the page.
LEMMA TranslateLane ==
  ASSUME NEW a \in Nat, PageMap[a \div PageBytes] \in Nat
  PROVE  translate(a) \in Nat /\ translate(a) % 8 = a % 8
<1>1. PageBytes \in Nat \ {0}
  BY LsuAssumption
<1>2. PICK q \in Int, r \in 0 .. PageBytes - 1 :
         a = PageBytes * q + r /\ a % PageBytes = r /\ a \div PageBytes = q
  BY <1>1, Division
<1>3. PICK p \in Nat : p = PageMap[q]
  BY <1>2
<1>4. translate(a) = PageBytes * p + r
  <2>1. translate(a) = p * PageBytes + r
    BY <1>2, <1>3 DEF translate
  <2>2. p * PageBytes = PageBytes * p
    BY <1>1
  <2> QED
    BY <2>1, <2>2
<1>5. (PageBytes * q) % 8 = 0 /\ (PageBytes * p) % 8 = 0
  BY PageLane
<1>6. PageBytes * q \in Int /\ PageBytes * p \in Nat /\ r \in Nat
  BY <1>1
<1>7. a % 8 = r % 8
  BY <1>2, <1>5, <1>6, SameLane
<1>8. (PageBytes * p + r) % 8 = r % 8
  BY <1>5, <1>6, SameLane
<1> QED
  BY <1>4, <1>6, <1>7, <1>8

LEMMA TranslateOffset ==
  ASSUME NEW a \in Nat, NEW k \in Nat, PageMap[a \div PageBytes] \in Nat,
         (a % PageBytes) + k < PageBytes
  PROVE  translate(a + k) = translate(a) + k
<1>1. PageBytes \in Nat \ {0}
  BY LsuAssumption
<1>2. PICK q \in Int, r \in 0 .. PageBytes - 1 :
         a = PageBytes * q + r /\ a % PageBytes = r /\ a \div PageBytes = q
  BY <1>1, Division
<1>3. PICK s \in 0 .. PageBytes - 1 : s = r + k
  BY <1>1, <1>2
<1>4. a + k = PageBytes * q + s
  BY <1>1, <1>2, <1>3
<1>5. (a + k) % PageBytes = s /\ (a + k) \div PageBytes = q
  BY <1>1, <1>4, Quotient
<1>6. PICK p \in Nat : p = PageMap[q]
  BY <1>2
<1>7. p * PageBytes \in Int
  BY <1>1
<1> QED
  BY <1>2, <1>3, <1>5, <1>6, <1>7 DEF translate

\* An access whose translation gives an address.
Located(i) == i \in Insts /\ (i.sv39 => ~i.tfault)

LEMMA InstFacts ==
  ASSUME NEW i \in Insts
  PROVE  /\ i.addr \in Nat /\ i.size \in {1, 2, 4, 8}
         /\ i.sv39 \in BOOLEAN /\ i.tfault \in BOOLEAN /\ i.pmp \in BOOLEAN /\ i.expt \in BOOLEAN
         /\ i.op \in {"load", "store", "amo", "alu"}
         /\ offset(i) \in 0 .. 7
         /\ i # None
BY LsuAssumption DEF InstOK, offset

LEMMA TargetLane ==
  ASSUME NEW i, Located(i)
  PROVE  Target(i) \in Nat /\ Target(i) % 8 = offset(i)
<1>1. i.addr \in Nat /\ (i.sv39 => PageMap[i.addr \div PageBytes] \in Nat) /\ i.sv39 \in BOOLEAN
  BY LsuAssumption DEF Located, InstOK
<1>2. i.addr + 0 = i.addr
  BY <1>1
<1>3. CASE i.sv39
  BY <1>1, <1>2, <1>3, TranslateLane DEF Target, Phys, offset
<1>4. CASE ~i.sv39
  BY <1>1, <1>2, <1>4 DEF Target, Phys, offset
<1> QED
  BY <1>1, <1>3, <1>4

\* The bytes of an access within a page are adjacent.
LEMMA Adjacent ==
  ASSUME NEW i, Located(i), i.sv39 => ~crosses_page(i), NEW k \in 0 .. i.size - 1
  PROVE  Phys(i, k) = Target(i) + k
<1>1. /\ i.addr \in Nat /\ (i.sv39 => PageMap[i.addr \div PageBytes] \in Nat)
      /\ i.sv39 \in BOOLEAN /\ i.size \in {1, 2, 4, 8}
  BY LsuAssumption DEF Located, InstOK
<1>2. i.addr + 0 = i.addr
  BY <1>1
<1>3. CASE i.sv39
  <2>1. (i.addr % PageBytes) + k < PageBytes /\ k \in Nat
    BY <1>1, <1>3, LsuAssumption DEF crosses_page
  <2> QED
    BY <1>1, <1>2, <1>3, <2>1, TranslateOffset DEF Target, Phys
<1>4. CASE ~i.sv39
  BY <1>1, <1>2, <1>4 DEF Target, Phys
<1> QED
  BY <1>1, <1>3, <1>4

\* The word of the target.
LEMMA FirstWordOf ==
  ASSUME NEW i, Located(i)
  PROVE  /\ WordOf(Target(i)) = FirstWord(i) /\ FirstWord(i) \in Nat
         /\ FirstWord(i) % 8 = 0 /\ Target(i) = FirstWord(i) + offset(i)
<1>1. Target(i) \in Nat /\ Target(i) % 8 = offset(i)
  BY TargetLane
<1>2. PICK t \in Nat : t = Target(i)
  BY <1>1
<1>3. PICK q \in Int, r \in 0 .. 7 : t = 8 * q + r /\ t % 8 = r /\ t \div 8 = q
  BY <1>2
<1>4. WordOf(Target(i)) = 8 * q /\ FirstWord(i) = 8 * q /\ Target(i) = 8 * q + offset(i)
  BY <1>1, <1>2, <1>3 DEF WordOf, FirstWord
<1>5. 8 * q \in Nat /\ (8 * q) % 8 = 0
  BY <1>2, <1>3
<1> QED
  BY <1>4, <1>5

\* An access that crosses into the next word is misaligned.
LEMMA CrossingMisaligned ==
  ASSUME NEW i \in Insts, offset(i) + i.size > 8
  PROVE  access_misaligned(i)
<1>1. i.addr \in Nat /\ i.size \in {1, 2, 4, 8}
  BY InstFacts
<1>2. i.addr % i.size = 0 => (i.addr % 8) % i.size = 0
  <2>1. CASE i.size = 1
    BY <1>1, <2>1
  <2>2. CASE i.size = 2
    BY <1>1, <2>2
  <2>3. CASE i.size = 4
    BY <1>1, <2>3
  <2>4. CASE i.size = 8
    BY <1>1, <2>4
  <2> QED
    BY <1>1, <2>1, <2>2, <2>3, <2>4
<1>3. i.addr % 8 \in 0 .. 7
  BY <1>1
<1>4. \A r \in 0 .. 7, s \in {1, 2, 4, 8} : r + s > 8 => r % s # 0
  OBVIOUS
<1> QED
  BY <1>1, <1>2, <1>3, <1>4 DEF access_misaligned, offset

-----------------------------------------------------------------------------
(***************************************************************************)
(* What the words of memory hold.                                          *)
(***************************************************************************)

\* A word lies in RAM, in ROM or in neither as a whole.
LEMMA WholeWord ==
  ASSUME NEW pa \in Nat, NEW l \in 0 .. 7
  PROVE  /\ WordOf(pa) \in Nat
         /\ InRam(pa) \/ InRom(pa) => WordOf(pa) + l \in Bytes
         /\ pa >= DevBase => WordOf(pa) + l \notin Bytes
<1>1. PICK q \in Int, r \in 0 .. 7 : pa = 8 * q + r /\ pa \div 8 = q
  OBVIOUS
<1>2. /\ RamBytes \in Nat /\ RamBytes % 8 = 0 /\ RomBase \in Nat /\ RomBase % 8 = 0
      /\ RomEnd \in Nat /\ RomEnd % 8 = 7 /\ DevBase \in Nat /\ DevBase % 8 = 0
      /\ DevBase > RomEnd + 1 /\ RomBase >= RamBytes /\ RomEnd > RomBase
  BY LsuAssumption
<1>3. PICK n1 \in Int, n2 \in Int, n3 \in Int, n4 \in Int :
         RamBytes = 8 * n1 /\ RomBase = 8 * n2 /\ RomEnd = 8 * n3 + 7 /\ DevBase = 8 * n4
  BY <1>2
<1>4. WordOf(pa) = 8 * q
  BY <1>1 DEF WordOf
<1>5. WordOf(pa) \in Nat
  BY <1>1, <1>4
<1>6. ASSUME InRam(pa) PROVE WordOf(pa) + l \in Bytes
  BY <1>1, <1>3, <1>4, <1>6 DEF InRam, Bytes
<1>7. ASSUME InRom(pa) PROVE WordOf(pa) + l \in Bytes
  BY <1>1, <1>3, <1>4, <1>7 DEF InRom, Bytes
<1>8. ASSUME pa >= DevBase PROVE WordOf(pa) + l \notin Bytes
  BY <1>1, <1>2, <1>3, <1>4, <1>8 DEF Bytes
<1> QED
  BY <1>5, <1>6, <1>7, <1>8

\* What the data port reads from an address somebody answers.
LEMMA PortReads ==
  ASSUME mem \in [Bytes -> Int], NEW pa \in Nat, Mapped(pa)
  PROVE  ReadWord(pa) = WordAt(mem, WordOf(pa))
<1>1. SUFFICES ASSUME NEW l \in 0 .. 7
               PROVE  (IF InRam(pa) \/ InRom(pa) THEN mem[WordOf(pa) + l] ELSE 0)
                        = Byte(mem, WordOf(pa) + l)
  BY DEF ReadWord, WordAt
<1>2. DOMAIN mem = Bytes
  OBVIOUS
<1>3. CASE InRam(pa) \/ InRom(pa)
  BY <1>2, <1>3, WholeWord DEF Byte
<1>4. CASE ~(InRam(pa) \/ InRom(pa))
  BY <1>2, <1>4, WholeWord DEF Byte, Mapped
<1> QED
  BY <1>3, <1>4

\* A store or AMO writes its bytes in RAM, one behind the other.
LEMMA WrittenBytes ==
  ASSUME NEW i, Located(i), Translatable(i), i.op # "load", NEW m \in [Bytes -> Int]
  PROVE  Written(m, i) =
           [a \in Bytes |->
              IF InRam(a) /\ Target(i) <= a /\ a < Target(i) + i.size
              THEN a - Target(i) + 1 ELSE m[a]]
<1> DEFINE K(a) == {k \in 0 .. i.size - 1 : Phys(i, k) = a}
<1>1. Target(i) \in Nat /\ i.size \in {1, 2, 4, 8}
  BY TargetLane, InstFacts DEF Located
<1>2. Written(m, i) =
        [a \in Bytes |-> IF InRam(a) /\ K(a) # {} THEN (CHOOSE k \in K(a) : TRUE) + 1 ELSE m[a]]
  BY DEF Written
<1>3. \A k \in 0 .. i.size - 1 : Phys(i, k) = Target(i) + k
  BY Adjacent DEF Translatable
<1>4. ASSUME NEW a \in Bytes
      PROVE  (IF InRam(a) /\ K(a) # {} THEN (CHOOSE k \in K(a) : TRUE) + 1 ELSE m[a])
               = IF InRam(a) /\ Target(i) <= a /\ a < Target(i) + i.size
                 THEN a - Target(i) + 1 ELSE m[a]
  <2>1. a \in Int
    BY LsuAssumption DEF Bytes
  <2>2. CASE Target(i) <= a /\ a < Target(i) + i.size
    <3>1. K(a) = {a - Target(i)}
      BY <1>1, <1>3, <2>1, <2>2
    <3>2. (CHOOSE k \in K(a) : TRUE) = a - Target(i)
      BY <3>1
    <3> QED
      BY <2>2, <3>1, <3>2
  <2>3. CASE ~(Target(i) <= a /\ a < Target(i) + i.size)
    <3>1. K(a) = {}
      BY <1>1, <1>3, <2>1, <2>3
    <3> QED
      BY <2>3, <3>1
  <2> QED
    BY <2>2, <2>3
<1> QED
  BY <1>2, <1>4

\* One that stays in its word is done with the first.
LEMMA OneWord ==
  ASSUME NEW i, Located(i), Translatable(i), i.op # "load", NEW m \in [Bytes -> Int],
         offset(i) + i.size <= 8
  PROVE  FirstWritten(m, i) = Written(m, i)
<1>1. /\ Target(i) \in Nat /\ i.size \in {1, 2, 4, 8} /\ offset(i) \in 0 .. 7
      /\ Target(i) = FirstWord(i) + offset(i) /\ FirstWord(i) \in Nat
  BY TargetLane, InstFacts, FirstWordOf DEF Located
<1>2. \A a \in Bytes : a \in Int
  BY LsuAssumption DEF Bytes
<1> QED
  BY <1>1, <1>2, WrittenBytes DEF FirstWritten

LEMMA LoadedBytes ==
  ASSUME NEW i, Located(i), Translatable(i), NEW m
  PROVE  Loaded(m, i) = [k \in 0 .. i.size - 1 |-> Byte(m, Target(i) + k)]
BY Adjacent DEF Loaded, Byte, Translatable

\* Shifting and joining the words gives the bytes that were asked for.
LEMMA ExtractOne ==
  ASSUME NEW i, Located(i), Translatable(i), NEW m, NEW second, offset(i) + i.size <= 8
  PROVE  extract_load_data(WordAt(m, FirstWord(i)), second, i) = Loaded(m, i)
<1>1. /\ i.size \in {1, 2, 4, 8} /\ offset(i) \in 0 .. 7
      /\ Target(i) = FirstWord(i) + offset(i) /\ FirstWord(i) \in Nat
  BY InstFacts, FirstWordOf DEF Located
<1>2. ASSUME NEW k \in 0 .. i.size - 1
      PROVE  /\ offset(i) + k < 8
             /\ WordAt(m, FirstWord(i))[offset(i) + k] = Byte(m, Target(i) + k)
  <2>1. /\ offset(i) + k \in 0 .. 7
        /\ FirstWord(i) + (offset(i) + k) = Target(i) + k
    BY <1>1
  <2> QED
    BY <1>1, <2>1 DEF WordAt
<1> QED
  BY <1>2, LoadedBytes DEF extract_load_data

LEMMA ExtractTwo ==
  ASSUME NEW i, Located(i), Translatable(i), NEW m
  PROVE  extract_load_data(WordAt(m, FirstWord(i)), WordAt(m, FirstWord(i) + 8), i) = Loaded(m, i)
<1>1. /\ i.size \in {1, 2, 4, 8} /\ offset(i) \in 0 .. 7
      /\ Target(i) = FirstWord(i) + offset(i) /\ FirstWord(i) \in Nat
  BY InstFacts, FirstWordOf DEF Located
<1>2. ASSUME NEW k \in 0 .. i.size - 1, offset(i) + k < 8
      PROVE  WordAt(m, FirstWord(i))[offset(i) + k] = Byte(m, Target(i) + k)
  <2>1. /\ offset(i) + k \in 0 .. 7
        /\ FirstWord(i) + (offset(i) + k) = Target(i) + k
    BY <1>1, <1>2
  <2> QED
    BY <1>1, <2>1 DEF WordAt
<1>3. ASSUME NEW k \in 0 .. i.size - 1, ~(offset(i) + k < 8)
      PROVE  WordAt(m, FirstWord(i) + 8)[offset(i) + k - 8] = Byte(m, Target(i) + k)
  <2>1. /\ offset(i) + k - 8 \in 0 .. 7
        /\ FirstWord(i) + 8 + (offset(i) + k - 8) = Target(i) + k
    BY <1>1, <1>3
  <2> QED
    BY <1>1, <2>1 DEF WordAt
<1> QED
  BY <1>2, <1>3, LoadedBytes DEF extract_load_data

-----------------------------------------------------------------------------
(***************************************************************************)
(* What a cycle does to memory.                                            *)
(***************************************************************************)

\* Only the requests of the instruction write.
LEMMA NoWrite ==
  ASSUME LsuType, NEW e, Clock(e), ~first_data_mem_fire(e), ~split_data_mem_fire(e)
  PROVE  mem' = mem
BY DEF LsuType, Clock, DataPort

\* The two requests belong to different states.
LEMMA OneRequest ==
  ASSUME NEW e
  PROVE  /\ first_data_mem_fire(e) => valid(e) /\ state \in {"TranslateWait", "AccessWaitReady"}
         /\ split_data_mem_fire(e) => valid(e) /\ state = "SplitAccessWaitReady"
         /\ translation_mem_fire(e) => valid(e) /\ state = "TranslateWait" /\ walk = "req"
         /\ data_fast_load_complete(e) =>
              valid(e) /\ state \in {"TranslateWait", "AccessWaitReady"} /\ ~first_data_mem_fire(e)
BY DEF first_data_mem_fire, split_data_mem_fire, translation_mem_fire, DrivesFirst, DrivesSecond,
       translated_access_can_issue, translation_rsp_valid, data_fast_load_complete

LEMMA FirstWrite ==
  ASSUME LsuType, Located(ins), ins # None, NEW e, Clock(e), first_data_mem_fire(e),
         FirstAddr = Target(ins)
  PROVE  mem' = IF ins.op = "load" THEN mem ELSE FirstWritten(mem, ins)
<1>1. ~split_data_mem_fire(e)
  BY OneRequest
<1>2. mem' = [a \in DOMAIN mem |->
                IF InRam(a) /\ ins.op # "load" /\ a - WordOf(FirstAddr) \in FirstLanes(ins)
                THEN FirstByte(ins, a - WordOf(FirstAddr)) ELSE mem[a]]
  BY <1>1 DEF Clock, DataPort
<1>3. CASE ins.op = "load"
  BY <1>2, <1>3 DEF LsuType
<1>4. CASE ins.op # "load"
  <2>1. /\ WordOf(FirstAddr) = FirstWord(ins) /\ FirstWord(ins) \in Nat
        /\ Target(ins) = FirstWord(ins) + offset(ins)
        /\ offset(ins) \in 0 .. 7 /\ ins.size \in {1, 2, 4, 8}
    BY FirstWordOf, InstFacts DEF Located
  <2>2. \A a \in DOMAIN mem : a \in Nat
    BY LsuAssumption DEF LsuType, Bytes
  <2>3. ASSUME NEW a \in DOMAIN mem
        PROVE  /\ a - WordOf(FirstAddr) \in FirstLanes(ins) <=>
                    Target(ins) <= a /\ a < Target(ins) + ins.size /\ a < FirstWord(ins) + 8
               /\ FirstByte(ins, a - WordOf(FirstAddr)) = a - Target(ins) + 1
    BY <2>1, <2>2 DEF FirstLanes, FirstByte
  <2> QED
    BY <1>2, <1>4, <2>3 DEF FirstWritten
<1> QED
  BY <1>3, <1>4

\* The second store completes what the first has begun.
LEMMA SecondWrite ==
  ASSUME LsuType, Located(ins), Translatable(ins), ins # None, NEW e, Clock(e),
         split_data_mem_fire(e), req_paddr = Target(ins), crosses_word(ins),
         ins.op = "store", mem = FirstWritten(start, ins)
  PROVE  mem' = Written(start, ins)
<1>1. ~first_data_mem_fire(e)
  BY OneRequest
<1>2. mem' = [a \in DOMAIN mem |->
                IF InRam(a) /\ a - SecondAddr \in SecondLanes(ins)
                THEN split_store_second_wdata(ins, a - SecondAddr) ELSE mem[a]]
  BY <1>1 DEF Clock, DataPort
<1>3. /\ SecondAddr = FirstWord(ins) + 8 /\ FirstWord(ins) \in Nat
      /\ Target(ins) = FirstWord(ins) + offset(ins)
      /\ offset(ins) \in 0 .. 7 /\ ins.size \in {1, 2, 4, 8}
  BY FirstWordOf, InstFacts DEF Located, SecondAddr
<1>4. \A a \in Bytes : a \in Nat
  BY LsuAssumption DEF Bytes
<1>5. offset(ins) + ins.size > 8
  BY DEF crosses_word
<1>6. ASSUME NEW a \in Bytes
      PROVE  /\ a - SecondAddr \in SecondLanes(ins) <=>
                  FirstWord(ins) + 8 <= a /\ a < Target(ins) + ins.size
             /\ split_store_second_wdata(ins, a - SecondAddr) = a - Target(ins) + 1
  BY <1>3, <1>4, <1>5 DEF SecondLanes, split_store_second_wdata
<1>7. DOMAIN mem = Bytes /\ DOMAIN start = Bytes /\ start \in [Bytes -> Int]
  BY DEF LsuType
<1>8. ASSUME NEW a \in Bytes
      PROVE  mem[a] = IF InRam(a) /\ Target(ins) <= a /\ a < Target(ins) + ins.size
                         /\ a < FirstWord(ins) + 8
                      THEN a - Target(ins) + 1 ELSE start[a]
  BY <1>7 DEF FirstWritten
<1>9. ASSUME NEW a \in Bytes
      PROVE  (IF InRam(a) /\ a - SecondAddr \in SecondLanes(ins)
              THEN split_store_second_wdata(ins, a - SecondAddr) ELSE mem[a])
             = IF InRam(a) /\ Target(ins) <= a /\ a < Target(ins) + ins.size
               THEN a - Target(ins) + 1 ELSE start[a]
  BY <1>3, <1>4, <1>6, <1>8
<1> QED
  BY <1>2, <1>7, <1>9, WrittenBytes

-----------------------------------------------------------------------------
(***************************************************************************)
(* The requests the unit drives.                                           *)
(***************************************************************************)

\* The request for the first word is that of an access that has passed every
\* check, to its physical address, and nothing has been done for it yet.
LEMMA FirstDriven ==
  ASSUME LsuInv, NEW e, DrivesFirst(e)
  PROVE  /\ ins \in Insts /\ ins # None /\ ~is_new /\ AccessInv
         /\ Proper(ins) /\ Located(ins) /\ FirstAddr = Target(ins) /\ Quiet /\ Untouched
         /\ valid(e) /\ state \in {"TranslateWait", "AccessWaitReady"}
<1>1. /\ ins # None /\ valid(e)
      /\ \/ state = "AccessWaitReady"
         \/ /\ state = "TranslateWait" /\ walk \in {"none", "done"}
            /\ ~TranslatedFault
  BY DEF DrivesFirst, translated_access_can_issue, translation_rsp_valid, valid
<1>2. ins \in Insts /\ ~is_new /\ AccessInv
  BY <1>1 DEF LsuInv, LsuType, IdleInv
<1>3. CASE state = "AccessWaitReady"
  BY <1>1, <1>2, <1>3 DEF AccessInv, ReadyInv, Proper, Allowed, Located, FirstAddr
<1>4. CASE state = "TranslateWait"
  <2>1. TranslateInv /\ walk \in {"none", "done"} /\ ~ins.tfault /\ ins.pmp /\ ~ins.expt
    BY <1>1, <1>2, <1>4 DEF AccessInv, TranslatedFault
  <2>2. Proper(ins) /\ Located(ins) /\ Quiet /\ Untouched
    BY <1>2, <2>1 DEF TranslateInv, Proper, Allowed, Located
  <2>3. FirstAddr = Target(ins)
    <3>1. ins.addr + 0 = ins.addr
      BY <1>2, InstFacts
    <3> QED
      BY <1>4, <2>1, <3>1 DEF FirstAddr, Target, Phys, TranslateInv
  <2> QED
    BY <1>1, <1>2, <1>4, <2>2, <2>3
<1> QED
  BY <1>1, <1>3, <1>4

\* An access that does not cross, of any kind, stays in its word.
LEMMA StaysInWord ==
  ASSUME NEW i \in Insts, Translatable(i), ~crosses_word(i)
  PROVE  offset(i) + i.size <= 8
<1>1. offset(i) \in 0 .. 7 /\ i.size \in {1, 2, 4, 8}
  BY InstFacts
<1>2. CASE i.op = "amo"
  BY <1>1, <1>2, CrossingMisaligned DEF Translatable
<1>3. CASE i.op # "amo"
  BY <1>1, <1>3 DEF crosses_word
<1> QED
  BY <1>2, <1>3

\* A load that the cache answers in the same cycle.
LEMMA FastLoad ==
  ASSUME LsuInv, NEW e, data_fast_load_complete(e)
  PROVE  rdata(e) = Loaded(start, ins)
<1>1. DrivesFirst(e) /\ ins.op = "load" /\ ~crosses_word(ins) /\ FirstAddr < RamEnd
  BY DEF data_fast_load_complete
<1>2. /\ ins \in Insts /\ Proper(ins) /\ Located(ins) /\ FirstAddr = Target(ins) /\ mem = start
  BY <1>1, FirstDriven DEF Untouched
<1>3. Mapped(FirstAddr) /\ FirstAddr \in Nat
  BY <1>1, <1>2, TargetLane, LsuAssumption DEF Mapped, InRam
<1>4. mem \in [Bytes -> Int]
  BY DEF LsuInv, LsuType
<1>5. ReadWord(FirstAddr) = WordAt(start, FirstWord(ins))
  BY <1>2, <1>3, <1>4, PortReads, FirstWordOf
<1>6. offset(ins) + ins.size <= 8
  BY <1>1, <1>2, StaysInWord DEF Proper
<1> QED
  BY <1>2, <1>5, <1>6, ExtractOne DEF rdata, Proper

\* What the two reads owe.
LEMMA FirstAnswer ==
  ASSUME LsuInv, NEW e, first_data_mem_fire(e)
  PROVE  ReadWord(FirstAddr) = WordAt(start, FirstWord(ins))
<1>1. DrivesFirst(e) /\ Mapped(FirstAddr)
  BY DEF first_data_mem_fire, membus_ready
<1>2. ins \in Insts /\ Located(ins) /\ FirstAddr = Target(ins) /\ mem = start
  BY <1>1, FirstDriven DEF Untouched
<1>3. FirstAddr \in Nat
  BY <1>2, TargetLane
<1>4. mem \in [Bytes -> Int]
  BY DEF LsuInv, LsuType
<1> QED
  BY <1>1, <1>2, <1>3, <1>4, PortReads, FirstWordOf

LEMMA SecondAnswer ==
  ASSUME LsuInv, NEW e, split_data_mem_fire(e)
  PROVE  /\ ins \in Insts /\ ins # None /\ ~is_new /\ AccessInv /\ SplitReadyInv /\ Located(ins)
         /\ ins.op # "store" => ReadWord(SecondAddr) = WordAt(start, FirstWord(ins) + 8)
<1>1. state = "SplitAccessWaitReady" /\ ins # None /\ Mapped(SecondAddr)
  BY DEF split_data_mem_fire, DrivesSecond, membus_ready, valid
<1>2. ins \in Insts /\ ~is_new /\ AccessInv /\ SplitReadyInv
  BY <1>1 DEF LsuInv, LsuType, IdleInv, AccessInv
<1>3. Located(ins) /\ req_paddr = Target(ins) /\ (ins.op # "store" => mem = start)
  BY <1>2 DEF SplitReadyInv, Proper, Allowed, Located
<1>4. PICK w \in Nat : w = FirstWord(ins) /\ w % 8 = 0 /\ SecondAddr = w + 8
  BY <1>3, FirstWordOf DEF SecondAddr
<1>5. w + 8 \in Nat /\ 8 * ((w + 8) \div 8) = w + 8
  BY <1>4
<1>6. WordOf(SecondAddr) = w + 8 /\ SecondAddr \in Nat
  BY <1>4, <1>5 DEF WordOf
<1>7. mem \in [Bytes -> Int]
  BY DEF LsuInv, LsuType
<1>8. ReadWord(SecondAddr) = WordAt(mem, w + 8)
  BY <1>1, <1>6, <1>7, PortReads
<1> QED
  BY <1>1, <1>2, <1>3, <1>4, <1>8

-----------------------------------------------------------------------------
(***************************************************************************)
(* An instruction leaves.                                                  *)
(***************************************************************************)

\* A trap comes before anything has been done: an interrupt in the first cycle,
\* an exception in the first cycle or in the state Fault.
LEMMA TrapIsEarly ==
  ASSUME LsuInv, NEW e, ins # None, raise_trap(e)
  PROVE  Quiet /\ Untouched
<1>1. is_new \/ (~is_new /\ AccessInv /\ state = "Fault")
  BY DEF LsuInv, LsuType, AccessInv, raise_trap, raise_interrupt, raise_expt, can_intr
<1> QED
  BY <1>1 DEF LsuInv, IdleInv, AccessInv

\* The states in which one may retire, and what it has done by then.
Retires(e) ==
  /\ valid(e)
  /\ \/ is_new /\ ~inst_is_memop(ins) /\ IdleInv
     \/ ~is_new /\ AccessInv /\ state = "Init"
     \/ ~is_new /\ AccessInv /\ state = "AccessWaitValid" /\ data_mem_rvalid(e)
          /\ ~crosses_word(ins)
     \/ ~is_new /\ AccessInv /\ state = "SplitAccessWaitValid" /\ data_mem_rvalid(e)
     \/ ~is_new /\ AccessInv /\ data_fast_load_complete(e)

LEMMA RetireStates ==
  ASSUME LsuInv, NEW e, leaves(e), ~raise_trap(e)
  PROVE  Retires(e)
<1>1. ins # None /\ valid(e) /\ ~stall(e) /\ is_new \in BOOLEAN
  BY DEF leaves, valid, LsuInv, LsuType
<1>2. CASE is_new
  <2>1. IdleInv /\ state = "Init"
    BY <1>2 DEF LsuInv, IdleInv
  <2> QED
    BY <1>1, <1>2, <2>1 DEF Retires, stall
<1>3. CASE ~is_new
  <2>1. AccessInv
    BY <1>1, <1>3 DEF LsuInv
  <2>2. state # "Fault"
    BY <1>1 DEF valid, raise_trap, raise_expt
  <2> QED
    BY <1>1, <1>3, <2>1, <2>2 DEF Retires, AccessInv, stall
<1> QED
  BY <1>1, <1>2, <1>3

\* It leaves nothing under way.
LEMMA LeavesQuietly ==
  ASSUME LsuInv, NEW e, leaves(e), Clock(e)
  PROVE  /\ state' = "Init" /\ walk' = "none" /\ Quiet' /\ mem' = mem
         /\ ~first_data_mem_fire(e) /\ ~split_data_mem_fire(e)
<1>1. ins # None
  BY DEF leaves
<1>2. CASE raise_trap(e)
  <2>1. ~valid(e) /\ Quiet
    BY <1>2, <1>1, TrapIsEarly DEF valid
  <2>2. /\ ~first_data_mem_fire(e) /\ ~split_data_mem_fire(e) /\ ~translation_mem_fire(e)
        /\ ~data_read_mem_fire(e)
    BY <2>1, OneRequest DEF data_read_mem_fire
  <2>3. mem' = mem
    BY <2>2, NoWrite DEF LsuInv
  <2>4. state' = "Init"
    BY <2>1, <2>2 DEF Clock, memunit, NextState, response_will_be_outstanding, Quiet
  <2>5. Quiet' /\ walk' = "none"
    BY <2>1, <2>2 DEF Clock, memunit, DataPort, Translation, Quiet
  <2> QED
    BY <2>2, <2>3, <2>4, <2>5
<1>3. CASE ~raise_trap(e)
  <2>1. Retires(e)
    BY <1>3, RetireStates
  <2>2. /\ ~first_data_mem_fire(e) /\ ~split_data_mem_fire(e) /\ ~translation_mem_fire(e)
        /\ ~data_read_mem_fire(e)
    <3>1. CASE data_fast_load_complete(e)
      <4>1. ~translation_mem_fire(e)
        BY <3>1 DEF data_fast_load_complete, DrivesFirst, translated_access_can_issue,
                    translation_rsp_valid, translation_mem_fire
      <4> QED
        BY <3>1, <4>1, OneRequest DEF data_read_mem_fire
    <3>2. CASE ~data_fast_load_complete(e)
      BY <2>1, <3>2, OneRequest DEF Retires, IdleInv, data_read_mem_fire
    <3> QED
      BY <3>1, <3>2
  <2>3. mem' = mem
    BY <2>2, NoWrite DEF LsuInv
  <2>4. CASE data_fast_load_complete(e)
    <3>1. DrivesFirst(e)
      BY <2>4 DEF data_fast_load_complete
    <3>2. Quiet /\ valid(e) /\ AccessInv /\ ~is_new
      BY <3>1, FirstDriven
    <3>3. \/ state = "AccessWaitReady"
          \/ state = "TranslateWait" /\ translation_rsp_valid(e) /\ ~TranslatedFault
      BY <3>1 DEF DrivesFirst, translated_access_can_issue, translation_rsp_valid
    <3>4. state' = "Init" /\ walk' = "none"
      BY <2>4, <3>2, <3>3 DEF Clock, memunit, NextState, Translation
    <3>5. Quiet'
      BY <2>2, <3>2 DEF Clock, memunit, DataPort, Quiet
    <3> QED
      BY <2>2, <2>3, <3>4, <3>5
  <2>5. CASE ~data_fast_load_complete(e)
    <3>1. state \in {"Init", "AccessWaitValid", "SplitAccessWaitValid"} /\ valid(e)
      BY <2>1, <2>5 DEF Retires, IdleInv
    <3>2. walk' = "none"
      BY <3>1 DEF Clock, Translation
    <3>3. Quiet'
      <4>1. Quiet \/ data_mem_rvalid(e)
        BY <2>1, <2>5 DEF Retires, IdleInv, AccessInv, StoredInv
      <4>2. CASE Quiet
        BY <2>2, <4>2 DEF Clock, memunit, DataPort, Quiet
      <4>3. CASE data_mem_rvalid(e)
        BY <2>2, <4>3 DEF Clock, memunit, DataPort, Quiet, data_mem_rvalid
      <4> QED
        BY <4>1, <4>2, <4>3
    <3>4. state' = "Init"
      BY <2>1, <2>5, <3>1 DEF Clock, memunit, NextState, Retires, IdleInv, InitNext
    <3> QED
      BY <2>2, <2>3, <3>2, <3>3, <3>4
  <2> QED
    BY <2>4, <2>5
<1> QED
  BY <1>2, <1>3

\* What it has done when it retires.
LEMMA AccessDone ==
  ASSUME LsuInv, NEW e, leaves(e), ~raise_trap(e), inst_is_memop(ins)
  PROVE  /\ ins \in Insts /\ Allowed(ins)
         /\ issued + (IF data_fast_load_complete(e) THEN 1 ELSE 0)
              = IF crosses_word(ins) THEN 2 ELSE 1
         /\ mem = Written(start, ins)
         /\ ins.op # "store" => rdata(e) = Loaded(start, ins)
<1>1. Retires(e) /\ ins \in Insts
  BY RetireStates DEF LsuInv, LsuType, leaves
<1>2. CASE data_fast_load_complete(e)
  <2>1. DrivesFirst(e) /\ ins.op = "load" /\ ~crosses_word(ins)
    BY <1>2 DEF data_fast_load_complete
  <2>2. Proper(ins) /\ issued = 0 /\ mem = start
    BY <2>1, FirstDriven DEF Untouched
  <2>3. mem = Written(start, ins)
    BY <2>1, <2>2 DEF Written
  <2>4. rdata(e) = Loaded(start, ins)
    BY <1>2, FastLoad
  <2>5. issued + (IF data_fast_load_complete(e) THEN 1 ELSE 0) = IF crosses_word(ins) THEN 2 ELSE 1
    BY <1>2, <2>1, <2>2
  <2> QED
    BY <1>1, <2>2, <2>3, <2>4, <2>5 DEF Proper
<1>3. CASE ~data_fast_load_complete(e) /\ state = "Init"
  <2>1. StoredInv
    BY <1>1, <1>3 DEF Retires, AccessInv
  <2> QED
    BY <1>1, <1>3, <2>1 DEF StoredInv, Proper
<1>4. CASE ~data_fast_load_complete(e) /\ state = "AccessWaitValid"
  <2>1. ValidInv /\ ~crosses_word(ins)
    BY <1>1, <1>4 DEF Retires, AccessInv, IdleInv
  <2>2. Located(ins) /\ Translatable(ins)
    BY <1>1, <2>1 DEF ValidInv, Proper, Allowed, Located
  <2>3. offset(ins) + ins.size <= 8
    BY <1>1, <2>1, <2>2, StaysInWord
  <2>4. rdata(e) = Loaded(start, ins)
    <3>1. rdata(e) = extract_load_data(WordAt(start, FirstWord(ins)), <<>>, ins)
      BY <1>4, <2>1 DEF rdata, ValidInv
    <3> QED
      BY <2>2, <2>3, <3>1, ExtractOne
  <2> QED
    BY <1>1, <1>4, <2>1, <2>4 DEF ValidInv, Proper
<1>5. CASE ~data_fast_load_complete(e) /\ state = "SplitAccessWaitValid"
  <2>1. SplitValidInv
    BY <1>1, <1>5 DEF Retires, AccessInv, IdleInv
  <2>2. Located(ins) /\ Translatable(ins)
    BY <1>1, <2>1 DEF SplitValidInv, Proper, Allowed, Located
  <2>3. rdata(e) = Loaded(start, ins)
    <3>1. rdata(e) = extract_load_data(WordAt(start, FirstWord(ins)),
                                       WordAt(start, FirstWord(ins) + 8), ins)
      BY <1>5, <2>1 DEF rdata, SplitValidInv
    <3> QED
      BY <2>2, <3>1, ExtractTwo
  <2>4. mem = Written(start, ins)
    BY <2>1 DEF SplitValidInv, Written
  <2>5. issued + (IF data_fast_load_complete(e) THEN 1 ELSE 0) = IF crosses_word(ins) THEN 2 ELSE 1
    BY <1>5, <2>1 DEF SplitValidInv
  <2> QED
    BY <1>1, <2>1, <2>3, <2>4, <2>5 DEF SplitValidInv, Proper
<1> QED
  BY <1>1, <1>2, <1>3, <1>4, <1>5 DEF Retires

LEMMA LeavingStep ==
  ASSUME LsuInv, NEW e, leaves(e), Clock(e)
  PROVE  LsuInv' /\ ExactlyOnce'
<1>1. state' = "Init" /\ walk' = "none" /\ Quiet' /\ mem' = mem
  BY LeavesQuietly
<1>2. is_new' /\ start' = mem' /\ issued' = 0 /\ ins' \in Insts \cup {None} /\ ins # None
  BY DEF Clock, Stage, History, leaves
<1>3. is_new' \in BOOLEAN
  BY <1>2 DEF Clock, Stage
<1>4. LsuType'
  BY <1>1, <1>2, <1>3 DEF LsuInv, LsuType
<1>5. IdleInv'
  BY <1>1, <1>2 DEF IdleInv, Untouched
<1>6. LsuInv'
  BY <1>2, <1>4, <1>5 DEF LsuInv
<1>7. /\ last'.ins = ins /\ last'.trap = raise_trap(e) /\ last'.before = start
      /\ last'.issued = issued + (IF data_fast_load_complete(e) THEN 1 ELSE 0)
      /\ last'.result = IF ins.op \in {"load", "amo"} /\ ~raise_trap(e) THEN rdata(e) ELSE <<>>
  BY DEF Clock, History
<1>8. CASE raise_trap(e)
  <2>1. Untouched /\ ~data_fast_load_complete(e)
    BY <1>2, <1>8, TrapIsEarly, OneRequest DEF valid
  <2>2. last'.issued = 0 /\ start' = last'.before /\ last'.trap
    BY <1>1, <1>2, <1>7, <1>8, <2>1 DEF Untouched
  <2> QED
    BY <1>6, <2>2 DEF ExactlyOnce
<1>9. CASE ~raise_trap(e)
  <2>1. ~last'.trap
    BY <1>7, <1>9
  <2>2. ASSUME inst_is_memop(last'.ins)
        PROVE  /\ Allowed(last'.ins)
               /\ last'.issued = IF crosses_word(last'.ins) THEN 2 ELSE 1
               /\ start' = Written(last'.before, last'.ins)
               /\ last'.ins.op # "store" => last'.result = Loaded(last'.before, last'.ins)
    <3>1. inst_is_memop(ins)
      BY <1>7, <2>2
    <3>2. ins.op # "store" => ins.op \in {"load", "amo"}
      BY <3>1 DEF inst_is_memop
    <3> QED
      BY <1>1, <1>2, <1>7, <1>9, <3>1, <3>2, AccessDone
  <2> QED
    BY <1>6, <2>1, <2>2 DEF ExactlyOnce
<1> QED
  BY <1>8, <1>9

-----------------------------------------------------------------------------
(***************************************************************************)
(* An instruction stays.                                                   *)
(***************************************************************************)

\* No instruction in MEM.
LEMMA EmptyStep ==
  ASSUME LsuInv, NEW e, ins = None, Clock(e)
  PROVE  LsuInv' /\ ExactlyOnce'
<1>1. IdleInv /\ ~valid(e)
  BY DEF LsuInv, valid
<1>2. /\ ~first_data_mem_fire(e) /\ ~split_data_mem_fire(e) /\ ~translation_mem_fire(e)
      /\ ~data_read_mem_fire(e) /\ ~leaves(e)
  BY <1>1, OneRequest DEF data_read_mem_fire, leaves
<1>3. mem' = mem
  BY <1>2, NoWrite DEF LsuInv
<1>4. is_new' /\ is_new' \in BOOLEAN /\ start' = mem' /\ issued' = 0 /\ ins' \in Insts \cup {None}
  BY DEF Clock, Stage, History
<1>5. state' = "Init" /\ walk' = "none" /\ Quiet'
  BY <1>1, <1>2 DEF Clock, memunit, NextState, response_will_be_outstanding, Translation, DataPort,
                    IdleInv, Quiet
<1>6. last' = None
  BY <1>2 DEF Clock, History
<1> QED
  BY <1>3, <1>4, <1>5, <1>6 DEF LsuInv, LsuType, IdleInv, Untouched, ExactlyOnce

\* What a cycle that keeps the instruction leaves alone.
Stays(e) ==
  /\ ins \in Insts /\ ins # None /\ ins' = ins /\ ~is_new' /\ is_new' \in BOOLEAN
  /\ start' = start /\ last' = None /\ valid(e) /\ stall(e) /\ ~leaves(e)

LEMMA StayingFacts ==
  ASSUME LsuInv, NEW e, ins # None, ~leaves(e), Clock(e)
  PROVE  /\ Stays(e) /\ ~ins.expt
         /\ issued' = IF first_data_mem_fire(e) \/ split_data_mem_fire(e)
                      THEN issued + 1 ELSE issued
<1>1. stall(e) /\ valid(e)
  BY DEF leaves, stall
<1>2. ins \in Insts /\ ~ins.expt
  BY <1>1 DEF LsuInv, LsuType, valid, raise_trap, raise_expt
<1>3. ins' = ins /\ is_new' = FALSE
  BY DEF Clock, Stage
<1> QED
  BY <1>1, <1>2, <1>3 DEF Stays, Clock, History

\* A cycle without a request of the instruction.
LEMMA WaitingStep ==
  ASSUME LsuInv, NEW e, ins # None, ~leaves(e), Clock(e),
         ~first_data_mem_fire(e), ~split_data_mem_fire(e)
  PROVE  mem' = mem /\ issued' = issued
BY NoWrite, StayingFacts DEF LsuInv

\* The checks of the first cycle.
LEMMA InitStep ==
  ASSUME LsuInv, NEW e, ins # None, is_new, ~leaves(e), Clock(e)
  PROVE  AccessInv'
<1>1. IdleInv /\ Stays(e) /\ ~ins.expt
  BY StayingFacts DEF LsuInv
<1>2. inst_is_memop(ins)
  BY <1>1 DEF Stays, stall, IdleInv
<1>3. /\ ~first_data_mem_fire(e) /\ ~split_data_mem_fire(e) /\ ~translation_mem_fire(e)
      /\ ~data_read_mem_fire(e)
  BY <1>1, OneRequest DEF IdleInv, data_read_mem_fire
<1>4. Untouched'
  BY <1>1, <1>3, WaitingStep DEF IdleInv, Untouched, Stays
<1>5. Quiet' /\ walk' = "none" /\ req_paddr' = ins.addr
  BY <1>1, <1>3 DEF Clock, memunit, DataPort, Translation, IdleInv, Quiet, Stays
<1>6. state' = InitNext
  BY <1>1 DEF Clock, memunit, NextState, IdleInv, Stays
<1>7. CASE InitFault
  BY <1>1, <1>2, <1>4, <1>5, <1>6, <1>7 DEF InitNext, AccessInv, Stays, inst_is_memop
<1>8. CASE ~InitFault /\ ins.sv39
  <2>1. state' = "TranslateWait" /\ Translatable(ins)
    BY <1>2, <1>6, <1>8 DEF InitNext, InitFault, Translatable
  <2>2. TranslateInv'
    BY <1>1, <1>4, <1>5, <1>8, <2>1 DEF TranslateInv, Stays, Translatable
  <2> QED
    BY <1>1, <1>2, <2>1, <2>2 DEF AccessInv, Stays, inst_is_memop
<1>9. CASE ~InitFault /\ ~ins.sv39
  <2>1. state' = "AccessWaitReady" /\ Proper(ins)
    BY <1>1, <1>2, <1>6, <1>9 DEF InitNext, InitFault, Translatable, Proper, Allowed
  <2>2. Target(ins) = ins.addr
    <3>1. ins.addr + 0 = ins.addr
      BY <1>1, InstFacts DEF Stays
    <3> QED
      BY <1>9, <3>1 DEF Target, Phys
  <2>3. ReadyInv'
    BY <1>1, <1>4, <1>5, <2>1, <2>2 DEF ReadyInv, Stays
  <2> QED
    BY <1>1, <1>2, <1>5, <2>1, <2>3 DEF AccessInv, Stays, inst_is_memop
<1> QED
  BY <1>7, <1>8, <1>9

\* The request for the first word is accepted.
LEMMA FirstStep ==
  ASSUME LsuInv, NEW e, ins # None, ~leaves(e), Clock(e), first_data_mem_fire(e)
  PROVE  AccessInv'
<1>1. /\ ins \in Insts /\ ~is_new /\ AccessInv /\ Proper(ins) /\ Located(ins)
      /\ FirstAddr = Target(ins) /\ Quiet /\ Untouched
      /\ valid(e) /\ state \in {"TranslateWait", "AccessWaitReady"}
      /\ ~data_fast_load_complete(e)
  BY FirstDriven DEF first_data_mem_fire
<1>2. Stays(e) /\ ~split_data_mem_fire(e) /\ ~ins.expt /\ inst_is_memop(ins)
  BY <1>1, StayingFacts, OneRequest DEF AccessInv
<1>3. \/ state = "AccessWaitReady"
      \/ state = "TranslateWait" /\ translated_access_can_issue(e) /\ translation_rsp_valid(e)
           /\ ~TranslatedFault
  BY <1>1 DEF first_data_mem_fire, DrivesFirst, translated_access_can_issue
<1>4. ~translation_mem_fire(e)
  BY <1>3 DEF translation_mem_fire, translation_rsp_valid
<1>5. state' = AfterFirst
  BY <1>1, <1>3 DEF Clock, memunit, NextState
<1>6. walk' = "none" /\ issued' = 1
  <2>1. issued' = issued + 1 /\ issued = 0
    BY <1>1, StayingFacts DEF Untouched
  <2> QED
    BY <1>3, <2>1 DEF Clock, Translation
<1>7. req_paddr' = Target(ins)
  <2>1. CASE state = "AccessWaitReady"
    <3>1. ~translated_access_can_issue(e)
      BY <2>1 DEF translated_access_can_issue, translation_rsp_valid
    <3> QED
      BY <1>1, <1>2, <2>1, <3>1 DEF Clock, memunit, AccessInv, ReadyInv, Stays
  <2>2. CASE state = "TranslateWait"
    BY <1>1, <1>2, <1>3, <2>2 DEF Clock, memunit, FirstAddr, Stays
  <2> QED
    BY <1>1, <2>1, <2>2
<1>8. mem' = IF ins.op = "load" THEN mem ELSE FirstWritten(mem, ins)
  BY <1>1, FirstWrite DEF LsuInv
<1>9. mem = start /\ start \in [Bytes -> Int]
  BY <1>1 DEF Untouched, LsuInv, LsuType
<1>10. CASE ins.op # "store"
  <2>1. data_read_mem_fire(e) /\ state' = "AccessWaitValid"
    BY <1>5, <1>10 DEF data_read_mem_fire, AfterFirst
  <2>2. mem_owner' = "Data"
    BY <1>4, <2>1 DEF Clock, memunit
  <2>3. answer' = WordAt(start, FirstWord(ins))
    <3>1. answer' = ReadWord(FirstAddr)
      BY <1>2, <1>4, <2>1 DEF Clock, DataPort
    <3> QED
      BY <3>1, FirstAnswer
  <2>4. mem' = Written(start, ins)
    <3>1. CASE ins.op = "load"
      BY <1>8, <1>9, <3>1 DEF Written
    <3>2. CASE ins.op = "amo"
      <4>1. ~crosses_word(ins)
        BY <3>2 DEF crosses_word
      <4>2. offset(ins) + ins.size <= 8
        BY <1>1, <4>1, StaysInWord DEF Proper
      <4> QED
        BY <1>1, <1>8, <1>9, <3>2, <4>2, OneWord DEF Proper
    <3> QED
      BY <1>2, <1>10, <3>1, <3>2 DEF inst_is_memop
  <2>5. ValidInv'
    BY <1>1, <1>2, <1>6, <1>7, <1>10, <2>2, <2>3, <2>4 DEF ValidInv, Stays
  <2> QED
    BY <1>2, <1>6, <2>1, <2>5 DEF AccessInv, Stays
<1>11. CASE ins.op = "store"
  <2>1. ~data_read_mem_fire(e) /\ mem' = FirstWritten(start, ins)
    BY <1>8, <1>9, <1>11 DEF data_read_mem_fire
  <2>2. Quiet'
    BY <1>1, <1>4, <2>1 DEF Clock, memunit, DataPort, Quiet
  <2>3. CASE crosses_word(ins)
    <3>1. state' = "SplitAccessWaitReady"
      BY <1>5, <1>11, <2>3 DEF AfterFirst
    <3>2. SplitReadyInv'
      BY <1>1, <1>2, <1>6, <1>7, <1>11, <2>1, <2>2, <2>3 DEF SplitReadyInv, Stays
    <3> QED
      BY <1>2, <1>6, <3>1, <3>2 DEF AccessInv, Stays
  <2>4. CASE ~crosses_word(ins)
    <3>1. state' = "Init"
      BY <1>5, <1>11, <2>4 DEF AfterFirst
    <3>2. offset(ins) + ins.size <= 8
      BY <1>1, <2>4, StaysInWord DEF Proper
    <3>3. mem' = Written(start, ins)
      BY <1>1, <1>9, <1>11, <2>1, <3>2, OneWord DEF Proper
    <3>4. StoredInv'
      BY <1>1, <1>2, <1>6, <1>11, <2>2, <2>4, <3>3 DEF StoredInv, Stays
    <3> QED
      BY <1>2, <1>6, <3>1, <3>4 DEF AccessInv, Stays
  <2> QED
    BY <2>3, <2>4
<1> QED
  BY <1>10, <1>11

\* An access waits for its translation.
LEMMA TranslateStep ==
  ASSUME LsuInv, NEW e, ins # None, ~is_new, state = "TranslateWait", ~leaves(e), Clock(e),
         ~first_data_mem_fire(e)
  PROVE  AccessInv'
<1>1. AccessInv /\ TranslateInv /\ Stays(e) /\ ~split_data_mem_fire(e)
  BY StayingFacts, OneRequest DEF LsuInv, AccessInv
<1>2. ~data_fast_load_complete(e) /\ ~data_read_mem_fire(e)
  BY <1>1 DEF Stays, stall, data_read_mem_fire
<1>3. Untouched'
  BY <1>1, WaitingStep DEF TranslateInv, Untouched, Stays
<1>4. inst_is_memop(ins) /\ ~ins.expt
  BY <1>1 DEF AccessInv
<1>5. CASE ~translation_rsp_valid(e)
  <2>1. state' = "TranslateWait"
    BY <1>1, <1>5 DEF Clock, memunit, NextState, Stays
  <2>2. CASE translation_mem_fire(e)
    <3>1. walk' = "wait" /\ mem_owner' = "Translation"
      BY <1>1, <1>5, <2>2 DEF Clock, memunit, Translation, translation_mem_fire, Stays
    <3>2. TranslateInv'
      BY <1>1, <1>3, <3>1 DEF TranslateInv, Stays
    <3> QED
      BY <1>1, <1>4, <2>1, <3>2 DEF AccessInv, Stays
  <2>3. CASE ~translation_mem_fire(e)
    <3>1. walk # "wait" => walk' \in {"req", "done"} /\ Quiet'
      <4>1. ASSUME walk # "wait" PROVE walk' \in {"req", "done"}
        BY <1>1, <1>5, <2>3, <4>1 DEF Clock, Translation, TranslateInv, Stays
      <4>2. ASSUME walk # "wait" PROVE Quiet'
        BY <1>1, <1>2, <2>3, <4>2 DEF Clock, memunit, DataPort, TranslateInv, Quiet
      <4> QED
        BY <4>1, <4>2
    <3>2. walk = "wait" => /\ walk' \in {"req", "wait", "done"}
                           /\ IF walk' = "wait" THEN mem_owner' = "Translation" ELSE Quiet'
      <4>1. CASE walk = "wait" /\ answer # None /\ e.rvalid
        BY <1>1, <1>2, <1>5, <2>3, <4>1
           DEF Clock, memunit, DataPort, Translation, Quiet, Stays
      <4>2. CASE walk = "wait" /\ ~(answer # None /\ e.rvalid)
        BY <1>1, <1>2, <1>5, <2>3, <4>2
           DEF Clock, memunit, DataPort, Translation, TranslateInv, Stays
      <4> QED
        BY <4>1, <4>2
    <3>3. TranslateInv'
      BY <1>1, <1>3, <3>1, <3>2 DEF TranslateInv, Stays
    <3> QED
      BY <1>1, <1>4, <2>1, <3>3 DEF AccessInv, Stays
  <2> QED
    BY <2>2, <2>3
<1>6. CASE translation_rsp_valid(e)
  <2>1. walk \in {"none", "done"} /\ ~translation_mem_fire(e)
    BY <1>6 DEF translation_rsp_valid, translation_mem_fire
  <2>2. walk' = "none" /\ Quiet'
    BY <1>1, <1>2, <1>6, <2>1 DEF Clock, memunit, DataPort, Translation, TranslateInv, Quiet
  <2>3. CASE TranslatedFault
    <3>1. state' = "Fault"
      BY <1>1, <1>6, <2>3 DEF Clock, memunit, NextState, Stays
    <3> QED
      BY <1>1, <1>3, <1>4, <2>2, <3>1 DEF AccessInv, Stays
  <2>4. CASE ~TranslatedFault
    <3>1. state' = "AccessWaitReady"
      BY <1>1, <1>2, <1>6, <2>4 DEF Clock, memunit, NextState, Stays
    <3>2. translated_access_can_issue(e) /\ DrivesFirst(e)
      BY <1>6, <2>4 DEF translated_access_can_issue, DrivesFirst
    <3>3. Proper(ins) /\ translate(ins.addr) = Target(ins)
      BY <3>2, FirstDriven DEF FirstAddr
    <3>4. req_paddr' = Target(ins)
      BY <1>1, <3>2, <3>3 DEF Clock, memunit, Stays
    <3>5. ReadyInv'
      BY <1>1, <1>3, <2>2, <3>3, <3>4 DEF ReadyInv, Stays
    <3> QED
      BY <1>1, <1>4, <2>2, <3>1, <3>5 DEF AccessInv, Stays
  <2> QED
    BY <2>3, <2>4
<1> QED
  BY <1>5, <1>6

\* An access waits for the port to accept its first word.
LEMMA ReadyStep ==
  ASSUME LsuInv, NEW e, ins # None, ~is_new, state = "AccessWaitReady", ~leaves(e), Clock(e),
         ~first_data_mem_fire(e)
  PROVE  AccessInv'
<1>1. AccessInv /\ ReadyInv /\ Stays(e) /\ ~split_data_mem_fire(e) /\ ~translation_mem_fire(e)
  BY StayingFacts, OneRequest DEF LsuInv, AccessInv
<1>2. ~data_fast_load_complete(e) /\ ~data_read_mem_fire(e) /\ ~translated_access_can_issue(e)
  BY <1>1 DEF Stays, stall, data_read_mem_fire, translated_access_can_issue,
              translation_rsp_valid
<1>3. Untouched'
  BY <1>1, WaitingStep DEF ReadyInv, Untouched, Stays
<1>4. state' = "AccessWaitReady" /\ walk' = "none" /\ req_paddr' = req_paddr /\ Quiet'
  BY <1>1, <1>2 DEF Clock, memunit, NextState, Translation, DataPort, ReadyInv, Quiet, Stays
<1>5. ReadyInv'
  BY <1>1, <1>3, <1>4 DEF ReadyInv, Stays
<1> QED
  BY <1>1, <1>4, <1>5 DEF AccessInv, Stays

\* A load or AMO waits for its first word.
LEMMA ValidStep ==
  ASSUME LsuInv, NEW e, ins # None, ~is_new, state = "AccessWaitValid", ~leaves(e), Clock(e)
  PROVE  AccessInv'
<1>1. /\ AccessInv /\ ValidInv /\ Stays(e) /\ ~first_data_mem_fire(e)
      /\ ~split_data_mem_fire(e) /\ ~translation_mem_fire(e)
  BY StayingFacts, OneRequest DEF LsuInv, AccessInv
<1>2. ~data_read_mem_fire(e) /\ ~translated_access_can_issue(e)
  BY <1>1 DEF data_read_mem_fire, translated_access_can_issue, translation_rsp_valid
<1>3. mem' = mem /\ issued' = issued /\ walk' = "none" /\ req_paddr' = req_paddr
  BY <1>1, <1>2, WaitingStep DEF Clock, memunit, Translation, Stays
<1>4. CASE ~data_mem_rvalid(e)
  <2>1. ~(answer # None /\ e.rvalid) /\ mem_owner = "Data"
    BY <1>1, <1>4 DEF data_mem_rvalid, ValidInv
  <2>2. state' = "AccessWaitValid" /\ mem_owner' = mem_owner /\ answer' = answer
    BY <1>1, <1>2, <1>4, <2>1 DEF Clock, memunit, NextState, DataPort, Stays
  <2>3. ValidInv'
    BY <1>1, <1>3, <2>2 DEF ValidInv, Stays
  <2> QED
    BY <1>1, <1>3, <2>2, <2>3 DEF AccessInv, Stays
<1>5. CASE data_mem_rvalid(e)
  <2>1. crosses_word(ins)
    BY <1>1, <1>5 DEF Stays, stall
  <2>2. ins.op = "load"
    BY <1>1, <2>1 DEF AccessInv, ValidInv, crosses_word, inst_is_memop
  <2>3. state' = "SplitAccessWaitReady" /\ req_first_rdata' = answer
    BY <1>1, <1>5, <2>1 DEF Clock, memunit, NextState, Stays
  <2>4. Quiet'
    BY <1>1, <1>2, <1>5 DEF Clock, memunit, DataPort, Quiet, data_mem_rvalid
  <2>5. mem' = start
    BY <1>1, <1>3, <2>2 DEF ValidInv, Written
  <2>6. SplitReadyInv'
    BY <1>1, <1>3, <2>1, <2>2, <2>3, <2>4, <2>5 DEF ValidInv, SplitReadyInv, Stays
  <2> QED
    BY <1>1, <1>3, <2>3, <2>6 DEF AccessInv, Stays
<1> QED
  BY <1>4, <1>5

\* The second word of an access.
LEMMA SplitReadyStep ==
  ASSUME LsuInv, NEW e, ins # None, ~is_new, state = "SplitAccessWaitReady", ~leaves(e), Clock(e)
  PROVE  AccessInv'
<1>1. /\ AccessInv /\ SplitReadyInv /\ Stays(e) /\ ~first_data_mem_fire(e)
      /\ ~translation_mem_fire(e)
  BY StayingFacts, OneRequest DEF LsuInv, AccessInv
<1>2. ~translated_access_can_issue(e)
  BY DEF translated_access_can_issue, translation_rsp_valid
<1>3. walk' = "none" /\ req_paddr' = req_paddr /\ req_first_rdata' = req_first_rdata
  BY <1>1, <1>2 DEF Clock, memunit, Translation, Stays
<1>4. CASE ~split_data_mem_fire(e)
  <2>1. mem' = mem /\ issued' = issued /\ ~data_read_mem_fire(e)
    BY <1>1, <1>4, WaitingStep DEF data_read_mem_fire
  <2>2. state' = "SplitAccessWaitReady" /\ Quiet'
    BY <1>1, <1>4, <2>1 DEF Clock, memunit, NextState, DataPort, SplitReadyInv, Quiet, Stays
  <2>3. SplitReadyInv'
    BY <1>1, <1>3, <2>1, <2>2 DEF SplitReadyInv, Stays
  <2> QED
    BY <1>1, <1>3, <2>2, <2>3 DEF AccessInv, Stays
<1>5. CASE split_data_mem_fire(e)
  <2>1. issued' = 2
    <3>1. issued' = issued + 1 /\ issued = 1
      BY <1>1, <1>5, StayingFacts DEF SplitReadyInv
    <3> QED
      BY <3>1
  <2>2. state' = AfterSecond
    BY <1>1, <1>5 DEF Clock, memunit, NextState, Stays
  <2>3. Located(ins) /\ Proper(ins) /\ req_paddr = Target(ins) /\ crosses_word(ins) /\ ins \in Insts
    BY <1>5, SecondAnswer DEF SplitReadyInv
  <2>4. CASE ins.op = "store"
    <3>1. mem' = Written(start, ins)
      BY <1>1, <1>5, <2>3, <2>4, SecondWrite DEF LsuInv, SplitReadyInv, Proper
    <3>2. ~data_read_mem_fire(e) /\ state' = "Init"
      BY <2>2, <2>4 DEF data_read_mem_fire, AfterSecond
    <3>3. Quiet'
      BY <1>1, <3>2 DEF Clock, memunit, DataPort, SplitReadyInv, Quiet
    <3>4. StoredInv'
      BY <1>1, <2>1, <2>3, <2>4, <3>1, <3>3 DEF StoredInv, Stays
    <3> QED
      BY <1>1, <1>3, <3>2, <3>4 DEF AccessInv, Stays
  <2>5. CASE ins.op # "store"
    <3>1. data_read_mem_fire(e) /\ state' = "SplitAccessWaitValid" /\ ins.op = "load"
      BY <1>1, <1>5, <2>2, <2>3, <2>5
         DEF data_read_mem_fire, AfterSecond, AccessInv, inst_is_memop, crosses_word
    <3>2. mem_owner' = "Data" /\ answer' = ReadWord(SecondAddr)
      BY <1>1, <1>5, <3>1 DEF Clock, memunit, DataPort
    <3>3. answer' = WordAt(start, FirstWord(ins) + 8)
      BY <1>5, <2>5, <3>2, SecondAnswer
    <3>4. mem' = start
      <4>1. mem' = mem
        BY <1>1, <3>1 DEF Clock, DataPort, LsuInv, LsuType
      <4> QED
        BY <1>1, <2>5, <4>1 DEF SplitReadyInv
    <3>5. SplitValidInv'
      BY <1>1, <1>3, <2>1, <2>3, <3>1, <3>2, <3>3, <3>4 DEF SplitReadyInv, SplitValidInv, Stays
    <3> QED
      BY <1>1, <1>3, <3>1, <3>5 DEF AccessInv, Stays
  <2> QED
    BY <2>4, <2>5
<1> QED
  BY <1>4, <1>5

\* A load waits for its second word.
LEMMA SplitValidStep ==
  ASSUME LsuInv, NEW e, ins # None, ~is_new, state = "SplitAccessWaitValid", ~leaves(e), Clock(e)
  PROVE  AccessInv'
<1>1. /\ AccessInv /\ SplitValidInv /\ Stays(e) /\ ~first_data_mem_fire(e)
      /\ ~split_data_mem_fire(e) /\ ~translation_mem_fire(e)
  BY StayingFacts, OneRequest DEF LsuInv, AccessInv
<1>2. ~data_read_mem_fire(e) /\ ~data_mem_rvalid(e)
  BY <1>1 DEF data_read_mem_fire, Stays, stall
<1>3. mem' = mem /\ issued' = issued /\ walk' = "none"
  BY <1>1, WaitingStep DEF Clock, Translation
<1>4. ~(answer # None /\ e.rvalid) /\ mem_owner = "Data"
  BY <1>1, <1>2 DEF data_mem_rvalid, SplitValidInv
<1>5. /\ state' = "SplitAccessWaitValid" /\ mem_owner' = mem_owner /\ answer' = answer
      /\ req_first_rdata' = req_first_rdata
  BY <1>1, <1>2, <1>4 DEF Clock, memunit, NextState, DataPort, Stays
<1>6. SplitValidInv'
  BY <1>1, <1>3, <1>5 DEF SplitValidInv, Stays
<1> QED
  BY <1>1, <1>3, <1>5, <1>6 DEF AccessInv, Stays

LEMMA StayingStep ==
  ASSUME LsuInv, NEW e, ins # None, ~leaves(e), Clock(e)
  PROVE  LsuInv' /\ ExactlyOnce'
<1>1. Stays(e)
  BY StayingFacts
<1>2. AccessInv'
  <2>1. CASE is_new
    BY <2>1, InitStep
  <2>2. CASE first_data_mem_fire(e)
    BY <2>2, FirstStep
  <2>3. CASE ~is_new /\ ~first_data_mem_fire(e)
    <3>1. AccessInv /\ state # "Fault" /\ state # "Init"
      <4>1. AccessInv
        BY <2>3 DEF LsuInv
      <4>2. state # "Fault"
        BY <1>1 DEF Stays, valid, raise_trap, raise_expt
      <4>3. state # "Init"
        BY <1>1, <2>3 DEF Stays, stall
      <4> QED
        BY <4>1, <4>2, <4>3
    <3>2. CASE state = "TranslateWait"
      BY <2>3, <3>2, TranslateStep
    <3>3. CASE state = "AccessWaitReady"
      BY <2>3, <3>3, ReadyStep
    <3>4. CASE state = "AccessWaitValid"
      BY <2>3, <3>4, ValidStep
    <3>5. CASE state = "SplitAccessWaitReady"
      BY <2>3, <3>5, SplitReadyStep
    <3>6. CASE state = "SplitAccessWaitValid"
      BY <2>3, <3>6, SplitValidStep
    <3> QED
      BY <3>1, <3>2, <3>3, <3>4, <3>5, <3>6 DEF AccessInv
  <2> QED
    BY <2>1, <2>2, <2>3
<1>3. mem' \in [Bytes -> Int]
  <2>1. mem \in [Bytes -> Int] /\ \A a \in Bytes : a \in Int
    BY LsuAssumption DEF LsuInv, LsuType, Bytes
  <2>2. offset(ins) \in Int
    BY <1>1, InstFacts DEF Stays
  <2>3. \A l \in Int : FirstByte(ins, l) \in Int /\ split_store_second_wdata(ins, l) \in Int
    BY <2>2 DEF FirstByte, split_store_second_wdata
  <2>4. CASE first_data_mem_fire(e)
    <3>1. ~split_data_mem_fire(e)
      BY <2>4, OneRequest
    <3>2. \A a : a \in FirstLanes(ins) => a \in Int
      BY DEF FirstLanes
    <3> QED
      BY <2>1, <2>3, <3>1, <3>2 DEF Clock, DataPort
  <2>5. CASE ~first_data_mem_fire(e)
    <3>1. \A a : a \in SecondLanes(ins) => a \in Int
      BY DEF SecondLanes
    <3> QED
      BY <2>1, <2>3, <2>5, <3>1 DEF Clock, DataPort
  <2> QED
    BY <2>4, <2>5
<1>4. LsuType'
  BY <1>1, <1>3 DEF LsuInv, LsuType, Stays
<1> QED
  BY <1>1, <1>2, <1>4 DEF LsuInv, ExactlyOnce, Stays

-----------------------------------------------------------------------------
(***************************************************************************)
(* The invariant and the properties.                                       *)
(***************************************************************************)

LEMMA LsuInit == Init => LsuInv /\ ExactlyOnce
<1> SUFFICES ASSUME Init PROVE LsuInv /\ ExactlyOnce
  OBVIOUS
<1>1. mem \in [Bytes -> Int] /\ start = mem
  <2>1. \A a \in Bytes : 100 + a \in Int
    BY LsuAssumption DEF Bytes
  <2> QED
    BY <2>1 DEF Init, Bytes
<1>2. is_new \in BOOLEAN
  BY DEF Init
<1> QED
  BY <1>1, <1>2 DEF Init, LsuInv, LsuType, IdleInv, Quiet, Untouched, ExactlyOnce

LEMMA LsuStep == LsuInv /\ ExactlyOnce /\ [Next]_vars => LsuInv' /\ ExactlyOnce'
<1> SUFFICES ASSUME LsuInv, ExactlyOnce, [Next]_vars PROVE LsuInv' /\ ExactlyOnce'
  OBVIOUS
<1>1. ASSUME NEW e, Clock(e) PROVE LsuInv' /\ ExactlyOnce'
  <2>1. CASE ins = None
    BY <1>1, <2>1, EmptyStep
  <2>2. CASE ins # None /\ leaves(e)
    BY <1>1, <2>2, LeavingStep
  <2>3. CASE ins # None /\ ~leaves(e)
    BY <1>1, <2>3, StayingStep
  <2> QED
    BY <2>1, <2>2, <2>3
<1>2. CASE UNCHANGED vars
  BY <1>2 DEF vars, lsuVars, LsuInv, LsuType, IdleInv, Quiet, Untouched, AccessInv, StoredInv,
              TranslateInv, ReadyInv, ValidInv, SplitReadyInv, SplitValidInv, ExactlyOnce
<1> QED
  BY <1>1, <1>2 DEF Next

LEMMA LsuInvariant == Spec => [](LsuInv /\ ExactlyOnce)
BY LsuInit, LsuStep, PTL DEF Spec

\* An instruction that retires has done each word of its access once and byte by
\* byte, one that traps nothing (memunit.sv, csrunit.sv).
THEOREM AccessExactlyOnce == Spec => []ExactlyOnce
BY LsuInvariant, PTL

\* No answer of the data port is left behind by an instruction that goes
\* (DiscardWaitValid of memunit.sv is never entered).
THEOREM NothingIsAbandoned == Spec => []NothingAbandoned
<1>1. LsuInv => NothingAbandoned
  BY DEF LsuInv, LsuType, IdleInv, Quiet, AccessInv, NothingAbandoned
<1> QED
  BY <1>1, LsuInvariant, PTL
=============================================================================
