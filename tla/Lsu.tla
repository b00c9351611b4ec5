--------------------------------- MODULE Lsu --------------------------------
(***************************************************************************)
(* The MEM stage of the core, one step per clock cycle: the instruction    *)
(* that ex_mem_fifo holds (core.sv), memunit.sv, which turns it into       *)
(* accesses of the data port, and the decision of csrunit.sv to trap, which*)
(* takes the instruction away from it.                                     *)
(*                                                                         *)
(* The registers req_* of memunit.sv are those of the instruction in MEM.  *)
(* Bytes are values: the store operand has bytes 1 to 8, so that a byte    *)
(* that goes astray shows.  Sign extension is left out.  The data port     *)
(* performs requests in the order in which it accepts them, which is what  *)
(* DCache shows; the translation unit, external here, answers at once (a   *)
(* TLB hit) or after reads of its own.                                     *)
(***************************************************************************)
EXTENDS Integers

CONSTANTS
  Insts,            \* instructions that may reach MEM
  RamBytes,         \* RAM is 0 .. RamBytes - 1
  RamEnd,           \* MMAP_RAM_END, which counts the words of RAM as bytes
  RomBase, RomEnd,  \* first and last byte of ROM; nobody answers behind it
  DevBase,          \* devices answer from here on
  PageBytes,
  PageMap,          \* physical page of a virtual page
  Levels,           \* of a page table
  None

\* Translation gives an address unless it faults.
InstOK(i) ==
  /\ i.op \in {"load", "store", "amo", "alu"} /\ i.addr \in Nat /\ i.size \in {1, 2, 4, 8}
  /\ i.sv39 \in BOOLEAN /\ i.tfault \in BOOLEAN /\ i.pmp \in BOOLEAN /\ i.expt \in BOOLEAN
  /\ i.sv39 /\ ~i.tfault => PageMap[i.addr \div PageBytes] \in Nat

ASSUME LsuAssumption ==
  /\ PageBytes \in Nat \ {0} /\ PageBytes % 8 = 0
  /\ RamBytes \in Nat /\ RamEnd \in Nat /\ RamEnd % 8 = 0 /\ RamEnd + 8 <= RamBytes
  /\ RomBase \in Nat /\ RomBase % 8 = 0 /\ RomBase >= RamBytes /\ RamBytes % 8 = 0
  /\ RomEnd \in Nat /\ RomEnd % 8 = 7 /\ RomEnd > RomBase
  /\ DevBase \in Nat /\ DevBase > RomEnd + 1 /\ DevBase % 8 = 0
  /\ Levels \in Nat \ {0}
  /\ \A i \in Insts : InstOK(i)
  /\ None \notin Insts /\ None \notin [0 .. 7 -> Int]

VARIABLES
  ins, is_new,                  \* memq_rdata or None; mems_is_new
  state, mem_owner, req_paddr, req_first_rdata,
  walk, level,                  \* none, req, wait or done; levels below this one
  answer,                       \* the word the data port still owes, or None
  mem,
  start, issued,                \* history: memory when ins came, its data requests
  last                          \* history: the instruction that has just left

lsuVars == <<state, mem_owner, req_paddr, req_first_rdata>>
vars == <<ins, is_new, lsuVars, walk, level, answer, mem, start, issued, last>>

-----------------------------------------------------------------------------
(***************************************************************************)
(* Instructions: operation, virtual address, size; whether translation is  *)
(* on (need_translate) and faults, whether the PMP allows the access and   *)
(* whether an earlier stage raised an exception.                           *)
(***************************************************************************)
inst_is_memop(i) == i.op \in {"load", "store", "amo"}
access_misaligned(i) == i.addr % i.size # 0
InRam(pa) == pa < RamBytes
InRom(pa) == RomBase <= pa /\ pa <= RomEnd
is_normal_memory(pa) == pa < RamEnd \/ InRom(pa)
translate(va) == PageMap[va \div PageBytes] * PageBytes + (va % PageBytes)
offset(i) == i.addr % 8
crosses_word(i) == i.op # "amo" /\ offset(i) + i.size > 8
crosses_page(i) == (i.addr % PageBytes) + i.size > PageBytes

WordOf(pa) == 8 * (pa \div 8)
Mapped(pa) == InRam(pa) \/ InRom(pa) \/ pa >= DevBase
ReadWord(pa) == [l \in 0 .. 7 |-> IF InRam(pa) \/ InRom(pa) THEN mem[WordOf(pa) + l] ELSE 0]

\* A register's bytes from the two words, the second of which counts only for
\* an access that crosses.
extract_load_data(first, second, i) ==
  [k \in 0 .. i.size - 1 |->
     IF offset(i) + k < 8 THEN first[offset(i) + k] ELSE second[offset(i) + k - 8]]

\* The bytes a store writes: lane and value, of each of its words (or, one
\* too few of the second).
FirstLanes(i) == {l \in 0 .. 7 : offset(i) <= l /\ l < offset(i) + i.size}
FirstByte(i, l) == l - offset(i) + 1
OneLaneShort(i) == 0 .. i.size - (8 - offset(i)) - 2
SecondLanes(i) == 0 .. i.size - (8 - offset(i)) - 1
split_store_second_wdata(i, l) == l + (8 - offset(i)) + 1

-----------------------------------------------------------------------------
(***************************************************************************)
(* A cycle, with inputs e: an enabled interrupt is pending (intr), the data*)
(* port accepts (ready), answers (rvalid) or has the line at hand (fast),  *)
(* and the translation unit is done (rsp).                                 *)
(***************************************************************************)

\* csrunit: interrupts are taken only in an instruction's first cycle (or, in
\* any).
IntrAtAnyTime == TRUE
can_intr == is_new
raise_interrupt(e) == ins # None /\ can_intr /\ e.intr
raise_expt == ins # None /\ (ins.expt \/ state = "Fault")
raise_trap(e) == raise_interrupt(e) \/ raise_expt
valid(e) == ins # None /\ ~raise_trap(e)

data_mem_rvalid(e) == answer # None /\ e.rvalid /\ mem_owner = "Data"
translation_rsp_valid(e) == valid(e) /\ state = "TranslateWait" /\ walk \in {"none", "done"} /\ e.rsp

TranslatedFault ==
  \/ ins.tfault
  \/ access_misaligned(ins) /\ ~is_normal_memory(translate(ins.addr))
  \/ ~ins.pmp
translated_access_can_issue(e) == translation_rsp_valid(e) /\ ~TranslatedFault

\* The accesses the unit drives, and where.
DrivesFirst(e) == translated_access_can_issue(e) \/ (valid(e) /\ state = "AccessWaitReady")
DrivesSecond(e) == valid(e) /\ state = "SplitAccessWaitReady"
FirstAddr == IF state = "TranslateWait" THEN translate(ins.addr) ELSE req_paddr
SecondAddr == WordOf(req_paddr) + 8

data_fast_load_complete(e) ==
  /\ DrivesFirst(e) /\ e.fast
  /\ ins.op = "load" /\ ~crosses_word(ins) /\ FirstAddr < RamEnd

membus_ready(e, pa) == e.ready /\ answer = None /\ Mapped(pa)
translation_mem_fire(e) ==
  valid(e) /\ state = "TranslateWait" /\ walk = "req" /\ membus_ready(e, 0)
first_data_mem_fire(e) ==
  DrivesFirst(e) /\ ~data_fast_load_complete(e) /\ membus_ready(e, FirstAddr)
split_data_mem_fire(e) == DrivesSecond(e) /\ membus_ready(e, SecondAddr)
data_read_mem_fire(e) ==
  (first_data_mem_fire(e) \/ split_data_mem_fire(e)) /\ ins.op # "store"

stall(e) ==
  /\ valid(e)
  /\ CASE state = "Init"            -> is_new /\ inst_is_memop(ins)
       [] state = "AccessWaitValid" -> ~data_mem_rvalid(e) \/ crosses_word(ins)
       [] state = "SplitAccessWaitValid" -> ~data_mem_rvalid(e)
       [] state \in {"TranslateWait", "AccessWaitReady"} -> ~data_fast_load_complete(e)
       [] state = "Fault"           -> FALSE
       [] OTHER                     -> TRUE

leaves(e) == ins # None /\ ~stall(e)

\* The first state of an access.
InitFault ==
  \/ ins.op = "amo" /\ access_misaligned(ins)
  \/ ~ins.sv39 /\ access_misaligned(ins) /\ ~is_normal_memory(ins.addr)
  \/ ~ins.sv39 /\ ~ins.pmp
  \/ ins.sv39 /\ crosses_page(ins)
InitNext ==
  IF ~(is_new /\ inst_is_memop(ins)) THEN "Init"
  ELSE IF InitFault THEN "Fault"
  ELSE IF ins.sv39 THEN "TranslateWait" ELSE "AccessWaitReady"

\* Behind the first and the second word of an access (or, with an answer
\* awaited that a posted store does not get).
AfterFirst ==
  IF ins.op # "store" THEN "AccessWaitValid"
  ELSE IF crosses_word(ins) THEN "SplitAccessWaitReady" ELSE "Init"
AwaitsAnswer == "SplitAccessWaitValid"
AfterSecond == IF ins.op = "store" THEN "Init" ELSE "SplitAccessWaitValid"

response_will_be_outstanding(e) ==
  (mem_owner # "None" /\ ~(answer # None /\ e.rvalid)) \/ translation_mem_fire(e)
    \/ data_read_mem_fire(e)

NextState(e) ==
  IF ~valid(e) THEN (IF response_will_be_outstanding(e) THEN "DiscardWaitValid" ELSE "Init")
  ELSE CASE state = "Init" -> InitNext
         [] state = "TranslateWait" ->
              IF ~translation_rsp_valid(e) THEN state
              ELSE IF TranslatedFault THEN "Fault"
              ELSE IF data_fast_load_complete(e) THEN "Init"
              ELSE IF first_data_mem_fire(e) THEN AfterFirst ELSE "AccessWaitReady"
         [] state = "AccessWaitReady" ->
              IF data_fast_load_complete(e) THEN "Init"
              ELSE IF first_data_mem_fire(e) THEN AfterFirst ELSE state
         [] state = "AccessWaitValid" ->
              IF ~data_mem_rvalid(e) THEN state
              ELSE IF crosses_word(ins) THEN "SplitAccessWaitReady" ELSE "Init"
         [] state = "SplitAccessWaitReady" ->
              IF split_data_mem_fire(e) THEN AfterSecond ELSE state
         [] state = "SplitAccessWaitValid" -> IF data_mem_rvalid(e) THEN "Init" ELSE state
         [] state = "DiscardWaitValid" ->
              IF (answer # None /\ e.rvalid) \/ mem_owner = "None" THEN "Init" ELSE state
         [] state = "Fault" -> "Init"

\* What req_paddr and req_first_rdata hold without an instruction is never
\* read; they are cleared.
memunit(e) ==
  /\ state' = NextState(e)
  /\ mem_owner' = IF translation_mem_fire(e) THEN "Translation"
                  ELSE IF data_read_mem_fire(e) THEN "Data"
                  ELSE IF answer # None /\ e.rvalid THEN "None" ELSE mem_owner
  /\ req_paddr' = IF ins = None \/ leaves(e) THEN 0
                  ELSE IF state = "Init" THEN ins.addr
                  ELSE IF translated_access_can_issue(e) THEN translate(ins.addr)
                  ELSE req_paddr
  /\ req_first_rdata' = IF ins = None \/ leaves(e) THEN <<>>
                        ELSE IF state = "AccessWaitValid" /\ data_mem_rvalid(e) THEN answer
                        ELSE req_first_rdata

rdata(e) ==
  IF data_fast_load_complete(e) THEN extract_load_data(ReadWord(FirstAddr), <<>>, ins)
  ELSE IF crosses_word(ins) THEN extract_load_data(req_first_rdata, answer, ins)
  ELSE extract_load_data(answer, <<>>, ins)

\* The translation unit; a walk is given up when the instruction goes.
Translation(e) ==
  /\ walk' = IF ~valid(e) \/ state # "TranslateWait" \/ translation_rsp_valid(e) THEN "none"
             ELSE CASE walk = "none" -> "req"
                    [] walk = "req"  -> IF translation_mem_fire(e) THEN "wait" ELSE walk
                    [] walk = "wait" -> IF answer = None \/ ~e.rvalid THEN walk
                                        ELSE IF e.rsp \/ level = 0 THEN "done" ELSE "req"
                    [] walk = "done" -> walk
  /\ level' = IF walk' = "none" THEN Levels - 1
              ELSE IF walk = "wait" /\ walk' = "req" THEN level - 1 ELSE level

\* The data port: stores and AMOs (here swaps) write, though not into ROM (top.sv
\* ties its wen to 0), the others owe a word.
DataPort(e) ==
  /\ mem' = [a \in DOMAIN mem |->
               IF ins = None \/ ~InRam(a) THEN mem[a]
               ELSE CASE first_data_mem_fire(e) /\ ins.op # "load"
                           /\ a - WordOf(FirstAddr) \in FirstLanes(ins)
                         -> FirstByte(ins, a - WordOf(FirstAddr))
                      [] split_data_mem_fire(e) /\ ins.op = "store"
                           /\ a - SecondAddr \in SecondLanes(ins)
                         -> split_store_second_wdata(ins, a - SecondAddr)
                      [] OTHER -> mem[a]]
  /\ answer' = IF translation_mem_fire(e) THEN ReadWord(0)
               ELSE IF data_read_mem_fire(e)
               THEN ReadWord(IF split_data_mem_fire(e) THEN SecondAddr ELSE FirstAddr)
               ELSE IF e.rvalid THEN None ELSE answer

\* ex_mem_fifo and mems_is_new: a trap empties the stage.
Stage(e) ==
  /\ is_new' = (ins = None \/ leaves(e))
  /\ ins' \in IF ins # None /\ ~leaves(e) THEN {ins}
              ELSE IF ins # None /\ raise_trap(e) THEN {None}
              ELSE Insts \cup {None}

History(e) ==
  /\ start' = IF is_new' THEN mem' ELSE start
  /\ issued' = IF is_new' THEN 0
               ELSE IF first_data_mem_fire(e) \/ split_data_mem_fire(e) THEN issued + 1
               ELSE issued
  /\ last' = IF ~leaves(e) THEN None
             ELSE [ins |-> ins, trap |-> raise_trap(e), before |-> start,
                   issued |-> issued + (IF data_fast_load_complete(e) THEN 1 ELSE 0),
                   result |-> IF ins.op \in {"load", "amo"} /\ ~raise_trap(e)
                              THEN rdata(e) ELSE <<>>]

\* Inputs where they make a difference; the port has one request at a time.
Inputs ==
  {e \in [intr : BOOLEAN, ready : BOOLEAN, rvalid : BOOLEAN, fast : BOOLEAN, rsp : BOOLEAN] :
     /\ e.intr => ins # None
     /\ e.ready => ins # None /\ answer = None
     /\ e.rvalid => answer # None
     /\ e.fast => ins # None /\ ins.op = "load"
     /\ e.rsp => state = "TranslateWait"}
Clock(e) == memunit(e) /\ Translation(e) /\ DataPort(e) /\ Stage(e) /\ History(e)

Init ==
  /\ ins = None /\ is_new = FALSE
  /\ state = "Init" /\ mem_owner = "None" /\ req_paddr = 0 /\ req_first_rdata = <<>>
  /\ walk = "none" /\ level = Levels - 1 /\ answer = None
  /\ mem = [a \in (0 .. RamBytes - 1) \cup (RomBase .. RomEnd) |-> 100 + a]
  /\ start = mem /\ issued = 0 /\ last = None

Next == \E e \in Inputs : Clock(e)

Spec == Init /\ [][Next]_vars

\* The data port and the translation unit answer again and again, as DCache
\* and a walk of three levels do.
Answered ==
  \E e \in Inputs :
    /\ IF answer = None THEN ins # None => e.ready ELSE e.rvalid
    /\ state = "TranslateWait" => e.rsp
    /\ Clock(e)
FairSpec == Spec /\ WF_vars(Answered)

-----------------------------------------------------------------------------
(***************************************************************************)
(* Properties.                                                             *)
(***************************************************************************)
\* Where byte k of instruction i lies, each byte translated by itself.
Phys(i, k) == IF i.sv39 THEN translate(i.addr + k) ELSE i.addr + k
Allowed(i) == ~i.expt /\ i.pmp /\ ~(i.sv39 /\ i.tfault)

\* Memory behind instruction i, and what it loads.
Written(m, i) ==
  IF i.op = "load" THEN m
  ELSE [a \in DOMAIN m |->
          LET K == {k \in 0 .. i.size - 1 : Phys(i, k) = a}
          IN IF InRam(a) /\ K # {} THEN (CHOOSE k \in K : TRUE) + 1 ELSE m[a]]
Loaded(m, i) ==
  [k \in 0 .. i.size - 1 |-> IF Phys(i, k) \in DOMAIN m THEN m[Phys(i, k)] ELSE 0]

\* An instruction that leaves MEM (memq_rready) has done all of its access,
\* each word of it once and byte by byte, if it retires, and none of it if it
\* traps: an interrupt never splits, repeats or drops one.
ExactlyOnce ==
  last # None =>
    IF last.trap THEN start = last.before /\ last.issued = 0
    ELSE inst_is_memop(last.ins) =>
           /\ Allowed(last.ins)
           /\ last.issued = IF crosses_word(last.ins) THEN 2 ELSE 1
           /\ start = Written(last.before, last.ins)
           /\ last.ins.op # "store" => last.result = Loaded(last.before, last.ins)

\* An instruction never goes while an answer to it is on its way: the state
\* DiscardWaitValid, which would wait for it, is not reached.
NothingAbandoned ==
  state # "DiscardWaitValid" /\ (ins = None \/ is_new => answer = None /\ mem_owner = "None")

\* A store or load whose second word is behind the end of ROM: is_normal_memory
\* has looked only at its first byte.
RunsPastRom ==
  /\ ins # None /\ crosses_word(ins) /\ ~(ins.sv39 /\ ins.tfault)
  /\ ~Mapped(WordOf(Phys(ins, 0)) + 8)

\* Every access but those that run past ROM ends.
AccessEnds == (ins # None /\ ~is_new /\ ~RunsPastRom) ~> is_new
=============================================================================
