------------------------------ MODULE MCMemBus ------------------------------
(***************************************************************************)
(* MemBus on a RAM of four words under one of two workloads: a driver that *)
(* programs the DMA engine, or stores that race a copy.                    *)
(***************************************************************************)
EXTENDS MemBus

VARIABLE workload

Base == 32
MCWord == [Lanes -> Vals]
MCZero == [l \in Lanes |-> 0]
MCOne == [l \in Lanes |-> 1]

Req(dev, a, w, v, m, low) ==
  [dev |-> dev, addr |-> a, wen |-> w, value |-> v, mask |-> m, low |-> low]
RamRead(k) == Req("RAM", Base + 8 * k, FALSE, MCZero, {}, FALSE)
RamWrite(k, v, m, low) == Req("RAM", Base + 8 * k, TRUE, v, m, low)
Reg(r, v) == Req("DMA", r, TRUE, v, Lanes, FALSE)
Status == Req("DMA", "STATUS", FALSE, 0, {}, FALSE)
Device == Req("DEV", 0, FALSE, 0, {}, FALSE)

Fetches == {RamRead(0), Device}

\* The driver programs the engine, in any order, and polls it; a source that
\* is not aligned, an empty copy and copies of one and two words.
DriverReqs ==
  {Reg("SRC", Base), Reg("SRC", Base + 4),
   Reg("DST", Base + 16), Reg("LEN", 0), Reg("LEN", 8), Reg("LEN", 16),
   Reg("CTRL", {"START"}), Reg("CTRL", {"CLEAR_DONE"}), Status, RamRead(2)}

\* Stores of one lane and of all, some of low priority, against a copy.
StoreReqs ==
  {RamWrite(1, MCOne, {0}, TRUE), RamWrite(2, MCZero, Lanes, FALSE), RamRead(1), RamRead(2),
   Reg("SRC", Base), Reg("DST", Base + 16), Reg("LEN", 8), Reg("CTRL", {"START"})}

MixedRam == {[a \in RamIdx |-> IF a \in {0, 3} THEN MCOne ELSE MCZero]}

AllReqs == DriverReqs \cup StoreReqs
Workload == IF workload = "driver" THEN DriverReqs ELSE StoreReqs

MixInit == Init /\ workload \in {"driver", "stores"}
MixNext ==
  /\ UNCHANGED workload
  /\ \E i \in IReqs \cup {None}, d \in Workload \cup {None} : Clock(i, d)
MixSpec == MixInit /\ [][MixNext]_<<vars, workload>> /\ WF_vars(MixNext)
=============================================================================
