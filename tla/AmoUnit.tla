------------------------------ MODULE AmoUnit -------------------------------
(***************************************************************************)
(* The atomic-memory-operation unit of src/amounit.sv, one step per clock  *)
(* cycle, between the data cache (slave port) and the memory bus (master   *)
(* port).                                                                  *)
(*                                                                         *)
(*  - A word is a function from its two 32-bit lanes to values; a request  *)
(*    names its word (addr) and the lane at which it starts (lane).        *)
(*  - The slave port may present any request, or none, in every cycle: the *)
(*    store buffer of the cache withdraws a drain when a hit overtakes it. *)
(*  - The bus is what mmio_controller.sv offers: it takes a request only   *)
(*    when it holds none (never in the cycle of an answer), and only when  *)
(*    the arbiter of top.sv grants the data side; it then answers once.    *)
(*                                                                         *)
(* Tracing and the priority hint are left out.                             *)
(***************************************************************************)
EXTENDS Integers

CONSTANTS
  Addrs, Lanes, Vals,
  Requests,              \* what the data cache may ask
  gen_amo_wdata(_, _),   \* gen_amo_wdata(r, rdata)
  ScOk, ScBad,           \* the words 0 and 1
  None

Word == [Lanes -> Vals]

Op == {"LOAD", "STORE", "LR", "SC", "AMO"}

ASSUME RequestAssumption ==
  /\ \A r \in Requests : /\ r.op \in Op /\ r.addr \in Addrs /\ r.lane \in Lanes
                         /\ r.mask \subseteq Lanes /\ r.wdata \in Word
  /\ \A r \in Requests, w \in Word : gen_amo_wdata(r, w) \in Word
  /\ ScOk \in Word /\ ScBad \in Word /\ ScOk # ScBad
  /\ None \notin Requests \cup (Addrs \X Lanes) \cup Word
  /\ None \notin [addr : Addrs, wen : BOOLEAN, wdata : Word, wmask : SUBSET Lanes]

VARIABLES
  state, slave_saved,
  is_addr_reserved, reserved_addr,
  zaamo_fetched_data, zaamo_written_data,
  bus, mem                \* the master port: pending answer, contents

amoVars == <<state, slave_saved, is_addr_reserved, reserved_addr,
             zaamo_fetched_data, zaamo_written_data>>
vars == <<amoVars, bus, mem>>

merge(old, new, mask) == [l \in Lanes |-> IF l \in mask THEN new[l] ELSE old[l]]

\* gen_amo_wdata returns the word as read in the lanes an AMO does not write.
ASSUME AluAssumption ==
  \A r \in Requests, w \in Word :
    r.op = "AMO" => merge(w, gen_amo_wdata(r, w), r.mask) = gen_amo_wdata(r, w)

-----------------------------------------------------------------------------
(***************************************************************************)
(* Signals.  r is the slave request of this cycle (None: not valid), grant *)
(* the bus arbiter's choice, rv master.rvalid, clear reservation_clear.    *)
(***************************************************************************)
master_ready(grant) == bus = None /\ grant

slave_ready(rv) ==
  \/ state \in {"Init", "SCFail"}
  \/ state \in {"WaitValid", "SCSuccess", "AMOStoreValid"} /\ rv

slave_rdata ==
  CASE state = "SCSuccess"     -> ScOk
    [] state = "SCFail"        -> ScBad
    [] state = "AMOStoreValid" -> zaamo_fetched_data
    [] OTHER                   -> bus

Accepts(r, rv) == r # None /\ slave_ready(rv)

\* slave.addr: the word and, in its low bits, the lane.
FullAddr(r) == <<r.addr, r.lane>>

ScAnyAddress(r, clear) == ~clear /\ is_addr_reserved
sc_success(r, clear) == ~clear /\ is_addr_reserved /\ FullAddr(r) = reserved_addr

Read(a) == [addr |-> a, wen |-> FALSE, wdata |-> ScOk, wmask |-> {}]
Write(a, d, m) == [addr |-> a, wen |-> TRUE, wdata |-> d, wmask |-> m]

\* accept_request_comb: a new request goes to the master in the same cycle.
accept_request_comb(r, rv, clear) ==
  IF ~Accepts(r, rv) THEN None
  ELSE IF r.op = "STORE" \/ (r.op = "SC" /\ sc_success(r, clear))
    THEN Write(r.addr, r.wdata, r.mask)
  ELSE IF r.op = "SC" THEN None
  ELSE Read(r.addr)

\* In AMOLoadValid the store is driven already, from whatever master.rdata is.
amo_store(rdata) ==
  Write(slave_saved.addr, gen_amo_wdata(slave_saved, rdata), slave_saved.mask)

master_req(r, rv, clear, garbage) ==
  CASE state = "WaitReady" ->
         IF slave_saved.op = "STORE" \/ (slave_saved.op = "SC" /\ ~clear)
           THEN Write(slave_saved.addr, slave_saved.wdata, slave_saved.mask)
         ELSE IF slave_saved.op = "SC" THEN None ELSE Read(slave_saved.addr)
    [] state = "AMOLoadReady"  -> Read(slave_saved.addr)
    [] state = "AMOLoadValid"  -> amo_store(IF rv THEN bus ELSE garbage)
    [] state = "AMOStoreReady" -> amo_store(zaamo_fetched_data)
    [] OTHER -> accept_request_comb(r, rv, clear)

-----------------------------------------------------------------------------
(***************************************************************************)
(* The memory bus: a granted request is applied and its answer kept.       *)
(***************************************************************************)
Bus(m, grant, rv) ==
  IF m # None /\ master_ready(grant)
    THEN /\ bus' = mem[m.addr]
         /\ mem' = IF m.wen THEN [mem EXCEPT ![m.addr] = merge(@, m.wdata, m.wmask)]
                            ELSE mem
    ELSE /\ bus' = IF rv THEN None ELSE bus
         /\ mem' = mem

-----------------------------------------------------------------------------
(***************************************************************************)
(* accept_request_ff, expanded by the code in every state that can answer. *)
(***************************************************************************)
AfterAccept(r, grant, clear) ==
  LET go(now, later) == IF master_ready(grant) THEN now ELSE later IN
  CASE r.op = "SC"  -> IF sc_success(r, clear) THEN go("SCSuccess", "WaitReady")
                                               ELSE "SCFail"
    [] r.op = "AMO" -> go("AMOLoadValid", "AMOLoadReady")
    [] OTHER        -> go("WaitValid", "WaitReady")

Accept(r, grant, rv, clear) ==
  /\ IF Accepts(r, rv)
       THEN /\ state' = AfterAccept(r, grant, clear)
            /\ slave_saved' = r
            /\ is_addr_reserved' =
                 (~clear /\ (r.op = "LR" \/ (r.op # "SC" /\ is_addr_reserved)))
            /\ reserved_addr' = IF r.op = "LR" THEN FullAddr(r) ELSE reserved_addr
       ELSE /\ state' = "Init"
            /\ is_addr_reserved' = (is_addr_reserved /\ ~clear)
            /\ UNCHANGED <<slave_saved, reserved_addr>>
  /\ UNCHANGED <<zaamo_fetched_data, zaamo_written_data>>

\* The trailing assignment of reservation_clear, in cycles that accept nothing.
Clear(clear) ==
  /\ is_addr_reserved' = (is_addr_reserved /\ ~clear)
  /\ UNCHANGED <<slave_saved, reserved_addr>>

Idle(r, grant, rv, clear) ==
  /\ state = "Init"
  /\ Accept(r, grant, rv, clear)

WaitReady(grant, clear) ==
  /\ state = "WaitReady"
  /\ state' = IF slave_saved.op = "SC" /\ clear THEN "SCFail"
              ELSE IF ~master_ready(grant) THEN state
              ELSE IF slave_saved.op = "SC" THEN "SCSuccess" ELSE "WaitValid"
  /\ Clear(clear)
  /\ UNCHANGED <<zaamo_fetched_data, zaamo_written_data>>

\* WaitValid, SCSuccess and AMOStoreValid hold the answer until master.rvalid.
AwaitAnswer(r, grant, rv, clear) ==
  /\ state \in {"WaitValid", "SCSuccess", "AMOStoreValid"}
  /\ \/ rv /\ Accept(r, grant, rv, clear)
     \/ /\ ~rv /\ Clear(clear)
        /\ UNCHANGED <<state, zaamo_fetched_data, zaamo_written_data>>

SCFail(r, grant, rv, clear) ==
  /\ state = "SCFail"
  /\ Accept(r, grant, rv, clear)

AMOLoadReady(grant, clear) ==
  /\ state = "AMOLoadReady"
  /\ state' = IF master_ready(grant) THEN "AMOLoadValid" ELSE state
  /\ Clear(clear)
  /\ UNCHANGED <<zaamo_fetched_data, zaamo_written_data>>

\* The branch on slave.ready is never taken: the slave is not ready here.
AMOLoadValid(m, grant, rv, clear) ==
  /\ state = "AMOLoadValid"
  /\ IF rv THEN /\ zaamo_fetched_data' = bus
                /\ state' = IF slave_ready(rv) THEN "AMOStoreValid" ELSE "AMOStoreReady"
           ELSE UNCHANGED <<zaamo_fetched_data, state>>
  /\ zaamo_written_data' = IF master_ready(grant) THEN m.wdata ELSE zaamo_written_data
  /\ Clear(clear)

WrittenLost(m, grant, clear) ==
  /\ state = "AMOStoreReady"
  /\ state' = IF master_ready(grant) THEN "AMOStoreValid" ELSE state
  /\ Clear(clear)
  /\ UNCHANGED <<zaamo_fetched_data, zaamo_written_data>>

AwaitsSlave(m, grant, clear) ==
  /\ state = "AMOStoreReady"
  /\ state' = IF slave_ready(FALSE) THEN "AMOStoreValid" ELSE state
  /\ Clear(clear)
  /\ UNCHANGED <<zaamo_fetched_data, zaamo_written_data>>

AMOStoreReady(m, grant, clear) ==
  /\ state = "AMOStoreReady"
  /\ state' = IF master_ready(grant) THEN "AMOStoreValid" ELSE state
  /\ zaamo_written_data' = IF master_ready(grant) THEN m.wdata ELSE zaamo_written_data
  /\ Clear(clear)
  /\ UNCHANGED zaamo_fetched_data

-----------------------------------------------------------------------------
Init ==
  /\ state = "Init" /\ slave_saved = None
  /\ is_addr_reserved = FALSE /\ reserved_addr \in Addrs \X Lanes
  /\ zaamo_fetched_data = ScOk /\ zaamo_written_data = ScOk
  /\ bus = None
  /\ mem \in [Addrs -> Word]

\* A request is looked at only when the slave port is ready, master.rdata
\* without rvalid only in AMOLoadValid.
Clock(r, grant, rv, clear, garbage) ==
  LET m == master_req(r, rv, clear, garbage) IN
  /\ rv => bus # None
  /\ r # None => slave_ready(rv)
  /\ garbage # ScOk => state = "AMOLoadValid" /\ ~rv
  /\ Bus(m, grant, rv)
  /\ \/ Idle(r, grant, rv, clear)
     \/ WaitReady(grant, clear)
     \/ AwaitAnswer(r, grant, rv, clear)
     \/ SCFail(r, grant, rv, clear)
     \/ AMOLoadReady(grant, clear)
     \/ AMOLoadValid(m, grant, rv, clear)
     \/ AMOStoreReady(m, grant, clear)

Next ==
  \E r \in Requests \cup {None}, grant, rv, clear \in BOOLEAN, garbage \in {ScOk, ScBad} :
    Clock(r, grant, rv, clear, garbage)

Spec == Init /\ [][Next]_vars

\* The bus answers, and grants the data side, again and again: its request has
\* priority over fetches unless it is a drain latched as low-priority, which
\* gets its turn in the cycles where the fetcher, its queue full, pauses.
Progress ==
  \E r \in Requests \cup {None}, clear \in BOOLEAN, garbage \in {ScOk, ScBad} :
    Clock(r, TRUE, bus # None, clear, garbage)
FairSpec == Spec /\ WF_vars(Progress)

-----------------------------------------------------------------------------
(***************************************************************************)
(* Properties.                                                             *)
(***************************************************************************)

State == {"Init", "WaitReady", "WaitValid", "SCSuccess", "SCFail", "AMOLoadReady",
          "AMOLoadValid", "AMOStoreReady", "AMOStoreValid"}

\* Every register holds a value of its type.
TypeOK ==
  /\ state \in State
  /\ slave_saved \in Requests \cup {None} /\ (state # "Init" => slave_saved # None)
  /\ is_addr_reserved \in BOOLEAN /\ reserved_addr \in Addrs \X Lanes
  /\ zaamo_fetched_data \in Word /\ zaamo_written_data \in Word
  /\ bus \in Word \cup {None}
  /\ mem \in [Addrs -> Word]

\* What the retire trace reports for an AMO is what memory now holds.
CommitIsMemory ==
  state = "AMOStoreValid" => zaamo_written_data = mem[slave_saved.addr]

\* A store-conditional waits for the bus only with the reservation it consumed.
ScHoldsReservation ==
  state \in {"WaitReady", "SCSuccess"} /\ slave_saved.op = "SC" =>
    /\ FullAddr(slave_saved) = reserved_addr
    /\ ~is_addr_reserved

Taken == state \in {"WaitReady", "AMOLoadReady", "AMOLoadValid", "AMOStoreReady"}
Done == state \in {"WaitValid", "SCSuccess", "SCFail", "AMOStoreValid"}

\* Every request that is taken is performed, then answered.
EveryRequestPerformed == Taken ~> Done

(***************************************************************************)
(* The unit implements AtomicPort: whatever the bus does, the data cache   *)
(* sees one indivisible operation per request.                             *)
(***************************************************************************)
CONSTANT Update(_, _)

portPhase == IF Taken THEN "taken" ELSE IF Done THEN "done" ELSE "idle"
portReq == IF Taken \/ Done THEN slave_saved ELSE None
portOk == state = "WaitReady" /\ slave_saved.op = "SC"
portAns == IF Done THEN slave_rdata ELSE None
portRes == IF is_addr_reserved THEN reserved_addr ELSE None

Port == INSTANCE AtomicPort WITH
  phase <- portPhase, req <- portReq, ok <- portOk, ans <- portAns, res <- portRes

\* Every behaviour of the unit is one of the atomic port.
ImplementsPort == Port!Spec
=============================================================================
