----------------------------- MODULE AmoProofs ------------------------------
(***************************************************************************)
(* AmoUnit for every set of words, requests and values and any behaviour   *)
(* of the bus: its type invariant, its safety invariants, and that it      *)
(* implements AtomicPort.                                                  *)
(*                                                                         *)
(* IInv adds to the properties which states own the bus, which operation a *)
(* state works for, and that what an AMO has read is still in memory when  *)
(* it writes.                                                              *)
(***************************************************************************)
EXTENDS AmoUnit, TLAPS

\* The bus owes an answer in exactly the states that wait for one.
Waiting == {"WaitValid", "SCSuccess", "AMOLoadValid", "AMOStoreValid"}
BusOwned == bus # None <=> state \in Waiting

\* A state serves the operation of the request the unit has saved.
AmoStates == {"AMOLoadReady", "AMOLoadValid", "AMOStoreReady", "AMOStoreValid"}
OpOfState ==
  /\ state # "Init" => (slave_saved.op = "AMO" <=> state \in AmoStates)
  /\ state \in {"SCSuccess", "SCFail"} => slave_saved.op = "SC"
  /\ state = "WaitValid" => slave_saved.op # "SC"

\* Between the load and the store of an AMO its word does not change.
FetchedIsCurrent ==
  /\ state = "AMOLoadValid" => bus = mem[slave_saved.addr]
  /\ state = "AMOStoreReady" => zaamo_fetched_data = mem[slave_saved.addr]

IInv ==
  /\ TypeOK /\ BusOwned /\ OpOfState /\ FetchedIsCurrent
  /\ ScHoldsReservation /\ CommitIsMemory

-----------------------------------------------------------------------------
(***************************************************************************)
(* Requests and words.                                                     *)
(***************************************************************************)

\* merge yields a word.
LEMMA MergeType ==
  ASSUME NEW old \in Word, NEW new \in Word, NEW mask
  PROVE  merge(old, new, mask) \in Word
BY DEF merge, Word

\* A request that goes to the bus names an address and a word.
BusReq(m) == m.addr \in Addrs /\ (m.wen => m.wdata \in Word)

LEMMA RequestOnBus ==
  ASSUME NEW r \in Requests, NEW w \in Word
  PROVE  Write(r.addr, w, r.mask) # None /\ Read(r.addr) # None
<1> DEFINE BusReqs == [addr : Addrs, wen : BOOLEAN, wdata : Word, wmask : SUBSET Lanes]
<1>1. r.addr \in Addrs /\ r.mask \in SUBSET Lanes /\ {} \in SUBSET Lanes /\ ScOk \in Word
  BY RequestAssumption
<1>2. Write(r.addr, w, r.mask) \in BusReqs /\ Read(r.addr) \in BusReqs
  BY <1>1 DEF Write, Read
<1>3. None \notin BusReqs
  BY RequestAssumption
<1> QED BY <1>2, <1>3

\* The request the unit has saved, outside Init.
LEMMA SavedType ==
  ASSUME TypeOK, state # "Init"
  PROVE  /\ slave_saved \in Requests /\ slave_saved # None
         /\ slave_saved.op \in Op /\ slave_saved.addr \in Addrs /\ slave_saved.wdata \in Word
BY RequestAssumption DEF TypeOK

\* What the bus does to memory and to the answer it owes keeps their types.
LEMMA BusType ==
  ASSUME TypeOK, NEW m, NEW grant \in BOOLEAN, NEW rv \in BOOLEAN,
         m # None => BusReq(m), Bus(m, grant, rv)
  PROVE  bus' \in Word \cup {None} /\ mem' \in [Addrs -> Word]
<1>1. CASE m # None /\ master_ready(grant)
  <2>1. m.addr \in Addrs /\ mem[m.addr] \in Word
    BY <1>1 DEF TypeOK, BusReq
  <2>2. m.wen => merge(mem[m.addr], m.wdata, m.wmask) \in Word
    BY <1>1, <2>1, MergeType DEF BusReq
  <2> QED BY <1>1, <2>1, <2>2 DEF Bus, TypeOK
<1>2. CASE ~(m # None /\ master_ready(grant))
  BY <1>2 DEF Bus, TypeOK
<1> QED BY <1>1, <1>2

-----------------------------------------------------------------------------
(***************************************************************************)
(* The invariant, state by state.                                          *)
(***************************************************************************)

\* The states that can take a request are those that have nothing to do or
\* give their answer in this cycle.
Answers(rv) == state \in {"WaitValid", "SCSuccess", "AMOStoreValid"} /\ rv
Accepting(rv) == state \in {"Init", "SCFail"} \/ Answers(rv)

\* The request that is accepted goes to the bus in the same cycle.
LEMMA AcceptRequest ==
  ASSUME NEW r \in Requests \cup {None}, NEW rv \in BOOLEAN, NEW clear \in BOOLEAN,
         NEW garbage, Accepting(rv)
  PROVE  /\ slave_ready(rv)
         /\ master_req(r, rv, clear, garbage) = accept_request_comb(r, rv, clear)
         /\ r = None => accept_request_comb(r, rv, clear) = None
         /\ r # None =>
              accept_request_comb(r, rv, clear) =
                IF r.op = "STORE" \/ (r.op = "SC" /\ sc_success(r, clear))
                  THEN Write(r.addr, r.wdata, r.mask)
                ELSE IF r.op = "SC" THEN None ELSE Read(r.addr)
BY DEF Accepting, Answers, slave_ready, master_req, accept_request_comb, Accepts

\* Taking a request, or nothing.
LEMMA AcceptStep ==
  ASSUME IInv, NEW r \in Requests \cup {None}, NEW grant \in BOOLEAN, NEW rv \in BOOLEAN,
         NEW clear \in BOOLEAN, NEW garbage, rv => bus # None,
         Accepting(rv), Accept(r, grant, rv, clear),
         Bus(master_req(r, rv, clear, garbage), grant, rv)
  PROVE  IInv'
<1> DEFINE m == master_req(r, rv, clear, garbage)
<1>1. TypeOK /\ BusOwned
  BY DEF IInv
<1>2. CASE r = None
  <2>1. /\ state' = "Init" /\ is_addr_reserved' = (is_addr_reserved /\ ~clear)
        /\ UNCHANGED <<slave_saved, reserved_addr, zaamo_fetched_data, zaamo_written_data>>
    BY <1>2 DEF Accept, Accepts
  <2>2. m = None
    BY <1>2, AcceptRequest
  <2>3. bus' = None /\ mem' = mem
    BY <1>1, <2>2 DEF Bus, Accepting, Answers, BusOwned, Waiting
  <2> QED BY <1>1, <2>1, <2>3
          DEF IInv, TypeOK, State, BusOwned, Waiting, OpOfState, FetchedIsCurrent,
              ScHoldsReservation, CommitIsMemory
<1>3. CASE r # None
  <2>1. /\ r \in Requests /\ r.op \in Op /\ r.addr \in Addrs /\ r.wdata \in Word
        /\ FullAddr(r) \in Addrs \X Lanes
    BY <1>3, RequestAssumption DEF FullAddr
  <2>2. /\ state' = AfterAccept(r, grant, clear) /\ slave_saved' = r
        /\ is_addr_reserved' = (~clear /\ (r.op = "LR" \/ (r.op # "SC" /\ is_addr_reserved)))
        /\ reserved_addr' = IF r.op = "LR" THEN FullAddr(r) ELSE reserved_addr
        /\ UNCHANGED <<zaamo_fetched_data, zaamo_written_data>>
    BY <1>3, AcceptRequest DEF Accept, Accepts
  <2>3. m = IF r.op = "STORE" \/ (r.op = "SC" /\ sc_success(r, clear))
              THEN Write(r.addr, r.wdata, r.mask)
            ELSE IF r.op = "SC" THEN None ELSE Read(r.addr)
    BY <1>3, AcceptRequest
  <2>4. m # None => BusReq(m)
    BY <2>1, <2>3 DEF Write, Read, BusReq
  <2>5. (m = None) <=> (r.op = "SC" /\ ~sc_success(r, clear))
    BY <2>1, <2>3, RequestOnBus
  <2>6. TypeOK'
    <3>1. bus' \in Word \cup {None} /\ mem' \in [Addrs -> Word]
      BY <1>1, <2>4, BusType
    <3>2. state' \in State \ {"Init"}
      BY <2>1, <2>2 DEF AfterAccept, State
    <3> QED BY <1>1, <1>3, <2>1, <2>2, <3>1, <3>2 DEF TypeOK
  <2>7. CASE master_ready(grant) /\ m # None
    <3>1. bus' = mem[r.addr] /\ (~m.wen => mem' = mem)
      BY <2>3, <2>7 DEF Bus, Write, Read
    <3>2. bus' # None
      BY <1>1, <2>1, <3>1, RequestAssumption DEF TypeOK
    <3>3. state' = CASE r.op = "SC" -> "SCSuccess" [] r.op = "AMO" -> "AMOLoadValid"
                     [] OTHER -> "WaitValid"
      BY <2>2, <2>5, <2>7 DEF AfterAccept
    <3>4. r.op = "AMO" => mem' = mem
      BY <2>3, <3>1 DEF Read
    <3> QED BY <2>1, <2>2, <2>5, <2>6, <2>7, <3>1, <3>2, <3>3, <3>4
            DEF IInv, BusOwned, Waiting, OpOfState, AmoStates, FetchedIsCurrent,
                ScHoldsReservation, CommitIsMemory, sc_success, Op
  <2>8. CASE ~(master_ready(grant) /\ m # None)
    <3>1. bus' = None /\ mem' = mem
      BY <1>1, <2>8 DEF Bus, Accepting, Answers, BusOwned, Waiting
    <3>2. state' = CASE r.op = "SC" -> IF sc_success(r, clear) THEN "WaitReady" ELSE "SCFail"
                     [] r.op = "AMO" -> "AMOLoadReady" [] OTHER -> "WaitReady"
      BY <2>2, <2>5, <2>8 DEF AfterAccept
    <3> QED BY <2>1, <2>2, <2>6, <3>1, <3>2
            DEF IInv, BusOwned, Waiting, OpOfState, AmoStates, FetchedIsCurrent,
                ScHoldsReservation, CommitIsMemory, sc_success, Op
  <2> QED BY <2>7, <2>8
<1> QED BY <1>2, <1>3

\* The request waits for the bus, and drives it again in every cycle.
LEMMA WaitReadyStep ==
  ASSUME IInv, NEW r, NEW grant \in BOOLEAN, NEW rv \in BOOLEAN, NEW clear \in BOOLEAN,
         NEW garbage, WaitReady(grant, clear),
         Bus(master_req(r, rv, clear, garbage), grant, rv)
  PROVE  IInv'
<1> DEFINE m == master_req(r, rv, clear, garbage)
<1>1. /\ TypeOK /\ bus = None /\ state = "WaitReady"
      /\ slave_saved \in Requests /\ slave_saved # None /\ slave_saved.op # "AMO"
      /\ slave_saved.op \in Op /\ slave_saved.addr \in Addrs /\ slave_saved.wdata \in Word
  BY SavedType DEF IInv, WaitReady, BusOwned, Waiting, OpOfState, AmoStates
<1>2. m = IF slave_saved.op = "STORE" \/ (slave_saved.op = "SC" /\ ~clear)
            THEN Write(slave_saved.addr, slave_saved.wdata, slave_saved.mask)
          ELSE IF slave_saved.op = "SC" THEN None ELSE Read(slave_saved.addr)
  BY <1>1 DEF master_req
<1>3. m # None => BusReq(m) /\ m.addr = slave_saved.addr
  BY <1>1, <1>2 DEF Write, Read, BusReq
<1>4. (m = None) <=> (slave_saved.op = "SC" /\ clear)
  BY <1>1, <1>2, RequestOnBus
<1>5. /\ state' = IF m = None THEN "SCFail" ELSE IF ~master_ready(grant) THEN state
                  ELSE IF slave_saved.op = "SC" THEN "SCSuccess" ELSE "WaitValid"
      /\ is_addr_reserved' = (is_addr_reserved /\ ~clear)
      /\ UNCHANGED <<slave_saved, reserved_addr, zaamo_fetched_data, zaamo_written_data>>
  BY <1>4 DEF WaitReady, Clear
<1>6. TypeOK'
  <2>1. bus' \in Word \cup {None} /\ mem' \in [Addrs -> Word]
    BY <1>1, <1>3, BusType
  <2> QED BY <1>1, <1>5, <2>1 DEF TypeOK, State
<1>7. CASE master_ready(grant) /\ m # None
  <2>1. bus' = mem[slave_saved.addr] /\ bus' # None
    BY <1>1, <1>3, <1>7, RequestAssumption DEF Bus, TypeOK
  <2> QED BY <1>1, <1>5, <1>6, <1>7, <2>1
          DEF IInv, BusOwned, Waiting, OpOfState, AmoStates, FetchedIsCurrent,
              ScHoldsReservation, CommitIsMemory
<1>8. CASE ~(master_ready(grant) /\ m # None)
  <2>1. bus' = None /\ mem' = mem
    BY <1>1, <1>8 DEF Bus
  <2> QED BY <1>1, <1>4, <1>5, <1>6, <1>8, <2>1
          DEF IInv, BusOwned, Waiting, OpOfState, AmoStates, FetchedIsCurrent,
              ScHoldsReservation, CommitIsMemory
<1> QED BY <1>7, <1>8

\* The answer is not there yet.
LEMMA HoldStep ==
  ASSUME IInv, NEW m, NEW grant \in BOOLEAN, NEW clear \in BOOLEAN,
         state \in Waiting, Clear(clear), UNCHANGED <<state, zaamo_fetched_data>>,
         state = "AMOStoreValid" => UNCHANGED zaamo_written_data,
         zaamo_written_data' \in Word,
         Bus(m, grant, FALSE)
  PROVE  IInv'
<1>1. bus # None
  BY DEF IInv, BusOwned
<1>2. bus' = bus /\ mem' = mem
  BY <1>1 DEF Bus, master_ready
<1> QED BY <1>1, <1>2
        DEF IInv, TypeOK, BusOwned, OpOfState, FetchedIsCurrent, ScHoldsReservation,
            CommitIsMemory, Clear

\* The load of an AMO waits for the bus.
LEMMA AMOLoadReadyStep ==
  ASSUME IInv, NEW r, NEW grant \in BOOLEAN, NEW rv \in BOOLEAN, NEW clear \in BOOLEAN,
         NEW garbage, AMOLoadReady(grant, clear),
         Bus(master_req(r, rv, clear, garbage), grant, rv)
  PROVE  /\ IInv' /\ mem' = mem
<1> DEFINE m == master_req(r, rv, clear, garbage)
<1>1. /\ TypeOK /\ bus = None /\ state = "AMOLoadReady"
      /\ slave_saved \in Requests /\ slave_saved # None /\ slave_saved.op = "AMO"
      /\ slave_saved.addr \in Addrs
  BY SavedType DEF IInv, AMOLoadReady, BusOwned, Waiting, OpOfState, AmoStates
<1>2. m = Read(slave_saved.addr) /\ m # None
  BY <1>1, RequestOnBus, RequestAssumption DEF master_req
<1>3. /\ mem' = mem
      /\ bus' = IF master_ready(grant) THEN mem[slave_saved.addr] ELSE None
  BY <1>1, <1>2 DEF Bus, Read
<1>4. mem[slave_saved.addr] \in Word /\ mem[slave_saved.addr] # None
  BY <1>1, RequestAssumption DEF TypeOK
<1> QED BY <1>1, <1>3, <1>4
        DEF IInv, TypeOK, State, BusOwned, Waiting, OpOfState, AmoStates, FetchedIsCurrent,
            ScHoldsReservation, CommitIsMemory, AMOLoadReady, Clear

\* The store that AMOLoadValid drives before the load is answered does not get
\* through: the bus still owes the answer.
LEMMA AMOLoadValidStep ==
  ASSUME IInv, NEW m, NEW grant \in BOOLEAN, NEW rv \in BOOLEAN, NEW clear \in BOOLEAN,
         AMOLoadValid(m, grant, rv, clear), Bus(m, grant, rv)
  PROVE  /\ IInv' /\ mem' = mem
<1>1. TypeOK /\ bus # None /\ bus = mem[slave_saved.addr] /\ state = "AMOLoadValid"
  BY DEF IInv, AMOLoadValid, BusOwned, Waiting, FetchedIsCurrent
<1>2. ~master_ready(grant) /\ ~slave_ready(rv)
  BY <1>1 DEF master_ready, slave_ready
<1>3. mem' = mem /\ bus' = IF rv THEN None ELSE bus
  BY <1>2 DEF Bus
<1> QED BY <1>1, <1>2, <1>3
        DEF IInv, TypeOK, State, BusOwned, Waiting, OpOfState, AmoStates, FetchedIsCurrent,
            ScHoldsReservation, CommitIsMemory, AMOLoadValid, Clear

\* The store of an AMO: once the bus takes it, memory holds the result.
LEMMA AMOStoreReadyStep ==
  ASSUME IInv, NEW r, NEW grant \in BOOLEAN, NEW rv \in BOOLEAN, NEW clear \in BOOLEAN,
         NEW garbage, AMOStoreReady(master_req(r, rv, clear, garbage), grant, clear),
         Bus(master_req(r, rv, clear, garbage), grant, rv)
  PROVE  /\ IInv'
         /\ LET a == slave_saved.addr IN
            mem' = IF master_ready(grant)
                     THEN [mem EXCEPT ![a] = gen_amo_wdata(slave_saved, mem[a])] ELSE mem
<1> DEFINE m == master_req(r, rv, clear, garbage)
           w == mem[slave_saved.addr]
           result == gen_amo_wdata(slave_saved, w)
<1>1. /\ TypeOK /\ bus = None /\ state = "AMOStoreReady"
      /\ slave_saved \in Requests /\ slave_saved # None /\ slave_saved.op = "AMO"
      /\ slave_saved.addr \in Addrs /\ zaamo_fetched_data = w
  BY SavedType DEF IInv, AMOStoreReady, BusOwned, Waiting, OpOfState, AmoStates,
                   FetchedIsCurrent
<1>2. w \in Word /\ w # None /\ result \in Word
  BY <1>1, RequestAssumption DEF TypeOK
<1>3. m = Write(slave_saved.addr, result, slave_saved.mask) /\ m # None
  BY <1>1, <1>2, RequestOnBus DEF master_req, amo_store
<1>4. merge(w, result, slave_saved.mask) = result
  BY <1>1, <1>2, AluAssumption
<1>5. /\ bus' = IF master_ready(grant) THEN w ELSE None
      /\ mem' = IF master_ready(grant) THEN [mem EXCEPT ![slave_saved.addr] = result] ELSE mem
  BY <1>1, <1>3, <1>4 DEF Bus, Write
<1>6. m.wdata = result
  BY <1>3 DEF Write
<1>7. /\ state' = IF master_ready(grant) THEN "AMOStoreValid" ELSE "AMOStoreReady"
      /\ zaamo_written_data' = IF master_ready(grant) THEN result ELSE zaamo_written_data
      /\ is_addr_reserved' = (is_addr_reserved /\ ~clear)
      /\ UNCHANGED <<slave_saved, reserved_addr, zaamo_fetched_data>>
  BY <1>1, <1>6 DEF AMOStoreReady, Clear
<1>8. mem'[slave_saved.addr] = IF master_ready(grant) THEN result ELSE w
  BY <1>1, <1>5 DEF TypeOK
<1>9. TypeOK'
  BY <1>1, <1>2, <1>5, <1>7 DEF TypeOK, State
<1> QED BY <1>1, <1>2, <1>5, <1>7, <1>8, <1>9
        DEF IInv, BusOwned, Waiting, OpOfState, AmoStates, FetchedIsCurrent,
            ScHoldsReservation, CommitIsMemory

\* Every cycle keeps the invariant.
LEMMA ClockStep ==
  ASSUME IInv, NEW r \in Requests \cup {None}, NEW grant \in BOOLEAN, NEW rv \in BOOLEAN,
         NEW clear \in BOOLEAN, NEW garbage, Clock(r, grant, rv, clear, garbage)
  PROVE  IInv'
<1> DEFINE m == master_req(r, rv, clear, garbage)
<1>0. Bus(m, grant, rv) /\ (rv => bus # None)
  BY DEF Clock
<1>1. CASE Idle(r, grant, rv, clear)
  BY <1>0, <1>1, AcceptStep DEF Idle, Accepting
<1>2. CASE WaitReady(grant, clear)
  BY <1>0, <1>2, WaitReadyStep
<1>3. CASE AwaitAnswer(r, grant, rv, clear)
  <2>1. CASE rv /\ Accept(r, grant, rv, clear)
    BY <1>0, <1>3, <2>1, AcceptStep DEF AwaitAnswer, Accepting, Answers
  <2>2. CASE ~rv /\ Clear(clear) /\ UNCHANGED <<state, zaamo_fetched_data, zaamo_written_data>>
    <3>1. rv = FALSE /\ state \in Waiting /\ zaamo_written_data' \in Word
      BY <1>3, <2>2 DEF AwaitAnswer, Waiting, IInv, TypeOK
    <3>2. Bus(m, grant, FALSE)
      BY <1>0, <3>1
    <3> QED BY <2>2, <3>1, <3>2, HoldStep
  <2> QED BY <1>3, <2>1, <2>2 DEF AwaitAnswer
<1>4. CASE SCFail(r, grant, rv, clear)
  BY <1>0, <1>4, AcceptStep DEF SCFail, Accepting
<1>5. CASE AMOLoadReady(grant, clear)
  BY <1>0, <1>5, AMOLoadReadyStep
<1>6. CASE AMOLoadValid(m, grant, rv, clear)
  BY <1>0, <1>6, AMOLoadValidStep
<1>7. CASE AMOStoreReady(m, grant, clear)
  BY <1>0, <1>7, AMOStoreReadyStep
<1> QED BY <1>1, <1>2, <1>3, <1>4, <1>5, <1>6, <1>7 DEF Clock

LEMMA Inductive == Spec => []IInv
<1>1. Init => IInv
  BY RequestAssumption
     DEF Init, IInv, TypeOK, State, BusOwned, Waiting, OpOfState, FetchedIsCurrent,
         ScHoldsReservation, CommitIsMemory
<1>2. IInv /\ [Next]_vars => IInv'
  <2> SUFFICES ASSUME IInv, [Next]_vars PROVE IInv'
    OBVIOUS
  <2>1. CASE Next
    BY <2>1, ClockStep DEF Next
  <2>2. CASE UNCHANGED vars
    BY <2>2 DEF vars, amoVars, IInv, TypeOK, BusOwned, OpOfState, FetchedIsCurrent,
                ScHoldsReservation, CommitIsMemory
  <2> QED BY <2>1, <2>2
<1> QED BY <1>1, <1>2, PTL DEF Spec

\* What the retire trace reports for an AMO is in memory, whatever the bus
\* grants and when it answers (amounit.sv, AMOStoreReady).
THEOREM CommitsAreMemory == Spec => []CommitIsMemory
<1>1. IInv => CommitIsMemory
  BY DEF IInv
<1> QED BY <1>1, Inductive, PTL

\* A store-conditional that waits for the bus or has written holds the
\* reservation of its own address, and has used it up.
THEOREM ScReserved == Spec => []ScHoldsReservation
<1>1. IInv => ScHoldsReservation
  BY DEF IInv
<1> QED BY <1>1, Inductive, PTL

-----------------------------------------------------------------------------
(***************************************************************************)
(* The refinement.  A request is taken when the unit accepts it, and is    *)
(* performed when the bus takes its last access (an SC that fails: when it *)
(* fails); the cycles between are stuttering steps or traps of the port.   *)
(***************************************************************************)

\* The port's Update is what the unit's ALU computes.  Run amo compares the
\* code's ALU with the reference, operation by operation.
AluCorrect ==
  \A r \in Requests, w \in Word : r.op = "AMO" => gen_amo_wdata(r, w) = Update(r, w)

\* The abstract state of each concrete one.
LEMMA Mapping ==
  ASSUME TypeOK
  PROVE  /\ state = "Init" => portPhase = "idle" /\ portReq = None /\ portAns = None
         /\ Taken => portPhase = "taken" /\ portReq = slave_saved /\ portAns = None
         /\ Done => portPhase = "done" /\ portReq = slave_saved /\ portAns = slave_rdata
         /\ portOk <=> state = "WaitReady" /\ slave_saved.op = "SC"
BY DEF portPhase, portReq, portAns, portOk, Taken, Done, State, TypeOK

LEMMA MappingNext ==
  ASSUME TypeOK'
  PROVE  /\ state' = "Init" => portPhase' = "idle" /\ portReq' = None /\ portAns' = None
         /\ Taken' => portPhase' = "taken" /\ portReq' = slave_saved' /\ portAns' = None
         /\ Done' => portPhase' = "done" /\ portReq' = slave_saved' /\ portAns' = slave_rdata'
         /\ portOk' <=> state' = "WaitReady" /\ slave_saved'.op = "SC"
BY DEF portPhase, portReq, portAns, portOk, Taken, Done, State, TypeOK

\* Merging a word is the same on both levels.
LEMMA MergeIsMerge ==
  ASSUME NEW old, NEW new, NEW mask
  PROVE  Port!Merge(old, new, mask) = merge(old, new, mask)
BY DEF Port!Merge, merge

\* Accepting a request is Take, and giving an answer without a next request is
\* Answer.
LEMMA AcceptRefines ==
  ASSUME IInv, IInv', NEW r \in Requests \cup {None}, NEW grant \in BOOLEAN,
         NEW rv \in BOOLEAN, NEW clear \in BOOLEAN, NEW garbage, rv => bus # None,
         Accepting(rv), Accept(r, grant, rv, clear),
         Bus(master_req(r, rv, clear, garbage), grant, rv)
  PROVE  [Port!Next]_(Port!portVars)
<1> DEFINE m == master_req(r, rv, clear, garbage)
<1>1. TypeOK /\ TypeOK' /\ BusOwned
  BY DEF IInv
<1>2. portPhase \in {"idle", "done"} /\ (state = "Init" <=> portPhase = "idle")
  BY <1>1, Mapping DEF Accepting, Answers, Done
<1>3. CASE r = None
  <2>1. /\ state' = "Init" /\ is_addr_reserved' = (is_addr_reserved /\ ~clear)
        /\ UNCHANGED <<slave_saved, reserved_addr, zaamo_fetched_data, zaamo_written_data>>
    BY <1>3 DEF Accept, Accepts
  <2>2. m = None
    BY <1>3, AcceptRequest
  <2>3. mem' = mem
    BY <1>1, <2>2 DEF Bus
  <2>4. portRes' = IF clear THEN None ELSE portRes
    BY <2>1 DEF portRes
  <2>5. portPhase' = "idle" /\ portReq' = None /\ portAns' = None /\ portOk' = FALSE
    BY <1>1, <2>1, MappingNext DEF portOk
  <2>6. CASE portPhase = "done"
    <3>1. Port!Answer(clear)
      BY <2>3, <2>4, <2>5, <2>6 DEF Port!Answer
    <3> QED BY <3>1 DEF Port!Next
  <2>7. CASE portPhase = "idle"
    <3>1. state = "Init"
      BY <1>2, <2>7
    <3>2. /\ portPhase = "idle" /\ portReq = None /\ portAns = None /\ portOk = FALSE
      BY <1>1, <3>1, Mapping DEF portOk
    <3>3. CASE clear
      BY <2>3, <2>4, <2>5, <3>2, <3>3 DEF Port!Next, Port!Trap
    <3>4. CASE ~clear
      BY <2>3, <2>4, <2>5, <3>2, <3>4 DEF Port!portVars
    <3> QED BY <3>3, <3>4
  <2> QED BY <1>2, <2>6, <2>7
<1>4. CASE r # None
  <2>1. /\ r \in Requests /\ r.op \in Op /\ r.addr \in Addrs /\ r.wdata \in Word
        /\ FullAddr(r) # None
    BY <1>4, RequestAssumption DEF FullAddr
  <2>2. /\ state' = AfterAccept(r, grant, clear) /\ slave_saved' = r
        /\ is_addr_reserved' = (~clear /\ (r.op = "LR" \/ (r.op # "SC" /\ is_addr_reserved)))
        /\ reserved_addr' = IF r.op = "LR" THEN FullAddr(r) ELSE reserved_addr
    BY <1>4, AcceptRequest DEF Accept, Accepts
  <2>3. m = IF r.op = "STORE" \/ (r.op = "SC" /\ sc_success(r, clear))
              THEN Write(r.addr, r.wdata, r.mask)
            ELSE IF r.op = "SC" THEN None ELSE Read(r.addr)
    BY <1>4, AcceptRequest
  <2>4. (m = None) <=> (r.op = "SC" /\ ~sc_success(r, clear))
    BY <2>1, <2>3, RequestOnBus
  <2>5. Port!NewOk(r, clear) <=> r.op = "SC" /\ sc_success(r, clear)
    BY <2>1 DEF Port!NewOk, sc_success, portRes, FullAddr
  <2>6. portRes' = Port!NewRes(r, clear)
    BY <2>1, <2>2 DEF Port!NewRes, portRes, FullAddr
  <2>7. CASE Taken'
    <3>0. ~(m # None /\ master_ready(grant)) \/ (r.op = "AMO" /\ ~m.wen)
      BY <2>1, <2>2, <2>3, <2>4, <2>7 DEF Taken, AfterAccept, Op, Read
    <3>1. mem' = mem
      BY <3>0 DEF Bus
    <3>2. portPhase' = "taken" /\ portReq' = r /\ portAns' = None
      BY <1>1, <2>2, <2>7, MappingNext
    <3>3. portOk' = Port!NewOk(r, clear)
      BY <2>1, <2>2, <2>5, <2>7 DEF portOk, AfterAccept, Taken, Op, Port!NewOk
    <3>4. Port!Take(r, clear)
      BY <1>2, <2>6, <3>1, <3>2, <3>3 DEF Port!Take
    <3> QED BY <2>1, <3>4 DEF Port!Next
  <2>8. CASE Done'
    <3>1. portPhase' = "done" /\ portReq' = r /\ portAns' = slave_rdata' /\ portOk' = FALSE
      BY <1>1, <2>2, <2>8, MappingNext DEF portOk, Done
    <3>2. Port!Performed(r, Port!NewOk(r, clear))
      <4>1. CASE r.op = "SC" /\ ~sc_success(r, clear)
        <5>1. state' = "SCFail" /\ mem' = mem
          BY <2>2, <2>4, <4>1 DEF AfterAccept, Bus
        <5>2. slave_rdata' = ScBad
          BY <5>1 DEF slave_rdata
        <5> QED BY <2>5, <3>1, <4>1, <5>1, <5>2 DEF Port!Performed
      <4>2. CASE ~(r.op = "SC" /\ ~sc_success(r, clear))
        <5>1. master_ready(grant) /\ m # None
          BY <2>1, <2>2, <2>4, <2>8, <4>2 DEF AfterAccept, Done, Op
        <5>2. /\ bus' = mem[r.addr]
              /\ mem' = IF m.wen THEN [mem EXCEPT ![r.addr] = merge(@, r.wdata, r.mask)] ELSE mem
          BY <2>3, <2>4, <4>2, <5>1 DEF Bus, Write, Read
        <5>3. r.op # "AMO" /\ (r.op = "SC" => state' = "SCSuccess")
              /\ (r.op # "SC" => state' = "WaitValid")
          BY <2>1, <2>2, <2>8, <4>2, <5>1 DEF AfterAccept, Done, Op
        <5>4. slave_rdata' = IF r.op = "SC" THEN ScOk ELSE mem[r.addr]
          BY <5>2, <5>3 DEF slave_rdata
        <5>5. m.wen <=> r.op \in {"STORE", "SC"}
          BY <2>1, <2>3, <4>2 DEF Write, Read, Op
        <5> QED BY <2>1, <2>5, <3>1, <4>2, <5>2, <5>3, <5>4, <5>5, MergeIsMerge
                DEF Port!Performed, Op
      <4> QED BY <4>1, <4>2
    <3>3. Port!Take(r, clear)
      BY <1>2, <2>6, <3>1, <3>2 DEF Port!Take
    <3> QED BY <2>1, <3>3 DEF Port!Next
  <2> QED BY <2>1, <2>2, <2>7, <2>8 DEF AfterAccept, Taken, Done, Op
<1> QED BY <1>3, <1>4

\* What a cycle that accepts nothing does to the reservation.
LEMMA ClearRefines ==
  ASSUME NEW clear \in BOOLEAN, Clear(clear)
  PROVE  portRes' = IF clear THEN None ELSE portRes
BY DEF Clear, portRes

\* A cycle that changes nothing but the reservation is a stutter or a Trap.
LEMMA QuietRefines ==
  ASSUME NEW clear \in BOOLEAN, portRes' = IF clear THEN None ELSE portRes,
         UNCHANGED <<portPhase, portReq, portOk, portAns, mem>>,
         clear => portPhase # "taken" \/ ~portOk
  PROVE  [Port!Next]_(Port!portVars)
<1>1. CASE clear
  BY <1>1 DEF Port!Next, Port!Trap
<1>2. CASE ~clear
  BY <1>2 DEF Port!portVars
<1> QED BY <1>1, <1>2

\* WaitReady: a request that the bus takes, or an SC that a trap fails, is
\* performed.
LEMMA WaitReadyRefines ==
  ASSUME IInv, IInv', NEW r, NEW grant \in BOOLEAN, NEW rv \in BOOLEAN,
         NEW clear \in BOOLEAN, NEW garbage, WaitReady(grant, clear),
         Bus(master_req(r, rv, clear, garbage), grant, rv)
  PROVE  [Port!Next]_(Port!portVars)
<1> DEFINE m == master_req(r, rv, clear, garbage)
<1>1. /\ TypeOK /\ TypeOK' /\ bus = None /\ state = "WaitReady"
      /\ slave_saved \in Requests /\ slave_saved # None /\ slave_saved.op # "AMO"
      /\ slave_saved.op \in Op /\ slave_saved.addr \in Addrs /\ slave_saved.wdata \in Word
  BY SavedType DEF IInv, WaitReady, BusOwned, Waiting, OpOfState, AmoStates
<1>2. m = IF slave_saved.op = "STORE" \/ (slave_saved.op = "SC" /\ ~clear)
            THEN Write(slave_saved.addr, slave_saved.wdata, slave_saved.mask)
          ELSE IF slave_saved.op = "SC" THEN None ELSE Read(slave_saved.addr)
  BY <1>1 DEF master_req
<1>3. (m = None) <=> (slave_saved.op = "SC" /\ clear)
  BY <1>1, <1>2, RequestOnBus
<1>4. /\ state' = IF m = None THEN "SCFail" ELSE IF ~master_ready(grant) THEN state
                  ELSE IF slave_saved.op = "SC" THEN "SCSuccess" ELSE "WaitValid"
      /\ slave_saved' = slave_saved
      /\ portRes' = IF clear THEN None ELSE portRes
  BY <1>3, ClearRefines DEF WaitReady, Clear
<1>5. /\ portPhase = "taken" /\ portReq = slave_saved /\ portAns = None
      /\ portOk <=> slave_saved.op = "SC"
  BY <1>1, Mapping DEF Taken
<1>6. CASE m # None /\ ~master_ready(grant)
  <2>1. state' = "WaitReady" /\ mem' = mem
    BY <1>1, <1>4, <1>6 DEF Bus
  <2>2. UNCHANGED <<portPhase, portReq, portOk, portAns>>
    BY <1>1, <1>4, <1>5, <2>1, MappingNext DEF Taken, portOk
  <2> QED BY <1>3, <1>4, <1>5, <1>6, <2>1, <2>2, QuietRefines
<1>7. CASE ~(m # None /\ ~master_ready(grant))
  <2>1. portPhase' = "done" /\ portReq' = slave_saved /\ portAns' = slave_rdata'
        /\ portOk' = FALSE
    <3>1. Done'
      BY <1>4, <1>7 DEF Done
    <3> QED BY <1>1, <1>4, <3>1, MappingNext DEF portOk, Done
  <2>2. Port!Performed(slave_saved, portOk /\ ~clear)
    <3>1. CASE m = None
      <4>1. state' = "SCFail" /\ mem' = mem
        BY <1>4, <3>1 DEF Bus
      <4>2. slave_rdata' = ScBad
        BY <4>1 DEF slave_rdata
      <4> QED BY <1>3, <2>1, <3>1, <4>1, <4>2 DEF Port!Performed
    <3>2. CASE m # None
      <4>1. /\ bus' = mem[slave_saved.addr]
            /\ mem' = IF m.wen THEN [mem EXCEPT ![slave_saved.addr] =
                                       merge(@, slave_saved.wdata, slave_saved.mask)] ELSE mem
        BY <1>2, <1>3, <1>7, <3>2 DEF Bus, Write, Read
      <4>2. slave_rdata' = IF slave_saved.op = "SC" THEN ScOk ELSE mem[slave_saved.addr]
        BY <1>4, <1>7, <3>2, <4>1 DEF slave_rdata
      <4>3. m.wen <=> slave_saved.op \in {"STORE", "SC"}
        BY <1>1, <1>2, <1>3, <3>2 DEF Write, Read, Op
      <4> QED BY <1>1, <1>3, <1>5, <2>1, <3>2, <4>1, <4>2, <4>3, MergeIsMerge
              DEF Port!Performed, Op
    <3> QED BY <3>1, <3>2
  <2>3. Port!Perform(clear)
    BY <1>4, <1>5, <2>1, <2>2 DEF Port!Perform
  <2> QED BY <2>3 DEF Port!Next
<1> QED BY <1>6, <1>7

\* The store of an AMO performs all of it.
LEMMA AMOStoreReadyRefines ==
  ASSUME AluCorrect, IInv, IInv', NEW r, NEW grant \in BOOLEAN, NEW rv \in BOOLEAN,
         NEW clear \in BOOLEAN, NEW garbage,
         AMOStoreReady(master_req(r, rv, clear, garbage), grant, clear),
         Bus(master_req(r, rv, clear, garbage), grant, rv)
  PROVE  [Port!Next]_(Port!portVars)
<1> DEFINE w == mem[slave_saved.addr]
<1>1. /\ TypeOK /\ TypeOK' /\ state = "AMOStoreReady"
      /\ slave_saved \in Requests /\ slave_saved.op = "AMO"
      /\ slave_saved.addr \in Addrs /\ zaamo_fetched_data = w /\ w \in Word
  BY SavedType DEF IInv, AMOStoreReady, OpOfState, AmoStates, FetchedIsCurrent, TypeOK
<1>2. /\ state' = IF master_ready(grant) THEN "AMOStoreValid" ELSE "AMOStoreReady"
      /\ UNCHANGED <<slave_saved, zaamo_fetched_data>>
      /\ portRes' = IF clear THEN None ELSE portRes
  BY <1>1, ClearRefines DEF AMOStoreReady, Clear
<1>3. mem' = IF master_ready(grant)
               THEN [mem EXCEPT ![slave_saved.addr] = Update(slave_saved, w)] ELSE mem
  BY <1>1, AMOStoreReadyStep DEF AluCorrect
<1>4. portPhase = "taken" /\ portReq = slave_saved /\ portAns = None /\ portOk = FALSE
  BY <1>1, Mapping DEF Taken, portOk
<1>5. CASE ~master_ready(grant)
  <2>1. state' = "AMOStoreReady" /\ mem' = mem
    BY <1>2, <1>3, <1>5
  <2>2. UNCHANGED <<portPhase, portReq, portOk, portAns>>
    BY <1>1, <1>2, <1>4, <2>1, MappingNext DEF Taken, portOk
  <2> QED BY <1>2, <1>4, <2>1, <2>2, QuietRefines
<1>6. CASE master_ready(grant)
  <2>1. state' = "AMOStoreValid" /\ slave_rdata' = w
    BY <1>1, <1>2, <1>6 DEF slave_rdata
  <2>2. portPhase' = "done" /\ portReq' = slave_saved /\ portAns' = w /\ portOk' = FALSE
    BY <1>1, <1>2, <2>1, MappingNext DEF Done, portOk
  <2>3. Port!Performed(slave_saved, portOk /\ ~clear)
    BY <1>1, <1>3, <1>6, <2>2 DEF Port!Performed
  <2>4. Port!Perform(clear)
    BY <1>2, <1>4, <2>2, <2>3 DEF Port!Perform
  <2> QED BY <2>4 DEF Port!Next
<1> QED BY <1>5, <1>6

\* Every cycle is a step of the port, or nothing it can see.
LEMMA ClockRefines ==
  ASSUME AluCorrect, IInv, IInv', NEW r \in Requests \cup {None}, NEW grant \in BOOLEAN,
         NEW rv \in BOOLEAN, NEW clear \in BOOLEAN, NEW garbage,
         Clock(r, grant, rv, clear, garbage)
  PROVE  [Port!Next]_(Port!portVars)
<1> DEFINE m == master_req(r, rv, clear, garbage)
<1>0. Bus(m, grant, rv) /\ (rv => bus # None) /\ TypeOK /\ TypeOK'
  BY DEF Clock, IInv
<1>1. CASE Idle(r, grant, rv, clear)
  BY <1>0, <1>1, AcceptRefines DEF Idle, Accepting
<1>2. CASE WaitReady(grant, clear)
  BY <1>0, <1>2, WaitReadyRefines
<1>3. CASE AwaitAnswer(r, grant, rv, clear)
  <2>1. CASE rv /\ Accept(r, grant, rv, clear)
    BY <1>0, <1>3, <2>1, AcceptRefines DEF AwaitAnswer, Accepting, Answers
  <2>2. CASE ~rv /\ Clear(clear) /\ UNCHANGED <<state, zaamo_fetched_data, zaamo_written_data>>
    <3>1. state \in Waiting /\ Done /\ Done' /\ slave_saved' = slave_saved
      BY <1>3, <2>2 DEF AwaitAnswer, Waiting, Done, Clear
    <3>2. bus' = bus /\ mem' = mem
      BY <1>0, <2>2, <3>1 DEF Bus, IInv, BusOwned, master_ready
    <3>3. slave_rdata' = slave_rdata
      BY <2>2, <3>2 DEF slave_rdata
    <3>4. UNCHANGED <<portPhase, portReq, portOk, portAns>> /\ portPhase # "taken"
      BY <1>0, <2>2, <3>1, <3>3, Mapping, MappingNext DEF portOk
    <3> QED BY <2>2, <3>2, <3>4, ClearRefines, QuietRefines
  <2> QED BY <1>3, <2>1, <2>2 DEF AwaitAnswer
<1>4. CASE SCFail(r, grant, rv, clear)
  BY <1>0, <1>4, AcceptRefines DEF SCFail, Accepting
<1>5. CASE AMOLoadReady(grant, clear) \/ AMOLoadValid(m, grant, rv, clear)
  <2>1. mem' = mem /\ Clear(clear)
    BY <1>0, <1>5, AMOLoadReadyStep, AMOLoadValidStep DEF AMOLoadReady, AMOLoadValid
  <2>2. Taken /\ Taken' /\ slave_saved' = slave_saved /\ ~portOk /\ ~portOk'
    BY <1>5, <2>1 DEF Taken, AMOLoadReady, AMOLoadValid, Clear, portOk, slave_ready
  <2>3. UNCHANGED <<portPhase, portReq, portOk, portAns>>
    BY <1>0, <2>2, Mapping, MappingNext DEF portOk
  <2> QED BY <2>1, <2>2, <2>3, ClearRefines, QuietRefines
<1>6. CASE AMOStoreReady(m, grant, clear)
  BY <1>0, <1>6, AMOStoreReadyRefines
<1> QED BY <1>1, <1>2, <1>3, <1>4, <1>5, <1>6 DEF Clock

\* Whatever the bus grants and whenever it answers, the data cache sees one
\* indivisible operation per request: every behaviour of amounit.sv is one of
\* the atomic port, provided its ALU computes the port's Update.
THEOREM UnitImplementsPort == AluCorrect => (Spec => ImplementsPort)
<1> SUFFICES ASSUME AluCorrect PROVE Spec => ImplementsPort
  OBVIOUS
<1>1. Init => Port!Init
  BY DEF Init, Port!Init, portPhase, portReq, portOk, portAns, portRes, Taken, Done, Word,
         Port!Word
<1>2. IInv /\ IInv' /\ [Next]_vars => [Port!Next]_(Port!portVars)
  <2> SUFFICES ASSUME IInv, IInv', [Next]_vars PROVE [Port!Next]_(Port!portVars)
    OBVIOUS
  <2>1. CASE Next
    BY <2>1, ClockRefines DEF Next
  <2>2. CASE UNCHANGED vars
    BY <2>2 DEF vars, amoVars, Port!portVars, portPhase, portReq, portOk, portAns, portRes,
                Taken, Done, slave_rdata
  <2> QED BY <2>1, <2>2
<1> QED BY <1>1, <1>2, Inductive, PTL DEF Spec, ImplementsPort, Port!Spec
=============================================================================
