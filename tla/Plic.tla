-------------------------------- MODULE Plic --------------------------------
(***************************************************************************)
(* The interrupt controller of src/plic.sv, one step per clock cycle:      *)
(* gateways that latch level-triggered sources, and the claim / complete   *)
(* protocol of its two contexts, M and S.                                  *)
(*                                                                         *)
(*  - A request has reg, wen, ctx, irq and value; "PRIORITY", "PENDING",   *)
(*    "ENABLE", "THRESHOLD" and "CLAIM" stand for the address ranges, and  *)
(*    "PENDING_HI" and "ENABLE_HI" for the second words, in which the last *)
(*    source is alone.  Accesses to source 0 and to other addresses change *)
(*    nothing and are left out.                                            *)
(*  - served is a history variable: what each context has claimed and not  *)
(*    completed.                                                           *)
(***************************************************************************)
EXTENDS Integers

CONSTANTS
  NumSources,   \* PLIC_NUM_SOURCES
  Prios,        \* priorities and thresholds software writes
  PlicReqs,     \* the accesses software makes
  NoReq

Sources == 1 .. NumSources
LowWord == 1 .. NumSources - 1    \* bits 31:1 of the first word
Contexts == {"M", "S"}

\* An access that makes sense to the controller: registers have 3 bits, and
\* enable bits belong to sources.
PlicAccessOK(r) ==
  /\ r.wen \in BOOLEAN /\ r.ctx \in Contexts
  /\ r.wen /\ r.reg = "PRIORITY" => r.irq \in Sources /\ r.value \in 0 .. 7
  /\ r.wen /\ r.reg \in {"ENABLE", "ENABLE_HI"} => r.value \subseteq Sources
  /\ r.wen /\ r.reg = "THRESHOLD" => r.value \in 0 .. 7

ASSUME PlicAssumption ==
  /\ NumSources \in Nat \ {0}
  /\ Prios \subseteq 0 .. 7
  /\ NoReq \notin PlicReqs
  /\ \A r \in PlicReqs : PlicAccessOK(r)

VARIABLES
  irq_priority, pending, in_service, enable, threshold,
  p_wait,                               \* bus_wait_valid_low
  p_rvalid, p_rdata,
  served

plicVars == <<irq_priority, pending, in_service, enable, threshold,
              p_wait, p_rvalid, p_rdata, served>>

(***************************************************************************)
(* The loop of select_irq after the sources 1 .. i: the best one so far,   *)
(* 0 if there is none, and the priority the next one has to exceed.        *)
(***************************************************************************)
NextBest(ctx, i, best) ==
  IF i \in pending \cap enable[ctx] /\ irq_priority[i] > best.prio
    THEN [irq |-> i, prio |-> irq_priority[i]] ELSE best

select_loop(ctx) ==
  LET best[i \in 0 .. NumSources] ==
        IF i = 0 THEN [irq |-> 0, prio |-> threshold[ctx]] ELSE NextBest(ctx, i, best[i - 1])
  IN best

select_irq(ctx) == select_loop(ctx)[NumSources].irq

meip == select_irq("M") # 0
seip == select_irq("S") # 0

plic_read_reg(r) ==
  CASE r.reg = "PRIORITY"   -> irq_priority[r.irq]
    [] r.reg = "PENDING"    -> pending \cap LowWord
    [] r.reg = "PENDING_HI" -> pending \ LowWord
    [] r.reg = "ENABLE"     -> enable[r.ctx] \cap LowWord
    [] r.reg = "ENABLE_HI"  -> enable[r.ctx] \ LowWord
    [] r.reg = "THRESHOLD"  -> threshold[r.ctx]
    [] r.reg = "CLAIM"      -> select_irq(r.ctx)

-----------------------------------------------------------------------------
(***************************************************************************)
(* One cycle.  fire is the access of this cycle, or NoReq; source is the   *)
(* set of sources whose level is high.                                     *)
(***************************************************************************)
PlicWrites(fire, reg) == fire # NoReq /\ fire.wen /\ fire.reg = reg

\* The source that a read of CLAIM takes: none if nothing can be claimed.
Claimed(fire) ==
  IF fire # NoReq /\ ~fire.wen /\ fire.reg = "CLAIM"
    THEN {select_irq(fire.ctx)} \ {0} ELSE {}

CompletesForMOnly(fire) ==
  IF PlicWrites(fire, "CLAIM") THEN {fire.value} \cap enable["M"] ELSE {}

\* A completion names a source; which context completes does not matter.
Completed(fire) == IF PlicWrites(fire, "CLAIM") THEN {fire.value} ELSE {}

LatchesInService(fire, source) ==
  pending' = (pending \cup source) \ Claimed(fire)

ForgetsWhileClaiming(fire, source) ==
  pending' = IF Claimed(fire) # {} THEN pending \ Claimed(fire)
             ELSE {i \in Sources : i \in source \ in_service}

Pending(fire, source) ==
  pending' = (pending \cup (source \ in_service)) \ Claimed(fire)

InService(fire) == in_service' = (in_service \ Completed(fire)) \cup Claimed(fire)

\* A write of the first enable word also clears the last source.
PlicRegisters(fire) ==
  /\ irq_priority' = IF PlicWrites(fire, "PRIORITY")
                       THEN [irq_priority EXCEPT ![fire.irq] = fire.value] ELSE irq_priority
  /\ enable' = IF PlicWrites(fire, "ENABLE")
                 THEN [enable EXCEPT ![fire.ctx] = fire.value \cap LowWord]
               ELSE IF PlicWrites(fire, "ENABLE_HI")
                 THEN [enable EXCEPT ![fire.ctx] = (@ \cap LowWord) \cup (fire.value \ LowWord)]
               ELSE enable
  /\ threshold' = IF PlicWrites(fire, "THRESHOLD")
                    THEN [threshold EXCEPT ![fire.ctx] = fire.value] ELSE threshold

PlicBus(valid, fire) ==
  /\ p_wait' = (valid /\ (fire # NoReq \/ p_wait))
  /\ p_rvalid' = (fire # NoReq)
  /\ p_rdata' = IF fire # NoReq THEN plic_read_reg(fire) ELSE 0

PlicHistory(fire) ==
  served' = [c \in Contexts |->
               (served[c] \ Completed(fire))
                 \cup (IF fire # NoReq /\ fire.ctx = c THEN Claimed(fire) ELSE {})]

PlicClock(req, source) ==
  LET fire == IF p_wait THEN NoReq ELSE req IN
  /\ PlicBus(req # NoReq, fire)
  /\ Pending(fire, source)
  /\ InService(fire)
  /\ PlicRegisters(fire)
  /\ PlicHistory(fire)

PlicInit ==
  /\ irq_priority = [i \in Sources |-> 0]
  /\ pending = {} /\ in_service = {}
  /\ enable = [c \in Contexts |-> {}]
  /\ threshold = [c \in Contexts |-> 0]
  /\ p_wait = FALSE /\ p_rvalid = FALSE /\ p_rdata = 0
  /\ served = [c \in Contexts |-> {}]

\* Software completes only what the context has claimed.
Legal(req) ==
  req # NoReq /\ req.wen /\ req.reg = "CLAIM" => req.value \in served[req.ctx]

\* The controller alone: any legal access and any levels in any cycle.
PlicNext ==
  \E req \in PlicReqs \cup {NoReq}, source \in SUBSET Sources :
    Legal(req) /\ PlicClock(req, source)

PlicSpec == PlicInit /\ [][PlicNext]_plicVars

-----------------------------------------------------------------------------
(***************************************************************************)
(* Properties.                                                             *)
(***************************************************************************)

\* Every register holds a value of its type.
PlicTypeOK ==
  /\ irq_priority \in [Sources -> 0 .. 7]
  /\ pending \subseteq Sources /\ in_service \subseteq Sources
  /\ enable \in [Contexts -> SUBSET Sources]
  /\ threshold \in [Contexts -> 0 .. 7]
  /\ p_wait \in BOOLEAN /\ p_rvalid \in BOOLEAN
  /\ served \in [Contexts -> SUBSET Sources]

\* A source is served by at most one context at a time, even when both have
\* it enabled, and cannot be claimed again before it is completed.
ServedOnce ==
  /\ served["M"] \cap served["S"] = {}
  /\ in_service = served["M"] \cup served["S"]
  /\ pending \cap in_service = {}

\* A latched interrupt is forgotten by nothing but a claim of it, whatever
\* else is latched, claimed or completed in the same cycle.
PendingUntilClaimed ==
  [][\A i \in pending \ pending' : \E c \in Contexts : i \in served'[c] \ served[c]]_plicVars
=============================================================================
