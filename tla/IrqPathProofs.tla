--------------------------- MODULE IrqPathProofs ----------------------------
(***************************************************************************)
(* The UART and the PLIC for every FIFO depth, number of sources and access*)
(* of the software, each alone, and then the interrupt path that connects  *)
(* them.                                                                   *)
(***************************************************************************)
EXTENDS IrqPath, TLAPS, WellFoundedInduction, SequenceTheorems

-----------------------------------------------------------------------------
(***************************************************************************)
(* Induction over an interval, from the least element that is missing.     *)
(***************************************************************************)
Less == {p \in Nat \X Nat : p[1] < p[2]}

LEMMA LessWellFounded == IsWellFoundedOn(Less, Nat)
<1>1. OpToRel(<, Nat) = Less
  BY Zenon DEF OpToRel, Less
<1> QED BY <1>1, NatLessThanWellFounded, Zenon

LEMMA IntervalInduction ==
  ASSUME NEW n \in Nat, NEW T, 0 \in T, \A i \in 1 .. n : i - 1 \in T => i \in T
  PROVE  \A i \in 0 .. n : i \in T
<1> DEFINE Out == {i \in Nat : i <= n /\ i \notin T}
<1>1. SUFFICES ASSUME Out # {} PROVE FALSE
  OBVIOUS
<1>2. PICK m \in Out : \A y \in Out : ~(<<y, m>> \in Less)
  BY <1>1, WFMin, LessWellFounded, Zenon
<1>3. m \in Nat /\ m <= n /\ m \notin T
  OBVIOUS
<1>4. m \in 1 .. n /\ m - 1 \in Nat
  BY <1>3
<1>5. m - 1 \notin T
  BY <1>3, <1>4
<1>6. <<m - 1, m>> \in Less /\ m - 1 \in Out
  BY <1>3, <1>4, <1>5 DEF Less
<1> QED BY <1>2, <1>6

-----------------------------------------------------------------------------
(***************************************************************************)
(* select_irq.                                                             *)
(***************************************************************************)

\* f runs the loop of select_irq up to source n.
Runs(f, ctx, n) ==
  f = [i \in 0 .. n |-> IF i = 0 THEN [irq |-> 0, prio |-> threshold[ctx]]
                        ELSE NextBest(ctx, i, f[i - 1])]

\* The loop can be run over any number of sources.
LEMMA LoopExists ==
  ASSUME NEW ctx, NEW n \in Nat
  PROVE  \E f : Runs(f, ctx, n)
<1> DEFINE T == {k \in Nat : \E f : Runs(f, ctx, k)}
<1>1. 0 \in T
  <2> DEFINE f == [i \in 0 .. 0 |-> [irq |-> 0, prio |-> threshold[ctx]]]
  <2>1. Runs(f, ctx, 0)
    BY DEF Runs
  <2> QED BY <2>1
<1>2. ASSUME NEW i \in 1 .. n, i - 1 \in T PROVE i \in T
  <2>1. PICK f : Runs(f, ctx, i - 1)
    BY <1>2
  <2> DEFINE g == [k \in 0 .. i |-> IF k = i THEN NextBest(ctx, i, f[i - 1]) ELSE f[k]]
  <2>2. /\ \A k \in 0 .. i - 1 : f[k] = IF k = 0 THEN [irq |-> 0, prio |-> threshold[ctx]]
                                        ELSE NextBest(ctx, k, f[k - 1])
    BY <2>1 DEF Runs
  <2>3. \A k \in 0 .. i : g[k] = IF k = 0 THEN [irq |-> 0, prio |-> threshold[ctx]]
                                 ELSE NextBest(ctx, k, g[k - 1])
    <3> SUFFICES ASSUME NEW k \in 0 .. i
                 PROVE g[k] = IF k = 0 THEN [irq |-> 0, prio |-> threshold[ctx]]
                              ELSE NextBest(ctx, k, g[k - 1])
      OBVIOUS
    <3>1. CASE k = 0
      BY <2>2, <3>1
    <3>2. CASE k # 0
      <4>1. g[k - 1] = f[k - 1]
        BY <3>2
      <4> HIDE DEF g
      <4>2. CASE k = i
        BY <3>2, <4>1, <4>2 DEF g
      <4>3. CASE k # i
        BY <2>2, <3>2, <4>1, <4>3 DEF g
      <4> QED BY <4>2, <4>3
    <3> QED BY <3>1, <3>2
  <2>4. Runs(g, ctx, i)
    <3> HIDE DEF g
    <3>1. g = [k \in 0 .. i |-> g[k]]
      BY DEF g
    <3> QED BY <2>3, <3>1 DEF Runs
  <2> QED BY <2>4
<1>3. n \in T
  <2> HIDE DEF T
  <2> QED BY <1>1, <1>2, IntervalInduction
<1> QED BY <1>3

LEMMA LoopRuns ==
  ASSUME NEW ctx
  PROVE  Runs(select_loop(ctx), ctx, NumSources)
<1>1. PICK f : Runs(f, ctx, NumSources)
  BY LoopExists, PlicAssumption
<1> QED BY <1>1 DEF Runs, select_loop

\* What the loop has found after i sources: nothing above the threshold, or a
\* pending, enabled source that no other exceeds.
Found(ctx, i, best) ==
  /\ \/ best.irq = 0 /\ best.prio = threshold[ctx]
     \/ /\ best.irq \in pending \cap enable[ctx]
        /\ best.prio = irq_priority[best.irq] /\ best.prio > threshold[ctx]
  /\ \A j \in pending \cap enable[ctx] : j <= i => irq_priority[j] <= best.prio

LEMMA LoopFinds ==
  ASSUME PlicTypeOK, NEW ctx \in Contexts
  PROVE  Found(ctx, NumSources, select_loop(ctx)[NumSources])
<1> DEFINE f == select_loop(ctx)
           T == {i \in 0 .. NumSources : Found(ctx, i, f[i])}
<1>0. /\ f[0] = [irq |-> 0, prio |-> threshold[ctx]]
      /\ \A i \in 1 .. NumSources : f[i] = NextBest(ctx, i, f[i - 1])
  BY LoopRuns, PlicAssumption DEF Runs
<1>1. /\ threshold[ctx] \in 0 .. 7
      /\ pending \cap enable[ctx] \subseteq Sources
      /\ \A j \in Sources : irq_priority[j] \in 0 .. 7
  BY DEF PlicTypeOK
<1> HIDE DEF f
<1>2. 0 \in T
  BY <1>0, <1>1, PlicAssumption DEF Found, Sources
<1>3. ASSUME NEW i \in 1 .. NumSources, i - 1 \in T PROVE i \in T
  <2>1. Found(ctx, i - 1, f[i - 1]) /\ f[i] = NextBest(ctx, i, f[i - 1])
    BY <1>0, <1>3
  <2>2. CASE i \in pending \cap enable[ctx] /\ irq_priority[i] > f[i - 1].prio
    <3>1. f[i] = [irq |-> i, prio |-> irq_priority[i]]
      BY <2>1, <2>2 DEF NextBest
    <3>2. f[i - 1].prio \in 0 .. 7 /\ f[i - 1].prio >= threshold[ctx]
      BY <1>1, <2>1 DEF Found
    <3>3. Found(ctx, i, f[i])
      BY <1>1, <2>1, <2>2, <3>1, <3>2 DEF Found, Sources
    <3> QED BY <3>3
  <2>3. CASE ~(i \in pending \cap enable[ctx] /\ irq_priority[i] > f[i - 1].prio)
    <3>1. f[i] = f[i - 1]
      BY <2>1, <2>3 DEF NextBest
    <3>2. f[i - 1].prio \in 0 .. 7
      BY <1>1, <2>1 DEF Found
    <3>3. Found(ctx, i, f[i])
      BY <1>1, <2>1, <2>3, <3>1, <3>2 DEF Found, Sources
    <3> QED BY <3>3
  <2> QED BY <2>2, <2>3
<1>4. NumSources \in T
  <2> HIDE DEF T
  <2> QED BY <1>2, <1>3, IntervalInduction, PlicAssumption
<1> QED BY <1>4 DEF f

\* select_irq returns a pending, enabled source of the highest priority if one
\* exceeds the threshold, and 0 if none does.
LEMMA SelectIrq ==
  ASSUME PlicTypeOK, NEW ctx \in Contexts
  PROVE  /\ select_irq(ctx) # 0 =>
              /\ select_irq(ctx) \in pending \cap enable[ctx]
              /\ irq_priority[select_irq(ctx)] > threshold[ctx]
              /\ \A j \in pending \cap enable[ctx] :
                   irq_priority[j] <= irq_priority[select_irq(ctx)]
         /\ select_irq(ctx) = 0 =>
              \A j \in pending \cap enable[ctx] : irq_priority[j] <= threshold[ctx]
<1>1. Found(ctx, NumSources, select_loop(ctx)[NumSources])
  BY LoopFinds
<1>2. pending \cap enable[ctx] \subseteq 1 .. NumSources
  BY DEF PlicTypeOK, Sources
<1> QED BY <1>1, <1>2, PlicAssumption DEF Found, select_irq

-----------------------------------------------------------------------------
(***************************************************************************)
(* The PLIC.                                                               *)
(***************************************************************************)

\* A claim takes a pending source.
LEMMA ClaimedPending ==
  ASSUME PlicTypeOK, NEW fire, fire # NoReq => PlicAccessOK(fire)
  PROVE  Claimed(fire) \subseteq pending /\ Claimed(fire) \subseteq Sources
<1>1. CASE fire # NoReq /\ ~fire.wen /\ fire.reg = "CLAIM"
  <2>1. select_irq(fire.ctx) # 0 => select_irq(fire.ctx) \in pending
    BY <1>1, SelectIrq DEF PlicAccessOK
  <2> QED BY <1>1, <2>1 DEF Claimed, PlicTypeOK
<1>2. CASE ~(fire # NoReq /\ ~fire.wen /\ fire.reg = "CLAIM")
  BY <1>2 DEF Claimed
<1> QED BY <1>1, <1>2

\* One cycle keeps the types, serves no source twice, and forgets a pending
\* source only by a claim.
LEMMA PlicStep ==
  ASSUME PlicTypeOK, ServedOnce, NEW req, req # NoReq => PlicAccessOK(req),
         NEW source \in SUBSET Sources, PlicClock(req, source)
  PROVE  /\ PlicTypeOK' /\ ServedOnce'
         /\ \A i \in pending \ pending' : \E c \in Contexts : i \in served'[c] \ served[c]
<1> DEFINE fire == IF p_wait THEN NoReq ELSE req
<1>0. fire # NoReq => PlicAccessOK(fire)
  OBVIOUS
<1>1. /\ PlicBus(req # NoReq, fire) /\ Pending(fire, source) /\ InService(fire)
      /\ PlicRegisters(fire) /\ PlicHistory(fire)
  BY DEF PlicClock
<1> HIDE DEF fire
<1>2. Claimed(fire) \subseteq pending /\ Claimed(fire) \subseteq Sources
  BY <1>0, ClaimedPending
<1>3. Claimed(fire) # {} => fire # NoReq /\ fire.ctx \in Contexts
  BY <1>0 DEF Claimed, PlicAccessOK
<1>4. pending' = (pending \cup (source \ in_service)) \ Claimed(fire)
  BY <1>1 DEF Pending
<1>5. in_service' = (in_service \ Completed(fire)) \cup Claimed(fire)
  BY <1>1 DEF InService
<1>6. /\ served' \in [Contexts -> SUBSET Sources]
      /\ \A c \in Contexts :
           served'[c] = (served[c] \ Completed(fire))
                          \cup (IF fire # NoReq /\ fire.ctx = c THEN Claimed(fire) ELSE {})
  BY <1>1, <1>2 DEF PlicHistory, PlicTypeOK
<1>7. PlicTypeOK'
  <2>1. irq_priority' \in [Sources -> 0 .. 7]
    BY <1>0, <1>1 DEF PlicTypeOK, PlicRegisters, PlicWrites, PlicAccessOK
  <2>2. enable' \in [Contexts -> SUBSET Sources]
    BY <1>0, <1>1 DEF PlicTypeOK, PlicRegisters, PlicWrites, PlicAccessOK
  <2>3. threshold' \in [Contexts -> 0 .. 7]
    BY <1>0, <1>1 DEF PlicTypeOK, PlicRegisters, PlicWrites, PlicAccessOK
  <2>4. p_wait' \in BOOLEAN /\ p_rvalid' \in BOOLEAN
    BY <1>1 DEF PlicBus
  <2> QED BY <1>2, <1>4, <1>5, <1>6, <2>1, <2>2, <2>3, <2>4 DEF PlicTypeOK
<1>8. ServedOnce'
  <2>1. served["M"] \cap served["S"] = {} /\ in_service = served["M"] \cup served["S"]
        /\ pending \cap in_service = {}
    BY DEF ServedOnce
  <2>2. "M" \in Contexts /\ "S" \in Contexts /\ \A c \in Contexts : c = "M" \/ c = "S"
    BY DEF Contexts
  <2>3. CASE Claimed(fire) = {}
    BY <1>4, <1>5, <1>6, <2>1, <2>2, <2>3 DEF ServedOnce
  <2>4. CASE Claimed(fire) # {}
    <3>1. fire # NoReq /\ (fire.ctx = "M" \/ fire.ctx = "S")
      BY <1>3, <2>2, <2>4
    <3>2. Claimed(fire) \cap in_service = {}
      BY <1>2, <2>1
    <3>3. pending' \cap in_service' = {}
      BY <1>2, <1>4, <1>5, <2>1
    <3>4. CASE fire.ctx = "M"
      <4>1. /\ served'["M"] = (served["M"] \ Completed(fire)) \cup Claimed(fire)
            /\ served'["S"] = served["S"] \ Completed(fire)
        BY <1>6, <2>2, <3>1, <3>4
      <4> QED BY <1>5, <2>1, <3>2, <3>3, <4>1 DEF ServedOnce
    <3>5. CASE fire.ctx = "S"
      <4>1. /\ served'["S"] = (served["S"] \ Completed(fire)) \cup Claimed(fire)
            /\ served'["M"] = served["M"] \ Completed(fire)
        BY <1>6, <2>2, <3>1, <3>5
      <4> QED BY <1>5, <2>1, <3>2, <3>3, <4>1 DEF ServedOnce
    <3> QED BY <3>1, <3>4, <3>5
  <2> QED BY <2>3, <2>4
<1>9. ASSUME NEW i \in pending \ pending'
      PROVE  \E c \in Contexts : i \in served'[c] \ served[c]
  <2>1. i \in Claimed(fire)
    BY <1>4, <1>9
  <2>2. fire # NoReq /\ fire.ctx \in Contexts
    BY <1>3, <2>1
  <2>3. i \notin served[fire.ctx]
    BY <1>9, <2>2 DEF ServedOnce, Contexts
  <2>4. i \in served'[fire.ctx]
    BY <1>6, <2>1, <2>2
  <2> QED BY <2>2, <2>3, <2>4
<1> QED BY <1>7, <1>8, <1>9

LEMMA PlicInitOK == PlicInit => PlicTypeOK /\ ServedOnce
<1> SUFFICES ASSUME PlicInit PROVE PlicTypeOK /\ ServedOnce
  OBVIOUS
<1>1. served["M"] = {} /\ served["S"] = {} /\ in_service = {} /\ pending = {}
  BY DEF PlicInit, Contexts
<1>2. /\ enable \in [Contexts -> SUBSET Sources] /\ served \in [Contexts -> SUBSET Sources]
      /\ irq_priority \in [Sources -> 0 .. 7] /\ threshold \in [Contexts -> 0 .. 7]
  BY DEF PlicInit
<1>3. p_wait \in BOOLEAN /\ p_rvalid \in BOOLEAN
  BY DEF PlicInit
<1>4. PlicTypeOK
  BY <1>1, <1>2, <1>3 DEF PlicTypeOK
<1> QED BY <1>1, <1>4 DEF ServedOnce

LEMMA PlicInductive == PlicSpec => [](PlicTypeOK /\ ServedOnce)
<1>1. PlicTypeOK /\ ServedOnce /\ [PlicNext]_plicVars => (PlicTypeOK /\ ServedOnce)'
  <2> SUFFICES ASSUME PlicTypeOK, ServedOnce, [PlicNext]_plicVars
               PROVE  (PlicTypeOK /\ ServedOnce)'
    OBVIOUS
  <2>1. CASE PlicNext
    BY <2>1, PlicStep, PlicAssumption DEF PlicNext
  <2>2. CASE UNCHANGED plicVars
    BY <2>2 DEF plicVars, PlicTypeOK, ServedOnce
  <2> QED BY <2>1, <2>2
<1> QED BY <1>1, PlicInitOK, PTL DEF PlicSpec

\* However many sources there are, and whatever is latched, claimed and
\* completed in the same cycle, no source is served by two contexts or claimed
\* again before it is completed (plic.sv, claim and complete).
THEOREM SourcesServedOnce == PlicSpec => []ServedOnce
BY PlicInductive, PTL

\* A latched interrupt is forgotten by nothing but a claim of it.
THEOREM PendingKept == PlicSpec => PendingUntilClaimed
<1> DEFINE Kept == \A i \in pending \ pending' : \E c \in Contexts : i \in served'[c] \ served[c]
<1>1. PlicTypeOK /\ ServedOnce /\ [PlicNext]_plicVars => [Kept]_plicVars
  BY PlicStep, PlicAssumption DEF PlicNext
<1> QED BY <1>1, PlicInductive, PTL DEF PlicSpec, PendingUntilClaimed

-----------------------------------------------------------------------------
(***************************************************************************)
(* The UART.                                                               *)
(***************************************************************************)

\* The position k behind h: the ring wraps around once at most.
Wrapped(h, k) == IF h + k < Depth THEN h + k ELSE h + k - Depth

LEMMA RxWrap ==
  ASSUME NEW h \in 0 .. Depth - 1, NEW k \in 0 .. Depth
  PROVE  /\ (h + k) % Depth = Wrapped(h, k)
         /\ Wrapped(h, k) \in 0 .. Depth - 1
BY UartAssumption DEF Wrapped

LEMMA RxIndex ==
  ASSUME NEW h \in 0 .. Depth - 1, NEW i \in 1 .. Depth
  PROVE  (h + i - 1) % Depth = Wrapped(h, i - 1)
<1>1. i - 1 \in 0 .. Depth /\ h + (i - 1) = h + i - 1
  BY UartAssumption
<1> QED BY <1>1, RxWrap

LEMMA RxAdvance ==
  ASSUME NEW h \in 0 .. Depth - 1
  PROVE  RxNext(h) = Wrapped(h, 1) /\ RxNext(h) \in 0 .. Depth - 1
<1>1. 1 \in 0 .. Depth
  BY UartAssumption
<1> QED BY <1>1, RxWrap DEF RxNext

\* Of n + 1 entries from h on only the last is at the tail of the first n.
LEMMA WrapArithmetic ==
  ASSUME NEW h \in 0 .. Depth - 1, NEW n \in 0 .. Depth - 1
  PROVE  /\ \A i \in 1 .. n + 1 : i = n + 1 <=> Wrapped(h, i - 1) = Wrapped(h, n)
         /\ Wrapped(Wrapped(h, n), 1) = Wrapped(h, n + 1)
         /\ Wrapped(Wrapped(h, 1), n) = Wrapped(h, n + 1)
BY UartAssumption DEF Wrapped

\* Fifo f, from head h on, holds the queue q.
IsRing(f, h, q) ==
  /\ q \in Seq(Chars) /\ Len(q) \in 0 .. Depth
  /\ \A i \in 1 .. Len(q) : f[Wrapped(h, i - 1)] = q[i]

\* Taking the oldest entry moves the head only.
LEMMA RingPop ==
  ASSUME NEW f, NEW h \in 0 .. Depth - 1, NEW q, IsRing(f, h, q), Len(q) # 0
  PROVE  /\ IsRing(f, RxNext(h), Tail(q)) /\ Len(Tail(q)) = Len(q) - 1
         /\ Wrapped(RxNext(h), Len(Tail(q))) = Wrapped(h, Len(q))
<1>0. Depth \in Nat \ {0} /\ q \in Seq(Chars) /\ Len(q) \in 1 .. Depth /\ q # <<>>
  BY UartAssumption DEF IsRing
<1>1. /\ Tail(q) \in Seq(Chars) /\ Len(Tail(q)) = Len(q) - 1
      /\ \A i \in 1 .. Len(q) - 1 : Tail(q)[i] = q[i + 1]
  BY <1>0
<1>2. \A n \in 0 .. Depth - 1 : Wrapped(RxNext(h), n) = Wrapped(h, n + 1)
  BY RxAdvance, WrapArithmetic
<1>3. ASSUME NEW i \in 1 .. Len(q) - 1
      PROVE  f[Wrapped(RxNext(h), i - 1)] = q[i + 1]
  <2>1. i - 1 \in 0 .. Depth - 1 /\ i + 1 \in 1 .. Len(q) /\ (i - 1) + 1 = (i + 1) - 1
    BY <1>0
  <2>2. Wrapped(RxNext(h), i - 1) = Wrapped(h, (i + 1) - 1)
    BY <1>2, <2>1
  <2>3. f[Wrapped(h, (i + 1) - 1)] = q[i + 1]
    BY <2>1 DEF IsRing
  <2> QED BY <2>2, <2>3
<1>4. Wrapped(RxNext(h), Len(q) - 1) = Wrapped(h, Len(q))
  <2>1. Len(q) - 1 \in 0 .. Depth - 1 /\ (Len(q) - 1) + 1 = Len(q)
    BY <1>0
  <2> QED BY <1>2, <2>1
<1>5. \A i \in 1 .. Len(Tail(q)) : f[Wrapped(RxNext(h), i - 1)] = Tail(q)[i]
  BY <1>1, <1>3
<1>6. IsRing(f, RxNext(h), Tail(q))
  BY <1>0, <1>1, <1>5 DEF IsRing
<1> QED BY <1>1, <1>4, <1>6

\* A new entry behind the youngest overwrites none.
LEMMA RingPush ==
  ASSUME NEW f \in [0 .. Depth - 1 -> Chars \cup {NoChar}], NEW h \in 0 .. Depth - 1, NEW q,
         IsRing(f, h, q), Len(q) < Depth, NEW c \in Chars,
         NEW t, t = Wrapped(h, Len(q)), NEW g, g = [f EXCEPT ![t] = c],
         NEW r, r = Append(q, c)
  PROVE  IsRing(g, h, r) /\ Len(r) = Len(q) + 1
<1>0. Depth \in Nat \ {0} /\ q \in Seq(Chars) /\ Len(q) \in 0 .. Depth - 1 /\ Len(q) \in 0 .. Depth
  BY UartAssumption DEF IsRing
<1>1. t \in 0 .. Depth - 1
  BY <1>0, RxWrap
<1>3. /\ r \in Seq(Chars) /\ Len(r) = Len(q) + 1
      /\ \A i \in 1 .. Len(q) : r[i] = q[i]
      /\ r[Len(q) + 1] = c
  BY <1>0
<1>4. ASSUME NEW i \in 1 .. Len(q) + 1
      PROVE  g[Wrapped(h, i - 1)] = r[i]
  <2>1. i - 1 \in 0 .. Depth
    BY <1>0
  <2>2. Wrapped(h, i - 1) \in 0 .. Depth - 1
    BY <2>1, RxWrap
  <2>3. i = Len(q) + 1 <=> Wrapped(h, i - 1) = t
    BY <1>0, WrapArithmetic
  <2>4. i # Len(q) + 1 => i \in 1 .. Len(q) /\ f[Wrapped(h, i - 1)] = q[i]
    BY <1>0 DEF IsRing
  <2> QED BY <1>3, <2>2, <2>3, <2>4
<1>5. IsRing(g, h, r)
  BY <1>0, <1>3, <1>4 DEF IsRing
<1> QED BY <1>3, <1>5

RxType ==
  /\ rx_fifo \in [0 .. Depth - 1 -> Chars \cup {NoChar}]
  /\ rx_head \in 0 .. Depth - 1 /\ rx_tail \in 0 .. Depth - 1 /\ rx_count \in 0 .. Depth
  /\ rx_owed \in Seq(Chars)

\* RxFifoIsQueue in terms of IsRing.
LEMMA QueueIsRing ==
  ASSUME NEW f, NEW h \in 0 .. Depth - 1, NEW q \in Seq(Chars), Len(q) \in 0 .. Depth
  PROVE  /\ (h + Len(q)) % Depth = Wrapped(h, Len(q))
         /\ IsRing(f, h, q) <=> \A i \in 1 .. Len(q) : f[(h + i - 1) % Depth] = q[i]
<1>1. \A i \in 1 .. Len(q) : (h + i - 1) % Depth = Wrapped(h, i - 1)
  <2> TAKE i \in 1 .. Len(q)
  <2>1. i \in 1 .. Depth
    BY UartAssumption
  <2> QED BY <2>1, RxIndex
<1> QED BY <1>1, RxWrap DEF IsRing

\* One cycle keeps the ring a queue: a push and a pop may coincide, on an empty
\* and on a full ring, and a reset wins over both.
LEMMA RxStep ==
  ASSUME RxType, RxFifoIsQueue, NEW fire, NEW host \in Chars \cup {None},
         host # None => TakesInput(fire), RxFifo(fire, host), UartHistory(fire, host)
  PROVE  RxType' /\ RxFifoIsQueue'
<1>0. Depth \in Nat \ {0} /\ None \notin Chars
  BY UartAssumption
<1>1. CASE rx_clear(fire)
  <2>1. rx_head' = 0 /\ rx_tail' = 0 /\ rx_count' = 0 /\ rx_fifo' = rx_fifo /\ rx_owed' = <<>>
    BY <1>1 DEF RxFifo, UartHistory
  <2>2. rx_tail' = (rx_head' + rx_count') % Depth
    BY <1>0, <2>1
  <2> QED BY <1>0, <2>1, <2>2 DEF RxType, RxFifoIsQueue
<1>2. CASE ~rx_clear(fire)
  <2> DEFINE rest == IF rx_pop(fire) THEN Tail(rx_owed) ELSE rx_owed
             next == IF rx_pop(fire) THEN RxNext(rx_head) ELSE rx_head
             room == rx_count - (IF rx_pop(fire) THEN 1 ELSE 0)
  <2>1. /\ rx_fifo' = IF host # None THEN [rx_fifo EXCEPT ![rx_tail] = host] ELSE rx_fifo
        /\ rx_head' = next
        /\ rx_tail' = IF host # None THEN RxNext(rx_tail) ELSE rx_tail
        /\ rx_owed' = IF host # None THEN Append(rest, host) ELSE rest
    BY <1>2 DEF RxFifo, UartHistory
  <2>2. rx_count' = IF host # None THEN room + 1 ELSE room
    BY <1>2 DEF RxFifo, RxType
  <2>3. /\ rx_head \in 0 .. Depth - 1 /\ rx_tail \in 0 .. Depth - 1 /\ rx_count \in 0 .. Depth
        /\ rx_fifo \in [0 .. Depth - 1 -> Chars \cup {NoChar}] /\ rx_owed \in Seq(Chars)
        /\ rx_count = Len(rx_owed)
    BY DEF RxType, RxFifoIsQueue
  <2>4. IsRing(rx_fifo, rx_head, rx_owed) /\ rx_tail = Wrapped(rx_head, Len(rx_owed))
    BY <2>3, QueueIsRing DEF RxFifoIsQueue
  <2>5. /\ next \in 0 .. Depth - 1 /\ IsRing(rx_fifo, next, rest)
        /\ Len(rest) = room /\ rx_tail = Wrapped(next, Len(rest))
    <3>1. CASE rx_pop(fire)
      <4>1. Len(rx_owed) # 0
        BY <2>3, <3>1 DEF rx_pop, rx_valid
      <4> QED BY <2>3, <2>4, <3>1, <4>1, RingPop, RxAdvance
    <3>2. CASE ~rx_pop(fire)
      BY <2>3, <2>4, <3>2
    <3> QED BY <3>1, <3>2
  <2>6. host # None => room < Depth
    BY DEF TakesInput
  <2> HIDE DEF rest, next, room
  <2>7. /\ rx_head' \in 0 .. Depth - 1 /\ rx_tail' = Wrapped(rx_head', Len(rx_owed'))
        /\ IsRing(rx_fifo', rx_head', rx_owed') /\ rx_count' = Len(rx_owed')
        /\ rx_fifo' \in [0 .. Depth - 1 -> Chars \cup {NoChar}]
    <3>1. CASE host # None
      <4>1. host \in Chars /\ Len(rest) < Depth
        BY <2>5, <2>6, <3>1
      <4>2. /\ rx_fifo' = [rx_fifo EXCEPT ![rx_tail] = host] /\ rx_head' = next
            /\ rx_tail' = RxNext(rx_tail) /\ rx_owed' = Append(rest, host)
            /\ rx_count' = Len(rest) + 1
        BY <2>1, <2>2, <2>5, <3>1
      <4>3. /\ IsRing(rx_fifo', next, rx_owed') /\ Len(rx_owed') = Len(rest) + 1
            /\ RxNext(rx_tail) = Wrapped(next, Len(rx_owed'))
        <5>1. IsRing(rx_fifo', next, rx_owed')
          BY <2>3, <2>5, <4>1, <4>2, RingPush
        <5>2. Len(rx_owed') = Len(rest) + 1
          BY <2>3, <2>5, <4>1, <4>2, RingPush
        <5>3. RxNext(rx_tail) = Wrapped(next, Len(rx_owed'))
          <6>1. Len(rest) \in 0 .. Depth - 1
            BY <1>0, <2>5, <4>1 DEF IsRing
          <6> QED BY <2>3, <2>5, <5>2, <6>1, RxAdvance, WrapArithmetic
        <5> QED BY <5>1, <5>2, <5>3
      <4>4. rx_fifo' \in [0 .. Depth - 1 -> Chars \cup {NoChar}]
        BY <2>3, <4>1, <4>2
      <4> QED BY <2>5, <4>2, <4>3, <4>4
    <3>2. CASE host = None
      BY <2>1, <2>2, <2>3, <2>5, <3>2
    <3> QED BY <3>1, <3>2
  <2>8. rx_owed' \in Seq(Chars) /\ Len(rx_owed') \in 0 .. Depth
    BY <2>7 DEF IsRing
  <2>9. rx_tail' \in 0 .. Depth - 1
    BY <2>7, <2>8, RxWrap
  <2>10. RxFifoIsQueue'
    BY <2>7, <2>8, QueueIsRing DEF RxFifoIsQueue
  <2> QED BY <2>7, <2>8, <2>9, <2>10 DEF RxType
<1> QED BY <1>1, <1>2

\* The THRE event of the cycle after a THR write is what software waits for.
ThreInv ==
  /\ ThreReportedOnce
  /\ tx_empty_event /\ "TX" \in ier => thre_owed

RegType ==
  /\ dlab \in BOOLEAN /\ ier \subseteq {"RX", "TX"}
  /\ tx_irq_pending \in BOOLEAN /\ tx_empty_event \in BOOLEAN
  /\ thre_owed \in BOOLEAN /\ thre_kept \in BOOLEAN
  /\ u_wait \in BOOLEAN /\ u_rvalid \in BOOLEAN

UartInv == RxType /\ RegType /\ RxFifoIsQueue /\ ThreInv

LEMMA RegStep ==
  ASSUME RegType, NEW req, NEW fire, NEW host,
         fire # None => UartAccessOK(fire),
         UartBus(req # None, fire), TxIrq(fire), UartRegisters(fire), UartHistory(fire, host)
  PROVE  RegType'
<1>1. dlab' \in BOOLEAN
  BY DEF RegType, UartRegisters, WritesReg, UartAccessOK
<1>2. ier' \subseteq {"RX", "TX"}
  BY DEF RegType, UartRegisters, IerWrite, WritesReg, UartAccessOK
<1>3. u_wait' \in BOOLEAN /\ u_rvalid' \in BOOLEAN
  BY DEF RegType, UartBus
<1>4. tx_empty_event' \in BOOLEAN
  <2>1. ThrWrite(fire) \in BOOLEAN
    BY DEF ThrWrite, WritesReg, RegType
  <2> QED BY <2>1 DEF TxIrq
<1>5. tx_irq_pending' \in BOOLEAN
  BY DEF TxIrq, RegType
<1>6. thre_owed' \in BOOLEAN
  <2>1. /\ ("TX" \in ier) \in BOOLEAN
        /\ ("TX" \in fire.value /\ (thre_owed \/ "TX" \notin ier)) \in BOOLEAN
        /\ thre_owed \in BOOLEAN
    BY DEF RegType
  <2> QED BY <2>1 DEF UartHistory
<1>7. thre_kept' \in BOOLEAN
  <2>1. /\ (thre_kept /\ "TX" \in fire.value /\ "TX" \in ier) \in BOOLEAN
        /\ thre_kept \in BOOLEAN /\ dlab \in BOOLEAN
    BY DEF RegType
  <2> QED BY <2>1 DEF UartHistory
<1> QED BY <1>1, <1>2, <1>3, <1>4, <1>5, <1>6, <1>7 DEF RegType

\* One cycle forgets nothing that software is owed; a report that it reads
\* clears the interrupt or, with DLAB set, leaves it pending and thre_kept set.
LEMMA ThreStep ==
  ASSUME RegType, ThreInv, NEW fire, NEW host,
         TxIrq(fire), UartRegisters(fire), UartHistory(fire, host)
  PROVE  ThreInv'
<1> USE DEF ThreInv, ThreReportedOnce, RegType
<1>1. CASE ThrWrite(fire)
  <2>1. ~IerWrite(fire)
    BY <1>1 DEF ThrWrite, IerWrite, WritesReg
  <2>2. ier' = ier /\ ~tx_irq_pending' /\ (thre_owed' <=> "TX" \in ier) /\ tx_empty_event'
    BY <1>1, <2>1 DEF TxIrq, UartRegisters, UartHistory
  <2> QED BY <2>2
<1>2. CASE IerWrite(fire)
  <2>1. ~ThrWrite(fire) /\ ~iir_reports_thre(fire)
    BY <1>2 DEF ThrWrite, IerWrite, WritesReg, iir_reports_thre, Reads
  <2>2. /\ ier' = fire.value /\ ~tx_empty_event'
        /\ thre_owed' = ("TX" \in fire.value /\ (thre_owed \/ "TX" \notin ier))
        /\ thre_kept' = (thre_kept /\ "TX" \in fire.value /\ "TX" \in ier)
        /\ tx_irq_pending' = IF "TX" \notin fire.value THEN FALSE
                             ELSE IF "TX" \notin ier THEN TRUE
                             ELSE tx_irq_pending \/ (tx_empty_event /\ "TX" \in ier)
    BY <1>2, <2>1 DEF TxIrq, UartRegisters, UartHistory
  <2> QED BY <2>2
<1>3. CASE ~ThrWrite(fire) /\ ~IerWrite(fire)
  <2>1. IirCause = 2 <=> ~(rx_valid /\ "RX" \in ier) /\ tx_irq_pending /\ "TX" \in ier
    BY DEF IirCause
  <2>2. /\ iir_reports_thre(fire) <=> TellsThre(fire) /\ ~dlab
        /\ TellsThre(fire) => tx_irq_pending
    BY <2>1 DEF iir_reports_thre, TellsThre
  <2>3. /\ ier' = ier /\ ~tx_empty_event'
        /\ thre_owed' = IF TellsThre(fire) THEN FALSE ELSE thre_owed
        /\ thre_kept' = IF TellsThre(fire) THEN dlab ELSE thre_kept
        /\ tx_irq_pending' = IF iir_reports_thre(fire) THEN FALSE
                             ELSE tx_irq_pending \/ (tx_empty_event /\ "TX" \in ier)
    BY <1>3 DEF TxIrq, UartRegisters, UartHistory
  <2> QED BY <2>2, <2>3
<1> QED BY <1>1, <1>2, <1>3

LEMMA UartInitOK == UartInit => UartInv
<1> SUFFICES ASSUME UartInit PROVE UartInv
  OBVIOUS
<1>0. Depth \in Nat \ {0}
  BY UartAssumption
<1>1. RxType
  BY <1>0 DEF UartInit, RxType
<1>2. 0 % Depth = 0
  BY <1>0
<1>3. RxFifoIsQueue
  BY <1>2 DEF UartInit, RxFifoIsQueue
<1> QED BY <1>1, <1>3 DEF UartInit, UartInv, RegType, ThreInv, ThreReportedOnce

\* One cycle of the UART, whatever access and input it meets.
LEMMA UartStep ==
  ASSUME UartInv, NEW req, req # None => UartAccessOK(req),
         NEW host \in Chars \cup {None}, UartClock(req, host)
  PROVE  UartInv'
<1> DEFINE fire == IF u_wait THEN None ELSE req
<1>1. /\ host # None => TakesInput(fire)
      /\ UartBus(req # None, fire) /\ RxFifo(fire, host) /\ TxIrq(fire)
      /\ UartRegisters(fire) /\ UartHistory(fire, host)
  BY DEF UartClock
<1>2. fire # None => UartAccessOK(fire)
  OBVIOUS
<1> HIDE DEF fire
<1>3. RxType' /\ RxFifoIsQueue'
  BY <1>1, RxStep DEF UartInv
<1>4. RegType'
  BY <1>1, <1>2, RegStep DEF UartInv
<1>5. ThreInv'
  BY <1>1, ThreStep DEF UartInv
<1> QED BY <1>3, <1>4, <1>5 DEF UartInv

LEMMA UartInductive == UartSpec => []UartInv
<1>1. UartInv /\ [UartNext]_uartVars => UartInv'
  <2> SUFFICES ASSUME UartInv, [UartNext]_uartVars PROVE UartInv'
    OBVIOUS
  <2>1. ASSUME NEW req \in UartReqs \cup {None}, NEW host \in Chars \cup {None},
               UartClock(req, host)
        PROVE  UartInv'
    <3>1. req # None => UartAccessOK(req)
      BY UartAssumption
    <3> QED BY <2>1, <3>1, UartStep
  <2>2. ASSUME UNCHANGED uartVars PROVE UartInv'
    BY <2>2 DEF uartVars, UartInv, RxType, RegType, RxFifoIsQueue, ThreInv, ThreReportedOnce
  <2> QED BY <2>1, <2>2 DEF UartNext
<1> QED BY <1>1, UartInitOK, PTL DEF UartSpec

\* The ring holds exactly the characters received and not yet read, oldest
\* first, for every depth of the FIFO and every sequence of accesses and
\* inputs.
THEOREM RingIsQueue == UartSpec => []RxFifoIsQueue
<1>1. UartInv => RxFifoIsQueue
  BY DEF UartInv
<1> QED BY <1>1, UartInductive, PTL

\* Whatever accesses software makes: a transmit-empty interrupt is never lost
\* before a read of IIR has reported it, and it is reported again only if that
\* read was made with DLAB set.
THEOREM ThreOnce == UartSpec => []ThreReportedOnce
<1>1. UartInv => ThreReportedOnce
  BY DEF UartInv, ThreInv
<1> QED BY <1>1, UartInductive, PTL

-----------------------------------------------------------------------------
(***************************************************************************)
(* The interrupt path: what ties the program, the controller and the two   *)
(* devices together.                                                       *)
(***************************************************************************)
Driving == req_saved # None /\ ~req_issued

\* A posted store that the device has not seen yet, and a load of the handler
\* that is answered in this cycle.
Posted(reg) == Driving /\ req_saved.wen /\ req_saved.reg = reg
LoadDone(step) == handler = step /\ awaiting /\ req_issued

\* The controller waits for the answer in just the cycle in which it comes.
BusInv ==
  /\ req_issued \in BOOLEAN
  /\ req_issued => req_saved # None
  /\ u_wait = (req_issued /\ req_saved.dev = "UART")
  /\ u_rvalid = (req_issued /\ req_saved.dev = "UART")
  /\ p_wait = (req_issued /\ req_saved.dev = "PLIC")
  /\ p_rvalid = (req_issued /\ req_saved.dev = "PLIC")

\* Who the controller works for.
ProgramInv ==
  /\ main \in 1 .. 6 /\ sent \in Nat /\ tx_seen \in Nat /\ awaiting \in BOOLEAN
  /\ handler \in {"none", "claim", "iir", "rbr", "complete", "fail"}
  /\ handler = "fail" => ~MasksIir
  /\ handler # "none" => main > 3
  /\ awaiting => handler \in {"claim", "iir", "rbr"} /\ req_saved = HandlerReq
  /\ req_saved # None /\ ~awaiting =>
       \/ /\ handler \in {"none", "claim"}
          /\ \/ main > 1 /\ req_saved = SetUp[main - 1]
             \/ main = 6 /\ req_saved = UartAccess("DATA", TRUE, TxChar)
       \/ handler = "none" /\ main > 3 /\ req_saved = PlicAccess("CLAIM", TRUE, UartIrq)

\* The PLIC serves the UART from the claim to the completion, which a handler
\* that has failed never makes.
Serving == LoadDone("claim") \/ handler \in {"iir", "rbr", "complete", "fail"} \/ Posted("CLAIM")
ServiceInv ==
  /\ pending \subseteq {UartIrq}
  /\ in_service = IF Serving THEN {UartIrq} ELSE {}
  /\ handler = "claim" /\ ~LoadDone("claim") =>
       /\ UartIrq \in pending /\ UartIrq \in enable["S"]
       /\ irq_priority[UartIrq] > threshold["S"]
  /\ LoadDone("claim") => p_rdata = UartIrq

\* The line stays up from the latch to the access that finds its cause.
LineInv ==
  /\ ~dlab
  /\ ier = IF main = 6 /\ ~Posted("IER") THEN {"RX", "TX"} ELSE {}
  /\ ier = {} => handler = "none"
  /\ pending # {} => uart_irq
  /\ handler = "claim" => uart_irq
  /\ handler = "iir" /\ ~LoadDone("iir") => uart_irq
  /\ LoadDone("iir") => u_rdata = 194 \/ (u_rdata = 196 /\ rx_valid)
  /\ handler = "rbr" /\ ~LoadDone("rbr") => rx_valid

\* One transmission at a time: it is on its way to the UART, in the UART, in
\* an answer to the handler or counted, and only then does the next one start.
TxInv ==
  /\ tx_seen <= sent + 1
  /\ tx_seen > sent => ~Posted("DATA") /\ ~Posted("IER") /\ ~thre_owed
  /\ tx_seen > sent => main = 6 /\ ~(LoadDone("iir") /\ u_rdata = 194)
  /\ Posted("DATA") => ~thre_owed
  /\ LoadDone("iir") /\ u_rdata = 194 => ~thre_owed

\* The program leaves DLAB alone: each report that it reads is the last.
NeverKept == ~thre_kept

OrderInv ==
  /\ given \in Seq(Chars) /\ got \in Seq(Chars)
  /\ LoadDone("rbr") => u_rdata \in Chars
  /\ ReceivedInOrder

PathInv ==
  /\ UartInv /\ PlicTypeOK /\ ServedOnce
  /\ BusInv /\ ProgramInv /\ ServiceInv /\ LineInv /\ TxInv /\ OrderInv /\ NeverKept

\* Sequences of characters: one arrives, one is taken, one is handed over.
LEMMA SeqArrives ==
  ASSUME NEW a \in Seq(Chars), NEW b \in Seq(Chars), NEW c \in Seq(Chars), NEW x \in Chars
  PROVE  Append(a \o b \o c, x) = a \o b \o Append(c, x)
<1> DEFINE ab == a \o b
<1>1. ab \in Seq(Chars) /\ <<x>> \in Seq(Chars)
  OBVIOUS
<1> HIDE DEF ab
<1>2. ab \o c \in Seq(Chars)
  BY <1>1, ConcatProperties
<1>3. Append(ab \o c, x) = (ab \o c) \o <<x>>
  BY <1>2, AppendIsConcat
<1>4. Append(c, x) = c \o <<x>>
  BY AppendIsConcat
<1>5. (ab \o c) \o <<x>> = ab \o (c \o <<x>>)
  <2> DEFINE e == <<x>>
  <2>1. e \in Seq(Chars)
    BY <1>1
  <2> HIDE DEF e
  <2>2. (ab \o c) \o e = ab \o (c \o e)
    BY <1>1, <2>1, ConcatAssociative
  <2> QED BY <2>2 DEF e
<1>6. Append(ab \o c, x) = ab \o Append(c, x)
  BY <1>3, <1>4, <1>5
<1> QED BY <1>6 DEF ab

LEMMA SeqTaken ==
  ASSUME NEW a \in Seq(Chars), NEW c \in Seq(Chars), c # <<>>
  PROVE  a \o <<>> \o c = a \o <<Head(c)>> \o Tail(c)
<1>1. Head(c) \in Chars /\ Tail(c) \in Seq(Chars) /\ <<Head(c)>> \in Seq(Chars)
  BY HeadTailProperties
<1>2. <<Head(c)>> \o Tail(c) = c
  <2>1. <<Head(c)>> \o Tail(c) \in Seq(Chars) /\ Len(<<Head(c)>> \o Tail(c)) = Len(c)
    BY <1>1, ConcatProperties, HeadTailProperties
  <2>2. \A i \in 1 .. Len(c) : (<<Head(c)>> \o Tail(c))[i] = c[i]
    BY <1>1
  <2> QED BY <2>1, <2>2, SeqEqual
<1>3. a \o <<>> = a
  BY ConcatEmptySeq
<1>4. (a \o <<Head(c)>>) \o Tail(c) = a \o (<<Head(c)>> \o Tail(c))
  <2> DEFINE h == <<Head(c)>>
             t == Tail(c)
  <2>1. h \in Seq(Chars) /\ t \in Seq(Chars)
    BY <1>1
  <2> HIDE DEF h, t
  <2>2. (a \o h) \o t = a \o (h \o t)
    BY <2>1, ConcatAssociative
  <2> QED BY <2>2 DEF h, t
<1> QED BY <1>2, <1>3, <1>4

LEMMA SeqHanded ==
  ASSUME NEW a \in Seq(Chars), NEW x \in Chars, NEW c \in Seq(Chars)
  PROVE  a \o <<x>> \o c = Append(a, x) \o <<>> \o c
<1>1. Append(a, x) \in Seq(Chars) /\ Append(a, x) = a \o <<x>>
  BY AppendIsConcat, AppendProperties
<1>2. Append(a, x) \o <<>> = Append(a, x)
  BY <1>1, ConcatEmptySeq
<1> QED BY <1>1, <1>2

-----------------------------------------------------------------------------
\* What the devices see in a cycle.
UartFire == IF Drives("UART") THEN req_saved ELSE None
PlicFire == IF Drives("PLIC") THEN req_saved ELSE NoReq
Level == IF uart_irq THEN {UartIrq} ELSE {}

\* A device takes what the controller drives in the first cycle.
LEMMA Firing ==
  ASSUME BusInv, NEW host, Devices(host)
  PROVE  /\ UartClock(UartFire, host) /\ PlicClock(PlicFire, Level)
         /\ UartBus(UartFire # None, UartFire) /\ RxFifo(UartFire, host) /\ TxIrq(UartFire)
         /\ UartRegisters(UartFire) /\ UartHistory(UartFire, host)
         /\ PlicBus(PlicFire # NoReq, PlicFire) /\ Pending(PlicFire, Level)
         /\ InService(PlicFire) /\ PlicRegisters(PlicFire)
<1>1. (u_wait => ~Drives("UART")) /\ (p_wait => ~Drives("PLIC"))
  BY DEF BusInv, Drives
<1>2. UartClock(UartFire, host) /\ PlicClock(PlicFire, Level)
  BY DEF Devices, UartFire, PlicFire, Level
<1>3. (IF u_wait THEN None ELSE UartFire) = UartFire
  BY <1>1 DEF UartFire
<1>4. (IF p_wait THEN NoReq ELSE PlicFire) = PlicFire
  BY <1>1 DEF PlicFire
<1>5. /\ UartBus(UartFire # None, UartFire) /\ RxFifo(UartFire, host) /\ TxIrq(UartFire)
      /\ UartRegisters(UartFire) /\ UartHistory(UartFire, host)
  BY <1>2, <1>3 DEF UartClock
<1>6. /\ PlicBus(PlicFire # NoReq, PlicFire) /\ Pending(PlicFire, Level)
      /\ InService(PlicFire) /\ PlicRegisters(PlicFire)
  BY <1>2, <1>4 DEF PlicClock
<1> QED BY <1>2, <1>5, <1>6

Arrives(host) == rx_owed' = IF host = None THEN rx_owed ELSE Append(rx_owed, host)

\* A cycle in which nothing is read or cleared keeps the characters.
LEMMA RxKept ==
  ASSUME UartInv, NEW fire, NEW host, RxFifo(fire, host), UartHistory(fire, host),
         ~rx_pop(fire), ~rx_clear(fire)
  PROVE  (rx_valid => rx_valid') /\ Arrives(host)
<1>1. rx_count \in Nat
  BY UartAssumption DEF UartInv, RxType
<1>2. rx_count' = rx_count + (IF host # None THEN 1 ELSE 0)
  BY <1>1 DEF RxFifo
<1>3. rx_valid => rx_valid'
  BY <1>1, <1>2 DEF rx_valid
<1> QED BY <1>3 DEF UartHistory, Arrives

\* Nor does it lower the line, if no cause is reported or switched off.
LEMMA LineKept ==
  ASSUME UartInv, NEW fire, NEW host, RxFifo(fire, host), UartHistory(fire, host),
         TxIrq(fire), UartRegisters(fire),
         ~rx_pop(fire), ~rx_clear(fire), ~iir_reports_thre(fire), ~IerWrite(fire), ~dlab,
         ~WritesReg(fire, "LCR"), ThrWrite(fire) => ~tx_irq_pending
  PROVE  /\ dlab' = dlab /\ ier' = ier
         /\ (rx_valid => rx_valid') /\ (uart_irq => uart_irq') /\ Arrives(host)
         /\ ~ThrWrite(fire) => thre_owed' = thre_owed
<1>1. dlab' = dlab /\ ier' = ier
  BY DEF UartRegisters
<1>2. (rx_valid => rx_valid') /\ Arrives(host)
  BY RxKept
<1>3. tx_irq_pending => tx_irq_pending'
  BY DEF TxIrq
<1>4. uart_irq => uart_irq'
  BY <1>1, <1>2, <1>3 DEF uart_irq
<1>5. ~TellsThre(fire)
  BY DEF iir_reports_thre, TellsThre, IirCause
<1>6. ~ThrWrite(fire) => thre_owed' = thre_owed
  BY <1>5 DEF UartHistory
<1> QED BY <1>1, <1>2, <1>4, <1>6

\* A cycle without an access of the UART.
LEMMA UartQuiet ==
  ASSUME BusInv, UartInv, ~dlab, NEW host, Devices(host), UartFire = None
  PROVE  /\ dlab' = dlab /\ ier' = ier
         /\ (rx_valid => rx_valid') /\ (uart_irq => uart_irq') /\ Arrives(host)
         /\ thre_owed' = thre_owed
         /\ u_wait' = FALSE /\ u_rvalid' = FALSE
<1>1. /\ ~rx_pop(None) /\ ~rx_clear(None) /\ ~iir_reports_thre(None) /\ ~IerWrite(None)
      /\ ~WritesReg(None, "LCR") /\ ~ThrWrite(None)
  BY DEF rx_pop, rx_clear, iir_reports_thre, IerWrite, ThrWrite, WritesReg, Reads
<1>2. /\ UartBus(None # None, None) /\ RxFifo(None, host) /\ TxIrq(None)
      /\ UartRegisters(None) /\ UartHistory(None, host)
  BY Firing
<1>3. u_wait' = FALSE /\ u_rvalid' = FALSE
  BY <1>2 DEF UartBus
<1> QED BY <1>1, <1>2, <1>3, LineKept

\* A cycle without a claim or a completion.
LEMMA PlicQuiet ==
  ASSUME BusInv, NEW host, Devices(host), Claimed(PlicFire) = {}, Completed(PlicFire) = {}
  PROVE  pending' = pending \cup (Level \ in_service) /\ in_service' = in_service
BY Firing DEF Pending, InService

LEMMA PlicIdle ==
  ASSUME BusInv, NEW host, Devices(host), PlicFire = NoReq
  PROVE  /\ pending' = pending \cup (Level \ in_service) /\ in_service' = in_service
         /\ irq_priority' = irq_priority /\ enable' = enable /\ threshold' = threshold
         /\ p_wait' = FALSE /\ p_rvalid' = FALSE
<1>1. Claimed(NoReq) = {} /\ Completed(NoReq) = {}
  BY DEF Claimed, Completed, PlicWrites
<1>2. p_wait' = FALSE /\ p_rvalid' = FALSE
  BY Firing DEF PlicBus
<1>3. irq_priority' = irq_priority /\ enable' = enable /\ threshold' = threshold
  BY Firing DEF PlicRegisters, PlicWrites
<1> QED BY <1>1, <1>2, <1>3, PlicQuiet

LEMMA SetUpIs ==
  /\ Len(SetUp) = 5
  /\ SetUp[1] = PlicAccess("PRIORITY", TRUE, 1)
  /\ SetUp[2] = PlicAccess("ENABLE", TRUE, {UartIrq})
  /\ SetUp[3] = PlicAccess("THRESHOLD", TRUE, 0)
  /\ SetUp[4] = UartAccess("IER", TRUE, {})
  /\ SetUp[5] = UartAccess("IER", TRUE, {"RX", "TX"})
BY DEF SetUp

LEMMA SetUpAccesses ==
  /\ SetUp[1] # None /\ SetUp[2] # None /\ SetUp[3] # None /\ SetUp[4] # None /\ SetUp[5] # None
  /\ SetUp[1] # NoReq /\ SetUp[2] # NoReq /\ SetUp[3] # NoReq /\ SetUp[4] # NoReq
  /\ SetUp[5] # NoReq
<1>1. \A i \in 1 .. Len(SetUp) : SetUp[i] # None /\ SetUp[i] # NoReq
  BY AccessAssumption, Zenon
<1> HIDE DEF SetUp
<1>2. \A i \in 1 .. 5 : SetUp[i] # None /\ SetUp[i] # NoReq
  BY <1>1, SetUpIs
<1> QED BY <1>2

\* The accesses that there are.
AccessKinds ==
  \/ ~awaiting /\ main = 2 /\ req_saved = PlicAccess("PRIORITY", TRUE, 1)
  \/ ~awaiting /\ main = 3 /\ req_saved = PlicAccess("ENABLE", TRUE, {UartIrq})
  \/ ~awaiting /\ main = 4 /\ req_saved = PlicAccess("THRESHOLD", TRUE, 0)
  \/ ~awaiting /\ main = 5 /\ req_saved = UartAccess("IER", TRUE, {})
  \/ ~awaiting /\ main = 6 /\ req_saved = UartAccess("IER", TRUE, {"RX", "TX"})
  \/ ~awaiting /\ main = 6 /\ req_saved = UartAccess("DATA", TRUE, TxChar)
  \/ awaiting /\ handler = "claim" /\ req_saved = PlicAccess("CLAIM", FALSE, 0)
  \/ awaiting /\ handler = "iir" /\ req_saved = UartAccess("IIR", FALSE, 0)
  \/ awaiting /\ handler = "rbr" /\ req_saved = UartAccess("DATA", FALSE, 0)
  \/ ~awaiting /\ handler = "none" /\ req_saved = PlicAccess("CLAIM", TRUE, UartIrq)

LEMMA KindsAre ==
  ASSUME BusInv, ProgramInv, req_saved # None
  PROVE  AccessKinds
<1>1. CASE awaiting
  BY <1>1 DEF ProgramInv, HandlerReq, AccessKinds
<1>2. CASE ~awaiting /\ main > 1 /\ req_saved = SetUp[main - 1]
  <2>1. main \in {2, 3, 4, 5, 6}
    BY <1>2 DEF ProgramInv
  <2>2. CASE main = 2
    <3>1. main - 1 = 1
      BY <2>2
    <3>2. req_saved = SetUp[1]
      BY <1>2, <3>1
    <3> QED BY <1>2, <2>2, <3>2, SetUpIs DEF AccessKinds
  <2>3. CASE main = 3
    <3>1. main - 1 = 2
      BY <2>3
    <3>2. req_saved = SetUp[2]
      BY <1>2, <3>1
    <3> QED BY <1>2, <2>3, <3>2, SetUpIs DEF AccessKinds
  <2>4. CASE main = 4
    <3>1. main - 1 = 3
      BY <2>4
    <3>2. req_saved = SetUp[3]
      BY <1>2, <3>1
    <3> QED BY <1>2, <2>4, <3>2, SetUpIs DEF AccessKinds
  <2>5. CASE main = 5
    <3>1. main - 1 = 4
      BY <2>5
    <3>2. req_saved = SetUp[4]
      BY <1>2, <3>1
    <3> QED BY <1>2, <2>5, <3>2, SetUpIs DEF AccessKinds
  <2>6. CASE main = 6
    <3>1. main - 1 = 5
      BY <2>6
    <3>2. req_saved = SetUp[5]
      BY <1>2, <3>1
    <3> QED BY <1>2, <2>6, <3>2, SetUpIs DEF AccessKinds
  <2> QED BY <2>1, <2>2, <2>3, <2>4, <2>5, <2>6
<1>3. CASE ~awaiting /\ main = 6 /\ req_saved = UartAccess("DATA", TRUE, TxChar)
  BY <1>3 DEF AccessKinds
<1>4. CASE ~awaiting /\ handler = "none" /\ req_saved = PlicAccess("CLAIM", TRUE, UartIrq)
  BY <1>4 DEF AccessKinds
<1> QED BY <1>1, <1>2, <1>3, <1>4 DEF ProgramInv, BusInv

\* Each is an access of one device, and makes sense to it.
Sensible(r) ==
  /\ r # NoReq
  /\ (r.dev = "UART" /\ UartAccessOK(r)) \/ (r.dev = "PLIC" /\ PlicAccessOK(r))

LEMMA UartIsSource == UartIrq \in Sources
BY IrqPathAssumption, PlicAssumption DEF LowWord, Sources

LEMMA KindsOK ==
  ASSUME AccessKinds
  PROVE  Sensible(req_saved)
<1>0. UartIrq \in Sources
  BY UartIsSource
<1>1. Sensible(PlicAccess("PRIORITY", TRUE, 1))
  BY <1>0, AccessAssumption, SetUpIs, SetUpAccesses DEF Sensible, PlicAccess, PlicAccessOK, Contexts
<1>2. Sensible(PlicAccess("ENABLE", TRUE, {UartIrq}))
  BY <1>0, AccessAssumption, SetUpIs, SetUpAccesses DEF Sensible, PlicAccess, PlicAccessOK, Contexts
<1>3. Sensible(PlicAccess("THRESHOLD", TRUE, 0))
  BY <1>0, AccessAssumption, SetUpIs, SetUpAccesses DEF Sensible, PlicAccess, PlicAccessOK, Contexts
<1>4. Sensible(UartAccess("IER", TRUE, {}))
  BY AccessAssumption, SetUpIs, SetUpAccesses DEF Sensible, UartAccess, UartAccessOK
<1>5. Sensible(UartAccess("IER", TRUE, {"RX", "TX"}))
  BY AccessAssumption, SetUpIs, SetUpAccesses DEF Sensible, UartAccess, UartAccessOK
<1>6. Sensible(UartAccess("DATA", TRUE, TxChar))
  BY AccessAssumption, SetUpIs DEF Sensible, UartAccess, UartAccessOK
<1>7. Sensible(PlicAccess("CLAIM", FALSE, 0))
  BY <1>0, AccessAssumption, SetUpIs DEF Sensible, PlicAccess, PlicAccessOK, Contexts
<1>8. Sensible(UartAccess("IIR", FALSE, 0))
  BY AccessAssumption, SetUpIs DEF Sensible, UartAccess, UartAccessOK
<1>9. Sensible(UartAccess("DATA", FALSE, 0))
  BY AccessAssumption, SetUpIs DEF Sensible, UartAccess, UartAccessOK
<1>10. Sensible(PlicAccess("CLAIM", TRUE, UartIrq))
  BY <1>0, AccessAssumption, SetUpIs DEF Sensible, PlicAccess, PlicAccessOK, Contexts
<1> QED BY <1>1, <1>2, <1>3, <1>4, <1>5, <1>6, <1>7, <1>8, <1>9, <1>10 DEF AccessKinds

\* The devices keep their own invariants.
LEMMA DevicesKeep ==
  ASSUME PathInv, NEW host \in Chars \cup {None}, Devices(host)
  PROVE  UartInv' /\ PlicTypeOK' /\ ServedOnce'
<1>1. BusInv /\ ProgramInv /\ UartInv /\ PlicTypeOK /\ ServedOnce
  BY DEF PathInv
<1>2. UartClock(UartFire, host) /\ PlicClock(PlicFire, Level)
  BY <1>1, Firing
<1>3. UartFire # None => UartAccessOK(UartFire)
  BY <1>1, KindsAre, KindsOK DEF UartFire, Drives, Sensible
<1>4. PlicFire # NoReq => PlicAccessOK(PlicFire)
  BY <1>1, KindsAre, KindsOK DEF PlicFire, Drives, Sensible
<1>5. UartInv'
  BY <1>1, <1>2, <1>3, UartStep
<1>6. Level \in SUBSET Sources
  BY UartIsSource DEF Level
<1>7. PlicTypeOK' /\ ServedOnce'
  BY <1>1, <1>2, <1>4, <1>6, PlicStep
<1> QED BY <1>5, <1>7

\* An access takes two cycles of the controller: in the first the device sees
\* it, in the second it answers.
LEMMA BusStep ==
  ASSUME BusInv, ProgramInv, NEW host, Devices(host), NEW r, MmioController(r)
  PROVE  /\ BusInv'
         /\ req_saved = None => req_saved' = r /\ req_issued' = FALSE
         /\ Driving => req_saved' = req_saved /\ req_issued' = TRUE
         /\ req_issued => req_saved' = None /\ req_issued' = FALSE /\ Answered
<1>0. req_saved # None => Sensible(req_saved)
  BY KindsAre, KindsOK
<1>1. /\ req_saved = None => req_saved' = r /\ req_issued' = FALSE
      /\ Driving => req_saved' = req_saved /\ req_issued' = TRUE
      /\ req_issued => req_saved' = None /\ req_issued' = FALSE /\ Answered
  <2>1. CASE req_saved = None
    BY <2>1 DEF MmioController, mmio_ready, Driving, BusInv
  <2>2. CASE req_saved # None /\ ~req_issued
    BY <2>2, <1>0 DEF MmioController, mmio_ready, Answered, device_ready, BusInv, Driving, Sensible
  <2>3. CASE req_issued
    BY <2>3, <1>0 DEF MmioController, mmio_ready, Answered, device_rvalid, BusInv, Driving, Sensible
  <2> QED BY <2>1, <2>2, <2>3 DEF BusInv
<1>2. /\ UartBus(UartFire # None, UartFire) /\ PlicBus(PlicFire # NoReq, PlicFire)
  BY Firing
<1>3. CASE ~Driving
  <2>1. UartFire = None /\ PlicFire = NoReq
    BY <1>3 DEF Driving, UartFire, PlicFire, Drives
  <2>2. u_wait' = FALSE /\ u_rvalid' = FALSE /\ p_wait' = FALSE /\ p_rvalid' = FALSE
    BY <1>2, <2>1 DEF UartBus, PlicBus
  <2>3. req_issued' = FALSE
    BY <1>1, <1>3 DEF Driving
  <2> QED BY <1>1, <2>2, <2>3 DEF BusInv
<1>4. CASE Driving
  <2>1. /\ UartFire = IF req_saved.dev = "UART" THEN req_saved ELSE None
        /\ PlicFire = IF req_saved.dev = "PLIC" THEN req_saved ELSE NoReq
    BY <1>4 DEF Driving, UartFire, PlicFire, Drives
  <2>2. req_saved # None /\ req_saved # NoReq
    BY <1>0, <1>4 DEF Driving, Sensible
  <2>3. /\ u_wait' = (req_saved.dev = "UART") /\ u_rvalid' = (req_saved.dev = "UART")
        /\ p_wait' = (req_saved.dev = "PLIC") /\ p_rvalid' = (req_saved.dev = "PLIC")
    BY <1>2, <2>1, <2>2 DEF UartBus, PlicBus
  <2> QED BY <1>1, <1>4, <2>2, <2>3 DEF BusInv
<1> QED BY <1>1, <1>3, <1>4

\* The interrupt is latched, enabled, and its cause is there.
Armed ==
  /\ UartIrq \in pending /\ UartIrq \in enable["S"]
  /\ irq_priority[UartIrq] > threshold["S"]
  /\ uart_irq

LEMMA SeipIsArmed ==
  ASSUME PathInv, seip
  PROVE  Armed
<1>1. "S" \in Contexts /\ PlicTypeOK /\ pending \subseteq {UartIrq}
  BY DEF PathInv, Contexts, ServiceInv
<1>2. select_irq("S") \in pending \cap enable["S"] /\ irq_priority[select_irq("S")] > threshold["S"]
  BY <1>1, SelectIrq DEF seip
<1>3. select_irq("S") = UartIrq
  BY <1>1, <1>2
<1>4. uart_irq
  BY <1>2 DEF PathInv, LineInv
<1> QED BY <1>2, <1>3, <1>4 DEF Armed

LEMMA ArmedIsClaimed ==
  ASSUME PathInv, Armed
  PROVE  select_irq("S") = UartIrq /\ UartIrq # 0
<1>1. "S" \in Contexts /\ PlicTypeOK /\ pending \subseteq {UartIrq}
  BY DEF PathInv, Contexts, ServiceInv
<1>2. UartIrq \in Nat /\ UartIrq # 0
  BY UartIsSource, PlicAssumption DEF Sources
<1>3. irq_priority[UartIrq] \in 0 .. 7 /\ threshold["S"] \in 0 .. 7
  BY <1>1, UartIsSource DEF PlicTypeOK
<1>4. select_irq("S") # 0
  BY <1>1, <1>3, SelectIrq DEF Armed
<1>5. select_irq("S") = UartIrq
  BY <1>1, <1>4, SelectIrq
<1> QED BY <1>2, <1>5

\* A cycle in which no device sees an access.
Quiet(host) ==
  /\ dlab' = dlab /\ ier' = ier /\ thre_owed' = thre_owed
  /\ rx_valid => rx_valid'
  /\ uart_irq => uart_irq'
  /\ pending' = pending \cup (Level \ in_service) /\ in_service' = in_service
  /\ irq_priority' = irq_priority /\ enable' = enable /\ threshold' = threshold

LEMMA QuietStep ==
  ASSUME PathInv, NEW host \in Chars \cup {None}, Devices(host), ~Driving
  PROVE  Quiet(host) /\ Arrives(host)
<1>1. UartFire = None /\ PlicFire = NoReq
  BY DEF Driving, UartFire, PlicFire, Drives
<1> QED BY <1>1, UartQuiet, PlicIdle DEF PathInv, LineInv, Quiet

LEMMA QuietKeeps ==
  ASSUME PathInv, NEW host, Quiet(host)
  PROVE  /\ pending' \subseteq {UartIrq} /\ (pending' # {} => uart_irq')
         /\ Armed => Armed'
<1>1. pending \subseteq {UartIrq} /\ (pending # {} => uart_irq)
  BY DEF PathInv, ServiceInv, LineInv
<1>2. Level # {} => uart_irq
  BY DEF Level
<1>3. pending' \subseteq {UartIrq} /\ (pending' # {} => uart_irq')
  BY <1>1, <1>2 DEF Quiet, Level
<1>4. Armed => Armed'
  BY DEF Quiet, Armed
<1> QED BY <1>3, <1>4

\* What holds of the handler while it claims.
LEMMA ClaimingIsArmed ==
  ASSUME PathInv, handler = "claim", ~LoadDone("claim")
  PROVE  Armed
BY DEF PathInv, ServiceInv, LineInv, Armed

\* The rest of PathInv, without the bus and the devices.
SoftInv == ProgramInv /\ ServiceInv /\ LineInv /\ TxInv

\* The handler waits only while the controller works for it.
LEMMA IdleIs ==
  ASSUME PathInv, req_saved = None
  PROVE  awaiting = FALSE /\ req_issued = FALSE /\ ~Driving
<1>1. req_issued = FALSE /\ ~Driving
  BY DEF PathInv, BusInv, Driving
<1>2. awaiting => handler \in {"claim", "iir", "rbr"} /\ req_saved = HandlerReq
  BY DEF PathInv, ProgramInv
<1>3. handler \in {"claim", "iir", "rbr"} => HandlerReq # None
  BY AccessAssumption DEF HandlerReq
<1>4. awaiting = FALSE
  BY <1>2, <1>3 DEF PathInv, ProgramInv
<1> QED BY <1>1, <1>4

LEMMA NothingDone ==
  ASSUME ~Driving, ~awaiting
  PROVE  /\ \A step : ~LoadDone(step)
         /\ \A reg : ~Posted(reg)
BY DEF LoadDone, Posted

\* The software waits, or the core takes the interrupt.
LEMMA QuietWait ==
  ASSUME PathInv, ~Driving, ~awaiting, NEW host, Quiet(host), req_saved' = None,
         UNCHANGED <<main, sent, tx_seen, awaiting>>,
         \/ handler' = handler
         \/ handler = "none" /\ handler' = "claim" /\ Armed /\ main > 3
  PROVE  SoftInv'
<1>1. /\ \A step : ~LoadDone(step)
      /\ \A reg : ~Posted(reg)
  BY NothingDone
<1>2. /\ \A step : ~LoadDone(step)'
      /\ \A reg : ~Posted(reg)'
  BY DEF LoadDone, Posted, Driving
<1>3. /\ pending' \subseteq {UartIrq} /\ (pending' # {} => uart_irq')
      /\ Armed => Armed'
  BY QuietKeeps
<1>4. ProgramInv'
  BY <1>1 DEF PathInv, ProgramInv
<1>5. handler' = "claim" => Armed'
  BY <1>1, <1>3, ClaimingIsArmed
<1>6. ServiceInv'
  <2>1. Serving' = Serving
    BY <1>1, <1>2 DEF Serving
  <2> QED BY <1>2, <1>3, <1>5, <2>1 DEF PathInv, ServiceInv, Quiet, Armed
<1>7. LineInv'
  <2>1. ier' = {} => handler' = "none"
    BY DEF PathInv, LineInv, Quiet, Armed, uart_irq
  <2> QED BY <1>1, <1>2, <1>3, <1>5, <2>1 DEF PathInv, LineInv, Quiet, Armed
<1>8. TxInv'
  BY <1>1, <1>2 DEF PathInv, TxInv, Quiet
<1> QED BY <1>4, <1>6, <1>7, <1>8 DEF SoftInv

\* main posts its next store.
LEMMA IdleMain ==
  ASSUME PathInv, req_saved = None, NEW host, Quiet(host), MainStep,
         req_saved' = MainReq, req_issued' = FALSE
  PROVE  SoftInv'
<1>1. /\ awaiting = FALSE /\ ~Driving
      /\ \A step : ~LoadDone(step)
      /\ \A reg : ~Posted(reg)
  BY IdleIs, NothingDone
<1>2. \A step : ~LoadDone(step)'
  BY DEF LoadDone
<1>3. /\ pending' \subseteq {UartIrq} /\ (pending' # {} => uart_irq')
      /\ Armed => Armed'
  BY QuietKeeps
<1>4. /\ handler = "none" /\ handler' = "none" /\ awaiting' = FALSE /\ tx_seen' = tx_seen
      /\ main \in 1 .. 6 /\ sent \in Nat /\ tx_seen \in Nat
  BY <1>1 DEF MainStep, PathInv, ProgramInv
<1>5. ~Serving
  BY <1>1, <1>4 DEF Serving
<1>6. CASE main <= 5
  <2>1. /\ main' = main + 1 /\ sent' = sent /\ req_saved' = SetUp[main]
        /\ main = main' - 1 /\ main' > 1 /\ main' \in 2 .. 6
    <3>1. main' = main + 1 /\ sent' = sent
      BY <1>6, SetUpIs DEF MainStep
    <3>2. req_saved' = SetUp[main]
      BY <1>6, SetUpIs DEF MainReq
    <3> QED BY <1>4, <1>6, <3>1, <3>2
  <2>2. ProgramInv'
    <3>1. (SetUp[main - 1])' = SetUp[main' - 1]
      BY DEF SetUp, UartAccess, PlicAccess
    <3>2. req_saved' = (SetUp[main - 1])'
      BY <2>1, <3>1
    <3>3. main' \in 1 .. 6 /\ sent' \in Nat /\ tx_seen' \in Nat /\ main' > 1
      BY <1>4, <2>1
    <3>4. awaiting' \in BOOLEAN
      BY <1>4
    <3> QED BY <1>4, <3>2, <3>3, <3>4 DEF ProgramInv
  <2>3. /\ ~Posted("CLAIM")' /\ ~Posted("DATA")'
        /\ main = 5 <=> main' = 6
        /\ main = 5 => Posted("IER")'
    <3>1. main \in {1, 2, 3, 4, 5}
      BY <1>4, <1>6
    <3>2. req_saved'.reg \in {"PRIORITY", "ENABLE", "THRESHOLD", "IER"}
      BY <2>1, <3>1, SetUpIs DEF UartAccess, PlicAccess
    <3>3. main = 5 => req_saved'.reg = "IER" /\ req_saved'.wen = TRUE /\ req_saved' # None
      BY <2>1, SetUpIs, SetUpAccesses DEF UartAccess
    <3> QED BY <1>4, <2>1, <3>2, <3>3 DEF Posted, Driving
  <2>4. ServiceInv'
    BY <1>2, <1>3, <1>4, <1>5, <2>3 DEF Serving, PathInv, ServiceInv, Quiet
  <2>5. ier = {}
    BY <1>6 DEF PathInv, LineInv
  <2>6. LineInv'
    BY <1>2, <1>3, <1>4, <2>1, <2>3, <2>5 DEF PathInv, LineInv, Quiet
  <2>7. TxInv'
    BY <1>2, <1>4, <1>6, <2>1, <2>3 DEF PathInv, TxInv, Quiet
  <2> QED BY <2>2, <2>4, <2>6, <2>7 DEF SoftInv
<1>7. CASE ~(main <= 5)
  <2>1. /\ main = 6 /\ main' = 6 /\ sent' = sent + 1 /\ tx_seen > sent
        /\ req_saved' = UartAccess("DATA", TRUE, TxChar)
    <3>1. main = 6 /\ ~(main <= Len(SetUp))
      BY <1>4, <1>7, SetUpIs
    <3>2. req_saved' = UartAccess("DATA", TRUE, TxChar)
      BY <3>1 DEF MainReq
    <3>3. sent' = sent + 1 /\ main' = main /\ tx_seen > sent
      BY <3>1 DEF MainStep, MainWants
    <3> QED BY <3>1, <3>2, <3>3
  <2>2. ProgramInv'
    <3>1. main' \in 1 .. 6 /\ sent' \in Nat /\ tx_seen' \in Nat
      BY <1>4, <2>1
    <3>3. awaiting' \in BOOLEAN
      BY <1>4
    <3>2. req_saved' = UartAccess("DATA", TRUE, TxChar)'
      BY <2>1 DEF UartAccess
    <3> QED BY <1>4, <2>1, <3>1, <3>2, <3>3 DEF ProgramInv
  <2>3. ~Posted("CLAIM")' /\ ~Posted("IER")'
    BY <2>1 DEF Posted, UartAccess
  <2>4. ServiceInv'
    BY <1>2, <1>3, <1>4, <1>5, <2>3 DEF Serving, PathInv, ServiceInv, Quiet
  <2>5. LineInv'
    BY <1>1, <1>2, <1>3, <1>4, <2>1, <2>3 DEF PathInv, LineInv, Quiet
  <2>6. TxInv'
    BY <1>2, <1>4, <2>1 DEF PathInv, TxInv, Quiet
  <2> QED BY <2>2, <2>4, <2>5, <2>6 DEF SoftInv
<1> QED BY <1>6, <1>7

\* The handler makes its next access.
LEMMA IdleHandler ==
  ASSUME PathInv, req_saved = None, NEW host, Quiet(host), HandlerStep,
         req_saved' = HandlerReq, req_issued' = FALSE
  PROVE  SoftInv'
<1>1. /\ awaiting = FALSE /\ ~Driving
      /\ \A step : ~LoadDone(step)
      /\ \A reg : ~Posted(reg)
  BY IdleIs, NothingDone
<1>2. \A step : ~LoadDone(step)'
  BY DEF LoadDone
<1>3. /\ pending' \subseteq {UartIrq} /\ (pending' # {} => uart_irq')
      /\ Armed => Armed'
  BY QuietKeeps
<1>4. /\ main' = main /\ sent' = sent /\ tx_seen' = tx_seen
      /\ main \in 1 .. 6 /\ sent \in Nat /\ tx_seen \in Nat
      /\ handler \in {"claim", "iir", "rbr", "complete"} /\ main > 3
  BY DEF HandlerStep, PathInv, ProgramInv
<1>5. CASE handler \in {"claim", "iir", "rbr"}
  <2>1. ~HandlerReq.wen /\ HandlerReq.wen = FALSE
    BY <1>5 DEF HandlerReq, UartAccess, PlicAccess
  <2>2. awaiting' = TRUE /\ handler' = handler
    BY <2>1 DEF HandlerStep
  <2>3. HandlerReq' = HandlerReq
    BY <2>2 DEF HandlerReq, UartAccess, PlicAccess
  <2>4. awaiting' \in BOOLEAN
    BY <2>2
  <2>5. ProgramInv'
    BY <1>4, <1>5, <2>2, <2>3, <2>4 DEF ProgramInv
  <2>6. \A reg : ~Posted(reg)'
    BY <2>1 DEF Posted
  <2>7. Serving' = Serving
    BY <1>1, <1>2, <2>2, <2>6 DEF Serving
  <2>8. handler' = "claim" => Armed'
    BY <1>1, <1>3, <2>2, ClaimingIsArmed
  <2>9. ServiceInv'
    BY <1>2, <1>3, <2>7, <2>8 DEF PathInv, ServiceInv, Quiet, Armed
  <2>10. LineInv'
    BY <1>1, <1>2, <1>3, <1>4, <2>2, <2>6 DEF PathInv, LineInv, Quiet
  <2>11. TxInv'
    BY <1>1, <1>2, <1>4, <2>6 DEF PathInv, TxInv, Quiet
  <2> QED BY <2>5, <2>9, <2>10, <2>11 DEF SoftInv
<1>6. CASE handler = "complete"
  <2>1. req_saved' = PlicAccess("CLAIM", TRUE, UartIrq) /\ HandlerReq.wen = TRUE
    BY <1>6 DEF HandlerReq, PlicAccess
  <2>2. awaiting' = FALSE /\ handler' = "none"
    BY <2>1 DEF HandlerStep
  <2>3. awaiting' \in BOOLEAN
    BY <2>2
  <2>4. req_saved' = PlicAccess("CLAIM", TRUE, UartIrq)'
    BY <2>1 DEF PlicAccess
  <2>5. ProgramInv'
    BY <1>4, <2>2, <2>3, <2>4 DEF ProgramInv
  <2>6. ~Posted("IER")' /\ ~Posted("DATA")' /\ Posted("CLAIM")'
    BY <2>1, AccessAssumption DEF Posted, PlicAccess, Driving
  <2>7. Serving' /\ Serving
    BY <1>6, <2>6 DEF Serving
  <2>8. ServiceInv'
    BY <1>2, <1>3, <2>2, <2>7 DEF PathInv, ServiceInv, Quiet
  <2>9. LineInv'
    BY <1>1, <1>2, <1>3, <1>4, <2>2, <2>6 DEF PathInv, LineInv, Quiet
  <2>10. TxInv'
    BY <1>1, <1>2, <1>4, <2>6 DEF PathInv, TxInv, Quiet
  <2> QED BY <2>5, <2>8, <2>9, <2>10 DEF SoftInv
<1> QED BY <1>4, <1>5, <1>6

\* A load of the handler is answered.
LEMMA HandlerAnswered ==
  ASSUME PathInv, req_issued, NEW host, Quiet(host), HandlerAnswer, req_saved' = None,
         req_issued' = FALSE
  PROVE  SoftInv'
<1>1. /\ \A step : ~LoadDone(step)'
      /\ \A reg : ~Posted(reg)'
      /\ \A reg : ~Posted(reg)
  BY DEF LoadDone, Posted, Driving
<1>2. /\ pending' \subseteq {UartIrq} /\ (pending' # {} => uart_irq')
  BY QuietKeeps
<1>3. /\ main' = main /\ sent' = sent /\ awaiting' = FALSE /\ awaiting
      /\ main \in 1 .. 6 /\ sent \in Nat /\ tx_seen \in Nat
      /\ handler \in {"claim", "iir", "rbr"} /\ main > 3
  BY DEF HandlerAnswer, PathInv, ProgramInv
<1>4. /\ handler = "claim" => LoadDone("claim") /\ p_rdata = UartIrq
      /\ handler = "iir" => LoadDone("iir") /\ (u_rdata = 194 \/ (u_rdata = 196 /\ rx_valid))
  BY <1>3 DEF LoadDone, PathInv, ServiceInv, LineInv
<1>5. 194 % 16 = 2 /\ 196 % 16 = 4
  OBVIOUS
<1>6. /\ handler = "claim" => handler' = "iir" /\ tx_seen' = tx_seen
      /\ handler = "iir" /\ MasksIir /\ u_rdata = 194 =>
           handler' = "complete" /\ tx_seen' = tx_seen + 1
      /\ handler = "iir" /\ MasksIir /\ u_rdata # 194 => handler' = "rbr" /\ tx_seen' = tx_seen
      /\ handler = "iir" /\ ~MasksIir => handler' = "fail" /\ tx_seen' = tx_seen
      /\ handler = "rbr" => handler' = "complete" /\ tx_seen' = tx_seen
  BY <1>3, <1>4, <1>5 DEF HandlerAnswer, iir
<1>7. /\ handler' \in {"iir", "rbr", "complete", "fail"} /\ tx_seen' \in Nat
      /\ handler' = "fail" => ~MasksIir
  BY <1>3, <1>6
<1>8. awaiting' \in BOOLEAN
  BY <1>3
<1>9. ProgramInv'
  BY <1>3, <1>7, <1>8 DEF ProgramInv
<1>10. Serving /\ Serving'
  BY <1>3, <1>4, <1>7 DEF Serving
<1>11. ServiceInv'
  BY <1>1, <1>2, <1>7, <1>10 DEF PathInv, ServiceInv, Quiet
<1>12. LineInv'
  <2>1. handler = "claim" => uart_irq
    BY DEF PathInv, LineInv
  <2>2. handler' = "iir" => uart_irq'
    BY <1>3, <1>6, <2>1 DEF Quiet
  <2>3. handler' = "rbr" => rx_valid'
    BY <1>3, <1>4, <1>6 DEF Quiet
  <2>4. ~dlab' /\ ier' = IF main' = 6 /\ ~Posted("IER")' THEN {"RX", "TX"} ELSE {}
    BY <1>1, <1>3 DEF PathInv, LineInv, Quiet
  <2>5. ier' # {}
    BY <1>3 DEF PathInv, LineInv, Quiet
  <2> QED BY <1>1, <1>2, <1>7, <2>2, <2>3, <2>4, <2>5 DEF LineInv
<1>13. TxInv'
  <2>1. CASE handler = "iir" /\ u_rdata = 194 /\ MasksIir
    <3>1. tx_seen <= sent /\ ~thre_owed /\ main = 6
      BY <1>3, <1>4, <2>1 DEF PathInv, TxInv, LineInv
    <3> QED BY <1>1, <1>3, <1>6, <2>1, <3>1 DEF TxInv, Quiet
  <2>2. CASE ~(handler = "iir" /\ u_rdata = 194 /\ MasksIir)
    BY <1>1, <1>3, <1>6, <2>2 DEF PathInv, TxInv, Quiet
  <2> QED BY <2>1, <2>2
<1> QED BY <1>9, <1>11, <1>12, <1>13 DEF SoftInv

-----------------------------------------------------------------------------
\* While a device sees an access, the software can only wait or be interrupted.
Suspended ==
  /\ UNCHANGED <<main, sent, tx_seen, awaiting, req_saved>> /\ req_issued' = TRUE
  /\ \/ handler' = handler
     \/ handler = "none" /\ handler' = "claim" /\ Armed /\ main > 3

\* While it completes, nothing is pending.
LEMMA ServingIsNotArmed ==
  ASSUME PathInv, Serving
  PROVE  ~Armed /\ pending = {} /\ in_service = {UartIrq}
BY DEF PathInv, ServiceInv, ServedOnce, Armed

LEMMA SuspendedProgram ==
  ASSUME PathInv, Driving, Suspended
  PROVE  /\ ProgramInv'
         /\ \A reg : ~Posted(reg)'
<1>1. \A reg : ~Posted(reg)'
  BY DEF Suspended, Posted, Driving
<1>2. ProgramInv
  BY DEF PathInv
<1>3. /\ main' = main /\ sent' = sent /\ tx_seen' = tx_seen /\ awaiting' = awaiting
      /\ req_saved' = req_saved
  BY DEF Suspended
<1>4. CASE handler' = handler
  <2>1. HandlerReq' = HandlerReq
    BY <1>4 DEF HandlerReq, UartAccess, PlicAccess
  <2>2. SetUp' = SetUp /\ UartAccess("DATA", TRUE, TxChar)' = UartAccess("DATA", TRUE, TxChar)
        /\ PlicAccess("CLAIM", TRUE, UartIrq)' = PlicAccess("CLAIM", TRUE, UartIrq)
    BY DEF SetUp, UartAccess, PlicAccess
  <2> QED BY <1>1, <1>2, <1>3, <1>4, <2>1, <2>2 DEF ProgramInv
<1>5. CASE handler = "none" /\ handler' = "claim" /\ Armed /\ main > 3
  <2>1. ~awaiting
    BY <1>2, <1>5 DEF ProgramInv
  <2>2. req_saved # PlicAccess("CLAIM", TRUE, UartIrq)
    <3>1. req_saved = PlicAccess("CLAIM", TRUE, UartIrq) => Posted("CLAIM")
      BY DEF Posted, PlicAccess
    <3> QED BY <1>5, <3>1, ServingIsNotArmed DEF Serving
  <2>3. SetUp' = SetUp /\ UartAccess("DATA", TRUE, TxChar)' = UartAccess("DATA", TRUE, TxChar)
    BY DEF SetUp, UartAccess, PlicAccess
  <2> QED BY <1>1, <1>2, <1>3, <1>5, <2>1, <2>2, <2>3 DEF ProgramInv
<1> QED BY <1>4, <1>5 DEF Suspended

\* A store of the set-up: the UART's interrupts are still off.
LEMMA SetUpStore ==
  ASSUME PathInv, NEW host \in Chars \cup {None}, Devices(host), Driving, Suspended,
         ~awaiting, main < 6 \/ Posted("IER"),
         req_saved # PlicAccess("CLAIM", TRUE, UartIrq)
  PROVE  SoftInv'
<1>1. ier = {} /\ ~uart_irq /\ handler = "none" /\ pending = {} /\ Level = {}
  BY DEF PathInv, LineInv, uart_irq, Level
<1>2. handler' = "none" /\ awaiting' = FALSE /\ main' = main
  BY <1>1 DEF Suspended, Armed, PathInv, ProgramInv
<1>3. ProgramInv' /\ \A reg : ~Posted(reg)'
  BY SuspendedProgram
<1>4. AccessKinds
  BY KindsAre DEF PathInv, Driving
<1>5. ~Serving /\ ~Serving'
  <2>1. ~Posted("CLAIM")
    BY <1>4 DEF AccessKinds, Posted, UartAccess, PlicAccess
  <2> QED BY <1>1, <1>2, <1>3, <2>1 DEF Serving, LoadDone
<1>6. Claimed(PlicFire) = {} /\ Completed(PlicFire) = {}
  BY <1>4 DEF AccessKinds, PlicFire, Drives, UartAccess, PlicAccess, Claimed, Completed, PlicWrites
<1>7. pending' = {} /\ in_service' = {}
  <2>1. in_service = {}
    BY <1>5 DEF PathInv, ServiceInv
  <2> QED BY <1>1, <1>6, <2>1, PlicQuiet DEF PathInv
<1>8. ServiceInv'
  BY <1>2, <1>5, <1>7 DEF ServiceInv, LoadDone
<1>9. dlab' = FALSE /\ ier' = IF main' = 6 /\ ~Posted("IER")' THEN {"RX", "TX"} ELSE {}
  <2>1. UartRegisters(UartFire) /\ dlab = FALSE
    BY Firing DEF PathInv, LineInv, UartInv, RegType
  <2>2. CASE UartFire = None
    <3>1. main < 6
      <4>1. Posted("IER") => req_saved.dev = "UART"
        BY <1>4 DEF AccessKinds, Posted, UartAccess, PlicAccess
      <4> QED BY <2>2, <4>1 DEF UartFire, Drives, Posted, Driving
    <3> QED BY <1>1, <1>2, <2>1, <2>2, <3>1 DEF UartRegisters, IerWrite, WritesReg
  <2>3. CASE UartFire # None
    <3>1. UartFire = req_saved /\ req_saved.dev = "UART"
      BY <2>3 DEF UartFire, Drives
    <3>2. \/ main = 5 /\ req_saved = UartAccess("IER", TRUE, {})
          \/ main = 6 /\ req_saved = UartAccess("IER", TRUE, {"RX", "TX"})
      <4>1. Posted("IER") => req_saved.reg = "IER"
        BY DEF Posted
      <4> QED BY <1>4, <3>1, <4>1 DEF AccessKinds, UartAccess, PlicAccess
    <3>3. ier' = UartFire.value /\ dlab' = dlab
      <4>1. UartFire.wen = TRUE /\ UartFire.reg = "IER"
        BY <3>1, <3>2 DEF UartAccess
      <4> QED BY <2>1, <2>3, <4>1 DEF UartRegisters, IerWrite, WritesReg
    <3>4. ier' = IF main = 5 THEN {} ELSE {"RX", "TX"}
      BY <3>1, <3>2, <3>3 DEF UartAccess
    <3>5. main = 5 \/ main = 6
      BY <3>2
    <3>6. ~Posted("IER")'
      BY <1>3
    <3> QED BY <1>2, <2>1, <3>3, <3>4, <3>5, <3>6
  <2> QED BY <2>2, <2>3
<1>10. LineInv'
  BY <1>2, <1>7, <1>9 DEF LineInv, LoadDone
<1>11. TxInv'
  <2>1. tx_seen <= sent
    BY DEF PathInv, TxInv, ProgramInv
  <2>2. tx_seen' = tx_seen /\ sent' = sent /\ tx_seen \in Nat /\ sent \in Nat
    BY DEF Suspended, PathInv, ProgramInv
  <2> QED BY <1>2, <1>3, <2>1, <2>2 DEF TxInv, LoadDone
<1> QED BY <1>3, <1>8, <1>10, <1>11 DEF SoftInv

\* A character for the transmitter: no transmit interrupt is under way that
\* the write could take back.
LEMMA ThrStore ==
  ASSUME PathInv, NEW host \in Chars \cup {None}, Devices(host), Driving, Suspended,
         ~awaiting, main = 6, req_saved = UartAccess("DATA", TRUE, TxChar)
  PROVE  SoftInv' /\ Arrives(host)
<1>0. BusInv /\ UartInv /\ ~dlab
  BY DEF PathInv, LineInv
<1>1. UartFire = req_saved /\ PlicFire = NoReq /\ UartFire # None
  BY DEF UartFire, PlicFire, Drives, Driving, UartAccess
<1>2. /\ Posted("DATA") /\ ~Posted("IER") /\ ~Posted("CLAIM")
      /\ UartFire.wen = TRUE /\ UartFire.reg = "DATA"
  BY <1>1 DEF Posted, UartAccess
<1>3. ~thre_owed /\ ~tx_irq_pending
  BY <1>2 DEF PathInv, TxInv, NeverKept, UartInv, ThreInv, ThreReportedOnce
<1>4. /\ ~rx_pop(UartFire) /\ ~rx_clear(UartFire) /\ ~iir_reports_thre(UartFire)
      /\ ~IerWrite(UartFire) /\ ~WritesReg(UartFire, "LCR")
  BY <1>2 DEF rx_pop, rx_clear, iir_reports_thre, IerWrite, WritesReg, Reads
<1>5. /\ dlab' = dlab /\ ier' = ier
      /\ (rx_valid => rx_valid') /\ (uart_irq => uart_irq') /\ Arrives(host)
  BY <1>0, <1>3, <1>4, Firing, LineKept
<1>6. /\ pending' = pending \cup (Level \ in_service) /\ in_service' = in_service
      /\ irq_priority' = irq_priority /\ enable' = enable /\ threshold' = threshold
  BY <1>0, <1>1, PlicIdle
<1>7. ProgramInv' /\ \A reg : ~Posted(reg)'
  BY SuspendedProgram
<1>8. /\ \A step : ~LoadDone(step)
      /\ \A step : ~LoadDone(step)'
  BY DEF LoadDone, Suspended
<1>9. /\ pending' \subseteq {UartIrq} /\ (pending' # {} => uart_irq') /\ (Armed => Armed')
  <2>1. pending \subseteq {UartIrq} /\ (pending # {} => uart_irq) /\ (Level # {} => uart_irq)
    BY DEF PathInv, ServiceInv, LineInv, Level
  <2> QED BY <1>5, <1>6, <2>1 DEF Level, Armed
<1>10. handler' = "claim" => Armed'
  BY <1>8, <1>9, ClaimingIsArmed DEF Suspended
<1>11. handler \in {"none", "claim"} /\ handler' \in {"none", "claim"}
  BY <1>2, ServingIsNotArmed DEF PathInv, ProgramInv, Suspended, UartAccess, PlicAccess, Driving
<1>12. ServiceInv'
  <2>1. ~Serving /\ ~Serving'
    BY <1>2, <1>7, <1>8, <1>11 DEF Serving
  <2> QED BY <1>6, <1>8, <1>9, <1>10, <2>1 DEF PathInv, ServiceInv, Armed
<1>13. LineInv'
  <2>1. main' = 6 /\ ier = {"RX", "TX"} /\ ~dlab
    BY <1>2 DEF Suspended, PathInv, LineInv
  <2>2. ier' = IF main' = 6 /\ ~Posted("IER")' THEN {"RX", "TX"} ELSE {}
    BY <1>5, <1>7, <2>1
  <2> QED BY <1>5, <1>8, <1>9, <1>10, <1>11, <2>1, <2>2 DEF LineInv, Armed
<1>14. TxInv'
  <2>1. tx_seen' = tx_seen /\ sent' = sent /\ tx_seen \in Nat /\ sent \in Nat /\ tx_seen <= sent
    BY <1>2 DEF Suspended, PathInv, ProgramInv, TxInv
  <2> QED BY <1>7, <1>8, <2>1 DEF TxInv
<1> QED BY <1>5, <1>7, <1>12, <1>13, <1>14 DEF SoftInv

\* The claim: the source is pending and is the only one.
LEMMA ClaimLoad ==
  ASSUME PathInv, NEW host \in Chars \cup {None}, Devices(host), Driving, Suspended,
         awaiting, handler = "claim", req_saved = PlicAccess("CLAIM", FALSE, 0)
  PROVE  SoftInv' /\ Arrives(host)
<1>0. BusInv /\ UartInv /\ ~dlab
  BY DEF PathInv, LineInv
<1>1. PlicFire = req_saved /\ UartFire = None /\ PlicFire # NoReq
  BY AccessAssumption DEF UartFire, PlicFire, Drives, Driving, PlicAccess
<1>2. /\ ~PlicFire.wen /\ PlicFire.reg = "CLAIM" /\ PlicFire.ctx = "S"
      /\ \A reg : ~Posted(reg)
  BY <1>1 DEF PlicAccess, Posted
<1>3. /\ ~LoadDone("claim") /\ \A step : LoadDone(step)' <=> step = "claim"
      /\ handler' = "claim" /\ main' = main
  BY DEF LoadDone, Driving, Suspended
<1>4. Armed /\ select_irq("S") = UartIrq /\ UartIrq # 0
  BY <1>3, ClaimingIsArmed, ArmedIsClaimed
<1>5. Claimed(PlicFire) = {UartIrq} /\ Completed(PlicFire) = {}
  BY <1>1, <1>2, <1>4 DEF Claimed, Completed, PlicWrites
<1>6. ~Serving /\ Serving'
  BY <1>2, <1>3 DEF Serving
<1>7. pending \subseteq {UartIrq} /\ in_service = {}
  BY <1>6 DEF PathInv, ServiceInv
<1>8. pending' = {} /\ in_service' = {UartIrq}
  <2>1. /\ pending' = (pending \cup (Level \ in_service)) \ {UartIrq}
        /\ in_service' = in_service \cup {UartIrq}
    BY <1>0, <1>5, Firing DEF Pending, InService
  <2> QED BY <1>7, <2>1 DEF Level
<1>9. p_rdata' = UartIrq
  BY <1>0, <1>1, <1>2, <1>4, Firing DEF PlicBus, plic_read_reg
<1>10. ProgramInv' /\ \A reg : ~Posted(reg)'
  BY SuspendedProgram
<1>11. ServiceInv'
  BY <1>3, <1>6, <1>8, <1>9 DEF ServiceInv
<1>12. /\ dlab' = dlab /\ ier' = ier /\ (uart_irq => uart_irq') /\ Arrives(host)
       /\ thre_owed' = thre_owed
  BY <1>0, <1>1, UartQuiet
<1>13. LineInv'
  <2>1. uart_irq /\ ~dlab /\ ier # {} /\ ier = IF main = 6 /\ ~Posted("IER") THEN {"RX", "TX"} ELSE {}
    BY DEF PathInv, LineInv
  <2>2. ier' = IF main' = 6 /\ ~Posted("IER")' THEN {"RX", "TX"} ELSE {}
    BY <1>2, <1>3, <1>10, <1>12, <2>1
  <2> QED BY <1>3, <1>8, <1>12, <2>1, <2>2 DEF LineInv
<1>14. TxInv'
  <2>1. tx_seen' = tx_seen /\ sent' = sent /\ main' = main
    BY DEF Suspended
  <2> QED BY <1>3, <1>10, <1>12, <2>1 DEF PathInv, TxInv
<1> QED BY <1>10, <1>11, <1>12, <1>13, <1>14 DEF SoftInv

\* IIR: it reports the cause of the interrupt.
LEMMA IirLoad ==
  ASSUME PathInv, NEW host \in Chars \cup {None}, Devices(host), Driving, Suspended,
         awaiting, handler = "iir", req_saved = UartAccess("IIR", FALSE, 0)
  PROVE  SoftInv' /\ Arrives(host)
<1>0. BusInv /\ UartInv
  BY DEF PathInv
<1>1. UartFire = req_saved /\ PlicFire = NoReq /\ UartFire # None
  BY DEF UartFire, PlicFire, Drives, Driving, UartAccess
<1>2. /\ ~UartFire.wen /\ UartFire.reg = "IIR"
      /\ \A reg : ~Posted(reg)
  BY <1>1 DEF UartAccess, Posted
<1>3. /\ ~LoadDone("iir") /\ \A step : LoadDone(step)' <=> step = "iir"
      /\ handler' = "iir" /\ main' = main /\ tx_seen' = tx_seen /\ sent' = sent
  BY DEF LoadDone, Driving, Suspended
<1>4. Serving /\ Serving' /\ pending = {} /\ in_service = {UartIrq}
  BY <1>3, ServingIsNotArmed DEF Serving
<1>5. pending' = {} /\ in_service' = {UartIrq}
  BY <1>0, <1>1, <1>4, PlicIdle DEF Level
<1>6. ProgramInv' /\ \A reg : ~Posted(reg)'
  BY SuspendedProgram
<1>7. ServiceInv'
  BY <1>3, <1>4, <1>5 DEF ServiceInv
<1>8. uart_irq /\ ~dlab /\ ier = IF main = 6 /\ ~Posted("IER") THEN {"RX", "TX"} ELSE {}
  BY <1>3 DEF PathInv, LineInv
<1>9. ier = {"RX", "TX"} /\ main = 6
  BY <1>2, <1>8 DEF uart_irq
<1>10. u_rdata' = IirValue
  BY <1>0, <1>1, <1>2, Firing DEF UartBus, uart_read_reg
<1>11. \/ IirCause = 4 /\ rx_valid /\ u_rdata' = 196
       \/ IirCause = 2 /\ ~rx_valid /\ tx_irq_pending /\ u_rdata' = 194
  BY <1>8, <1>9, <1>10 DEF IirValue, IirCause, uart_irq
<1>12. ~rx_pop(UartFire) /\ ~rx_clear(UartFire) /\ ~IerWrite(UartFire) /\ ~ThrWrite(UartFire)
       /\ ~WritesReg(UartFire, "LCR") /\ Reads(UartFire, "IIR")
  BY <1>1, <1>2 DEF rx_pop, rx_clear, IerWrite, ThrWrite, WritesReg, Reads
<1>13. (rx_valid => rx_valid') /\ Arrives(host)
  BY <1>0, <1>12, Firing, RxKept
<1>14. dlab' = dlab /\ ier' = ier
  BY <1>0, <1>12, Firing DEF UartRegisters
<1>15. thre_owed' = IF IirCause = 2 THEN FALSE ELSE thre_owed
  BY <1>0, <1>8, <1>12, Firing DEF UartHistory, TellsThre
<1>16. LineInv'
  <2>1. ier' = IF main' = 6 /\ ~Posted("IER")' THEN {"RX", "TX"} ELSE {}
    BY <1>3, <1>6, <1>9, <1>14
  <2> QED BY <1>3, <1>5, <1>8, <1>9, <1>11, <1>13, <1>14, <2>1 DEF LineInv
<1>17. TxInv'
  <2>1. /\ tx_seen <= sent + 1 /\ tx_seen \in Nat /\ sent \in Nat
        /\ tx_seen > sent => ~thre_owed /\ main = 6
        /\ tx_irq_pending => thre_owed
    BY DEF PathInv, TxInv, NeverKept, ProgramInv, UartInv, ThreInv, ThreReportedOnce
  <2>2. tx_seen > sent => u_rdata' = 196 /\ ~thre_owed'
    BY <1>11, <1>15, <2>1
  <2>3. u_rdata' = 194 => ~thre_owed'
    BY <1>11, <1>15
  <2> QED BY <1>3, <1>6, <2>1, <2>2, <2>3 DEF TxInv
<1> QED BY <1>6, <1>7, <1>13, <1>16, <1>17 DEF SoftInv

\* RBR: there is a character, and it is the oldest.
LEMMA RbrLoad ==
  ASSUME PathInv, NEW host \in Chars \cup {None}, Devices(host), Driving, Suspended,
         awaiting, handler = "rbr", req_saved = UartAccess("DATA", FALSE, 0)
  PROVE  /\ SoftInv' /\ rx_owed # <<>> /\ u_rdata' = Head(rx_owed)
         /\ rx_owed' = IF host = None THEN Tail(rx_owed) ELSE Append(Tail(rx_owed), host)
<1>0. BusInv /\ UartInv
  BY DEF PathInv
<1>1. UartFire = req_saved /\ PlicFire = NoReq /\ UartFire # None
  BY DEF UartFire, PlicFire, Drives, Driving, UartAccess
<1>2. /\ ~UartFire.wen /\ UartFire.reg = "DATA"
      /\ \A reg : ~Posted(reg)
  BY <1>1 DEF UartAccess, Posted
<1>3. /\ ~LoadDone("rbr") /\ \A step : LoadDone(step)' <=> step = "rbr"
      /\ handler' = "rbr" /\ main' = main /\ tx_seen' = tx_seen /\ sent' = sent
  BY DEF LoadDone, Driving, Suspended
<1>4. Serving /\ Serving' /\ pending = {} /\ in_service = {UartIrq}
  BY <1>3, ServingIsNotArmed DEF Serving
<1>5. pending' = {} /\ in_service' = {UartIrq}
  BY <1>0, <1>1, <1>4, PlicIdle DEF Level
<1>6. ProgramInv' /\ \A reg : ~Posted(reg)'
  BY SuspendedProgram
<1>7. ServiceInv'
  BY <1>3, <1>4, <1>5 DEF ServiceInv
<1>8. rx_valid /\ ~dlab /\ ier # {} /\ ier = IF main = 6 /\ ~Posted("IER") THEN {"RX", "TX"} ELSE {}
  BY <1>3 DEF PathInv, LineInv
<1>9. /\ rx_pop(UartFire) /\ ~rx_clear(UartFire) /\ ~IerWrite(UartFire) /\ ~ThrWrite(UartFire)
      /\ ~WritesReg(UartFire, "LCR") /\ ~Reads(UartFire, "IIR")
  BY <1>1, <1>2, <1>8 DEF rx_pop, rx_clear, IerWrite, ThrWrite, WritesReg, Reads
<1>10. /\ rx_owed' = IF host = None THEN Tail(rx_owed) ELSE Append(Tail(rx_owed), host)
       /\ thre_owed' = thre_owed
  BY <1>0, <1>9, Firing DEF UartHistory, TellsThre
<1>11. dlab' = dlab /\ ier' = ier
  BY <1>0, <1>9, Firing DEF UartRegisters
<1>12. u_rdata' = rx_fifo[rx_head]
  BY <1>0, <1>1, <1>2, <1>8, Firing DEF UartBus, uart_read_reg
<1>13. rx_owed # <<>> /\ rx_fifo[rx_head] = Head(rx_owed)
  <2>1. /\ rx_owed \in Seq(Chars) /\ rx_count = Len(rx_owed) /\ rx_count \in 0 .. Depth
        /\ rx_head \in 0 .. Depth - 1 /\ Depth \in Nat \ {0}
        /\ \A i \in 1 .. Len(rx_owed) : rx_fifo[(rx_head + i - 1) % Depth] = rx_owed[i]
    BY UartAssumption DEF PathInv, UartInv, RxType, RxFifoIsQueue
  <2>2. Len(rx_owed) \in Nat /\ 1 \in 1 .. Len(rx_owed)
    BY <1>8, <2>1 DEF rx_valid
  <2>3. rx_fifo[(rx_head + 1 - 1) % Depth] = rx_owed[1]
    BY <2>1, <2>2
  <2>4. (rx_head + 1 - 1) % Depth = rx_head
    BY <2>1
  <2> QED BY <2>1, <2>2, <2>3, <2>4
<1>14. LineInv'
  <2>1. ier' = IF main' = 6 /\ ~Posted("IER")' THEN {"RX", "TX"} ELSE {}
    BY <1>2, <1>3, <1>6, <1>8, <1>11
  <2> QED BY <1>3, <1>5, <1>8, <1>11, <2>1 DEF LineInv
<1>15. TxInv'
  BY <1>3, <1>6, <1>10 DEF PathInv, TxInv
<1> QED BY <1>6, <1>7, <1>10, <1>12, <1>13, <1>14, <1>15 DEF SoftInv

\* The completion: the gateway latches again from the next cycle on.
LEMMA CompleteStore ==
  ASSUME PathInv, NEW host \in Chars \cup {None}, Devices(host), Driving, Suspended,
         ~awaiting, handler = "none", req_saved = PlicAccess("CLAIM", TRUE, UartIrq)
  PROVE  SoftInv' /\ Arrives(host)
<1>0. BusInv /\ UartInv /\ ~dlab
  BY DEF PathInv, LineInv
<1>1. PlicFire = req_saved /\ UartFire = None /\ PlicFire # NoReq
  BY AccessAssumption DEF UartFire, PlicFire, Drives, Driving, PlicAccess
<1>2. /\ PlicFire.wen /\ PlicFire.reg = "CLAIM" /\ PlicFire.value = UartIrq
      /\ Posted("CLAIM") /\ ~Posted("IER") /\ ~Posted("DATA")
  BY <1>1 DEF PlicAccess, Posted
<1>3. Serving /\ pending = {} /\ in_service = {UartIrq} /\ ~Armed
  BY <1>2, ServingIsNotArmed DEF Serving
<1>4. /\ handler' = "none" /\ main' = main /\ tx_seen' = tx_seen /\ sent' = sent
      /\ \A step : ~LoadDone(step)
      /\ \A step : ~LoadDone(step)'
  BY <1>3 DEF LoadDone, Driving, Suspended
<1>5. Claimed(PlicFire) = {} /\ Completed(PlicFire) = {UartIrq}
  BY <1>1, <1>2 DEF Claimed, Completed, PlicWrites
<1>6. pending' = {} /\ in_service' = {}
  <2>1. /\ pending' = (pending \cup (Level \ in_service)) \ {}
        /\ in_service' = in_service \ {UartIrq}
    BY <1>0, <1>5, Firing DEF Pending, InService
  <2> QED BY <1>3, <2>1 DEF Level
<1>7. ProgramInv' /\ \A reg : ~Posted(reg)'
  BY SuspendedProgram
<1>8. ServiceInv'
  BY <1>4, <1>6, <1>7 DEF ServiceInv, Serving
<1>9. dlab' = dlab /\ ier' = ier /\ Arrives(host) /\ thre_owed' = thre_owed
  BY <1>0, <1>1, UartQuiet
<1>10. LineInv'
  <2>1. ~dlab /\ ier = IF main = 6 /\ ~Posted("IER") THEN {"RX", "TX"} ELSE {}
    BY DEF PathInv, LineInv
  <2>2. ier' = IF main' = 6 /\ ~Posted("IER")' THEN {"RX", "TX"} ELSE {}
    BY <1>2, <1>4, <1>7, <1>9, <2>1
  <2> QED BY <1>4, <1>6, <1>9, <2>1, <2>2 DEF LineInv
<1>11. TxInv'
  BY <1>4, <1>7, <1>9 DEF PathInv, TxInv
<1> QED BY <1>7, <1>8, <1>9, <1>10, <1>11 DEF SoftInv

LEMMA SetUpArrives ==
  ASSUME PathInv, NEW host \in Chars \cup {None}, Devices(host), Driving,
         ~awaiting, main < 6 \/ Posted("IER")
  PROVE  Arrives(host)
<1>0. BusInv /\ UartInv /\ AccessKinds
  BY KindsAre DEF PathInv, Driving
<1>1. ~rx_pop(UartFire) /\ ~rx_clear(UartFire)
  <2>1. CASE UartFire = None
    BY <2>1 DEF rx_pop, rx_clear, Reads, WritesReg
  <2>2. CASE UartFire # None
    <3>1. UartFire = req_saved /\ req_saved.dev = "UART"
      BY <2>2 DEF UartFire, Drives
    <3>2. req_saved.wen = TRUE /\ req_saved.reg = "IER"
      BY <1>0, <3>1 DEF AccessKinds, UartAccess, PlicAccess, Posted
    <3> QED BY <3>1, <3>2 DEF rx_pop, rx_clear, Reads, WritesReg
  <2> QED BY <2>1, <2>2
<1> QED BY <1>0, <1>1, Firing, RxKept

-----------------------------------------------------------------------------
\* The characters on their way: given' is what the host has delivered.
Delivered(host) == given' = IF host = None THEN given ELSE Append(given, host)

LEMMA OrderTypes ==
  ASSUME PathInv
  PROVE  /\ given \in Seq(Chars) /\ got \in Seq(Chars) /\ rx_owed \in Seq(Chars)
         /\ given = got \o InFlight \o rx_owed
         /\ LoadDone("rbr") => u_rdata \in Chars /\ InFlight = <<u_rdata>>
         /\ ~LoadDone("rbr") => InFlight = <<>>
         /\ None \notin Chars
<1>1. given \in Seq(Chars) /\ got \in Seq(Chars) /\ rx_owed \in Seq(Chars)
  BY DEF PathInv, OrderInv, UartInv, RxType
<1>2. given = got \o InFlight \o rx_owed /\ (LoadDone("rbr") => u_rdata \in Chars)
  BY DEF PathInv, OrderInv, ReceivedInOrder
<1>3. None \notin Chars
  BY UartAssumption
<1> QED BY <1>1, <1>2, <1>3 DEF LoadDone, InFlight

\* A character arrives behind whatever is in the ring and on the bus.
LEMMA SeqDelivered ==
  ASSUME NEW a \in Seq(Chars), NEW b \in Seq(Chars), rx_owed \in Seq(Chars),
         NEW host \in Chars \cup {None}, Arrives(host), Delivered(host),
         given = a \o b \o rx_owed
  PROVE  given' = a \o b \o rx_owed'
<1>1. CASE host = None
  BY <1>1 DEF Delivered, Arrives
<1>2. CASE host # None
  <2>1. rx_owed' = Append(rx_owed, host) /\ given' = Append(given, host) /\ host \in Chars
    BY <1>2 DEF Delivered, Arrives
  <2> QED BY <2>1, SeqArrives
<1> QED BY <1>1, <1>2

LEMMA DeliveredType ==
  ASSUME PathInv, NEW host \in Chars \cup {None}, Delivered(host)
  PROVE  given' \in Seq(Chars)
BY OrderTypes, AppendProperties DEF Delivered

LEMMA OrderKept ==
  ASSUME PathInv, NEW host \in Chars \cup {None}, Arrives(host), Delivered(host),
         ~LoadDone("rbr"), ~LoadDone("rbr")', got' = got
  PROVE  OrderInv'
<1>1. InFlight = <<>> /\ InFlight' = <<>> /\ <<>> \in Seq(Chars)
  BY OrderTypes DEF InFlight, LoadDone
<1>2. given' = got \o <<>> \o rx_owed'
  <2> DEFINE e == <<>>
  <2>1. e \in Seq(Chars) /\ given = got \o e \o rx_owed
    BY <1>1, OrderTypes
  <2> HIDE DEF e
  <2>2. given' = got \o e \o rx_owed'
    BY <2>1, OrderTypes, SeqDelivered
  <2> QED BY <2>2 DEF e
<1>3. given' = got' \o InFlight' \o rx_owed'
  BY <1>1, <1>2
<1> QED BY <1>3, OrderTypes, DeliveredType DEF OrderInv, ReceivedInOrder

LEMMA OrderTaken ==
  ASSUME PathInv, NEW host \in Chars \cup {None}, Delivered(host),
         ~LoadDone("rbr"), LoadDone("rbr")', got' = got,
         rx_owed # <<>>, u_rdata' = Head(rx_owed),
         rx_owed' = IF host = None THEN Tail(rx_owed) ELSE Append(Tail(rx_owed), host)
  PROVE  OrderInv'
<1> DEFINE one == <<u_rdata'>>
           rest == Tail(rx_owed)
<1>1. InFlight = <<>> /\ InFlight' = one
  BY OrderTypes DEF InFlight, LoadDone
<1>2. u_rdata' \in Chars /\ rest \in Seq(Chars) /\ one \in Seq(Chars)
  BY OrderTypes, HeadTailProperties
<1>3. given = got \o one \o rest
  BY <1>1, OrderTypes, SeqTaken
<1> HIDE DEF one, rest
<1>4. given' = got \o one \o rx_owed'
  <2>1. CASE host = None
    BY <1>3, <2>1 DEF Delivered, rest
  <2>2. CASE host # None
    <3>1. given' = Append(given, host) /\ host \in Chars /\ rx_owed' = Append(rest, host)
      BY <2>2 DEF Delivered, rest
    <3>2. Append(got \o one \o rest, host) = got \o one \o Append(rest, host)
      <4>1. got \in Seq(Chars)
        BY OrderTypes
      <4> QED BY <1>2, <3>1, <4>1, SeqArrives
    <3> QED BY <1>3, <3>1, <3>2
  <2> QED BY <2>1, <2>2
<1>5. ReceivedInOrder'
  BY <1>1, <1>4 DEF ReceivedInOrder
<1> QED BY <1>2, <1>5, OrderTypes, DeliveredType DEF OrderInv

LEMMA OrderHanded ==
  ASSUME PathInv, NEW host \in Chars \cup {None}, Arrives(host), Delivered(host),
         LoadDone("rbr"), ~LoadDone("rbr")', got' = Append(got, u_rdata)
  PROVE  OrderInv'
<1>1. InFlight = <<u_rdata>> /\ InFlight' = <<>> /\ u_rdata \in Chars /\ <<>> \in Seq(Chars)
  BY OrderTypes DEF InFlight, LoadDone
<1>2. got' \in Seq(Chars)
  BY <1>1, OrderTypes, AppendProperties
<1>3. given = got' \o <<>> \o rx_owed
  BY <1>1, OrderTypes, SeqHanded
<1>4. given' = got' \o <<>> \o rx_owed'
  <2> DEFINE e == <<>>
  <2>1. e \in Seq(Chars) /\ given = got' \o e \o rx_owed
    BY <1>1, <1>3
  <2> HIDE DEF e
  <2>2. given' = got' \o e \o rx_owed'
    BY <1>2, <2>1, OrderTypes, SeqDelivered
  <2> QED BY <2>2 DEF e
<1>5. given' = got' \o InFlight' \o rx_owed'
  BY <1>1, <1>4
<1> QED BY <1>1, <1>2, <1>5, DeliveredType DEF OrderInv, ReceivedInOrder

-----------------------------------------------------------------------------
(***************************************************************************)
(* Every cycle keeps PathInv.                                              *)
(***************************************************************************)
Software == Wait \/ MainStep \/ TakeInterrupt \/ HandlerStep \/ HandlerAnswer

\* A cycle in which no device sees an access.
LEMMA QuietCycle ==
  ASSUME PathInv, NEW host \in Chars \cup {None}, Devices(host), Software, ~Driving
  PROVE  SoftInv' /\ OrderInv'
<1>0. BusInv /\ ProgramInv /\ Quiet(host) /\ Arrives(host) /\ Delivered(host)
  BY QuietStep DEF PathInv, Devices, Delivered
<1>1. req_saved = None \/ req_issued
  BY DEF Driving
<1>2. ASSUME NEW r, MmioController(r)
      PROVE  /\ req_saved = None => req_saved' = r /\ req_issued' = FALSE
             /\ req_issued => req_saved' = None /\ req_issued' = FALSE /\ Answered
  BY <1>0, <1>2, BusStep
<1>3. CASE Wait
  <2>1. req_saved' = None /\ req_issued' = FALSE
    BY <1>1, <1>2, <1>3 DEF Wait
  <2>2. ~awaiting
    BY <1>1, <1>2, <1>3, IdleIs DEF Wait
  <2>3. UNCHANGED <<main, sent, tx_seen, awaiting>> /\ handler' = handler /\ got' = got
    BY <1>3 DEF Wait, softVars
  <2>4. SoftInv'
    BY <1>0, <2>1, <2>2, <2>3, QuietWait
  <2>5. OrderInv'
    BY <1>0, <2>2, <2>3, OrderKept DEF LoadDone
  <2> QED BY <2>4, <2>5
<1>4. CASE MainStep
  <2>1. req_saved = None /\ got' = got /\ handler' = "none" /\ handler = "none"
    BY <1>4 DEF MainStep, mmio_ready
  <2>2. req_saved' = MainReq /\ req_issued' = FALSE
    BY <1>2, <1>4, <2>1 DEF MainStep
  <2>3. SoftInv'
    BY <1>0, <1>4, <2>1, <2>2, IdleMain
  <2>4. OrderInv'
    BY <1>0, <2>1, OrderKept DEF LoadDone
  <2> QED BY <2>3, <2>4
<1>5. CASE TakeInterrupt
  <2>1. /\ handler = "none" /\ handler' = "claim" /\ Armed /\ main > 3 /\ got' = got
        /\ UNCHANGED <<main, sent, tx_seen, awaiting>>
    BY <1>5, SeipIsArmed DEF TakeInterrupt, InterruptsOn
  <2>2. ~awaiting
    BY <1>0, <2>1 DEF ProgramInv
  <2>3. req_saved' = None
    BY <1>1, <1>2, <1>5 DEF TakeInterrupt
  <2>4. SoftInv'
    BY <1>0, <2>1, <2>2, <2>3, QuietWait
  <2>5. OrderInv'
    BY <1>0, <2>1, OrderKept DEF LoadDone
  <2> QED BY <2>4, <2>5
<1>6. CASE HandlerStep
  <2>1. req_saved = None /\ got' = got /\ ~awaiting
    BY <1>6 DEF HandlerStep, mmio_ready
  <2>2. req_saved' = HandlerReq /\ req_issued' = FALSE
    BY <1>2, <1>6, <2>1 DEF HandlerStep
  <2>3. SoftInv'
    BY <1>0, <1>6, <2>1, <2>2, IdleHandler
  <2>4. OrderInv'
    BY <1>0, <2>1, <2>2, OrderKept DEF LoadDone
  <2> QED BY <2>3, <2>4
<1>7. CASE HandlerAnswer
  <2>1. req_issued /\ awaiting /\ awaiting' = FALSE
    BY <1>7 DEF HandlerAnswer, Answered
  <2>2. req_saved' = None /\ req_issued' = FALSE
    BY <1>2, <1>7, <2>1 DEF HandlerAnswer
  <2>3. SoftInv'
    BY <1>0, <1>7, <2>1, <2>2, HandlerAnswered
  <2>4. CASE handler = "rbr"
    <3>1. LoadDone("rbr") /\ ~LoadDone("rbr")' /\ got' = Append(got, u_rdata)
      BY <1>7, <2>1, <2>2, <2>4 DEF LoadDone, HandlerAnswer
    <3> QED BY <1>0, <2>3, <3>1, OrderHanded
  <2>5. CASE handler # "rbr"
    <3>1. ~LoadDone("rbr") /\ ~LoadDone("rbr")' /\ got' = got
      BY <1>7, <2>1, <2>2, <2>5 DEF LoadDone, HandlerAnswer
    <3> QED BY <1>0, <2>3, <3>1, OrderKept
  <2> QED BY <2>4, <2>5
<1> QED BY <1>3, <1>4, <1>5, <1>6, <1>7 DEF Software

\* A cycle in which a device sees an access.
LEMMA DrivingCycle ==
  ASSUME PathInv, NEW host \in Chars \cup {None}, Devices(host), Software, Driving
  PROVE  SoftInv' /\ OrderInv'
<1>0. BusInv /\ ProgramInv /\ Delivered(host) /\ req_saved # None /\ ~req_issued
  BY DEF PathInv, Devices, Delivered, Driving
<1>1. Suspended /\ got' = got
  <2>1. ~MainStep /\ ~HandlerStep /\ ~HandlerAnswer
    BY <1>0 DEF MainStep, HandlerStep, HandlerAnswer, mmio_ready, Answered
  <2>2. CASE Wait
    <3>1. req_saved' = req_saved /\ req_issued' = TRUE
      BY <1>0, <2>2, BusStep DEF Wait
    <3> QED BY <2>2, <3>1 DEF Wait, softVars, Suspended
  <2>3. CASE TakeInterrupt
    <3>1. req_saved' = req_saved /\ req_issued' = TRUE
      BY <1>0, <2>3, BusStep DEF TakeInterrupt
    <3> QED BY <2>3, <3>1, SeipIsArmed DEF TakeInterrupt, InterruptsOn, Suspended
  <2> QED BY <2>1, <2>2, <2>3 DEF Software
<1>2. ~LoadDone("rbr")
  BY <1>0 DEF LoadDone
<1>3. AccessKinds
  BY <1>0, KindsAre
<1>4. CASE ~awaiting /\ handler = "none" /\ req_saved = PlicAccess("CLAIM", TRUE, UartIrq)
  <2>1. SoftInv' /\ Arrives(host)
    BY <1>1, <1>4, CompleteStore
  <2>2. ~LoadDone("rbr")'
    BY <1>1, <1>4 DEF LoadDone, Suspended
  <2> QED BY <1>0, <1>1, <1>2, <2>1, <2>2, OrderKept
<1>5. CASE /\ ~awaiting
           /\ main < 6 \/ Posted("IER")
           /\ req_saved # PlicAccess("CLAIM", TRUE, UartIrq)
  <2>1. SoftInv' /\ Arrives(host)
    BY <1>1, <1>5, SetUpStore, SetUpArrives
  <2>2. ~LoadDone("rbr")'
    BY <1>1, <1>5 DEF LoadDone, Suspended
  <2> QED BY <1>0, <1>1, <1>2, <2>1, <2>2, OrderKept
<1>6. CASE ~awaiting /\ main = 6 /\ req_saved = UartAccess("DATA", TRUE, TxChar)
  <2>1. SoftInv' /\ Arrives(host)
    BY <1>1, <1>6, ThrStore
  <2>2. ~LoadDone("rbr")'
    BY <1>1, <1>6 DEF LoadDone, Suspended
  <2> QED BY <1>0, <1>1, <1>2, <2>1, <2>2, OrderKept
<1>7. CASE awaiting /\ handler = "claim" /\ req_saved = PlicAccess("CLAIM", FALSE, 0)
  <2>1. SoftInv' /\ Arrives(host)
    BY <1>1, <1>7, ClaimLoad
  <2>2. ~LoadDone("rbr")'
    BY <1>1, <1>7 DEF LoadDone, Suspended
  <2> QED BY <1>0, <1>1, <1>2, <2>1, <2>2, OrderKept
<1>8. CASE awaiting /\ handler = "iir" /\ req_saved = UartAccess("IIR", FALSE, 0)
  <2>1. SoftInv' /\ Arrives(host)
    BY <1>1, <1>8, IirLoad
  <2>2. ~LoadDone("rbr")'
    BY <1>1, <1>8 DEF LoadDone, Suspended
  <2> QED BY <1>0, <1>1, <1>2, <2>1, <2>2, OrderKept
<1>9. CASE awaiting /\ handler = "rbr" /\ req_saved = UartAccess("DATA", FALSE, 0)
  <2>1. /\ SoftInv' /\ rx_owed # <<>> /\ u_rdata' = Head(rx_owed)
        /\ rx_owed' = IF host = None THEN Tail(rx_owed) ELSE Append(Tail(rx_owed), host)
    BY <1>1, <1>9, RbrLoad
  <2>2. LoadDone("rbr")'
    BY <1>1, <1>9 DEF LoadDone, Suspended
  <2> QED BY <1>0, <1>1, <1>2, <2>1, <2>2, OrderTaken
<1>10. \/ ~awaiting /\ main < 6
       \/ ~awaiting /\ Posted("IER")
       \/ ~awaiting /\ main = 6 /\ req_saved = UartAccess("DATA", TRUE, TxChar)
       \/ awaiting /\ handler = "claim" /\ req_saved = PlicAccess("CLAIM", FALSE, 0)
       \/ awaiting /\ handler = "iir" /\ req_saved = UartAccess("IIR", FALSE, 0)
       \/ awaiting /\ handler = "rbr" /\ req_saved = UartAccess("DATA", FALSE, 0)
       \/ ~awaiting /\ handler = "none" /\ req_saved = PlicAccess("CLAIM", TRUE, UartIrq)
  <2>1. req_saved = UartAccess("IER", TRUE, {"RX", "TX"}) => Posted("IER")
    BY DEF Posted, UartAccess
  <2>2. main = 2 \/ main = 3 \/ main = 4 \/ main = 5 => main < 6
    OBVIOUS
  <2> QED BY <1>3, <2>1, <2>2, Zenon DEF AccessKinds
<1>11. req_saved = PlicAccess("CLAIM", TRUE, UartIrq) /\ ~awaiting => handler = "none"
  BY <1>3 DEF AccessKinds, UartAccess, PlicAccess
<1> QED BY <1>4, <1>5, <1>6, <1>7, <1>8, <1>9, <1>10, <1>11

LEMMA PathStep ==
  ASSUME PathInv, NEW host \in Chars \cup {None}, Devices(host), Software
  PROVE  PathInv'
<1>1. UartInv' /\ PlicTypeOK' /\ ServedOnce'
  BY DevicesKeep
<1>2. BusInv'
  BY BusStep DEF PathInv, Software, Wait, MainStep, TakeInterrupt, HandlerStep, HandlerAnswer
<1>3. SoftInv' /\ OrderInv'
  BY QuietCycle, DrivingCycle
<1>4. NeverKept'
  <2>1. BusInv /\ ~dlab /\ ~thre_kept
    BY DEF PathInv, LineInv, NeverKept
  <2>2. UartHistory(UartFire, host)
    BY <2>1, Firing
  <2> QED BY <2>1, <2>2 DEF UartHistory, NeverKept
<1> QED BY <1>1, <1>2, <1>3, <1>4 DEF PathInv, SoftInv

LEMMA PathInit == Init => PathInv
<1> SUFFICES ASSUME Init PROVE PathInv
  OBVIOUS
<1>1. UartInv /\ PlicTypeOK /\ ServedOnce
  BY UartInitOK, PlicInitOK DEF Init
<1>2. /\ req_saved = None /\ req_issued = FALSE /\ awaiting = FALSE /\ handler = "none"
      /\ main = 1 /\ sent = 0 /\ tx_seen = 0 /\ given = <<>> /\ got = <<>> /\ rx_owed = <<>>
      /\ pending = {} /\ in_service = {} /\ dlab = FALSE /\ ier = {} /\ thre_owed = FALSE
  BY DEF Init, UartInit, PlicInit
<1>3. /\ \A step : ~LoadDone(step)
      /\ \A reg : ~Posted(reg)
  BY <1>2 DEF LoadDone, Posted, Driving
<1>4. BusInv
  BY DEF Init, UartInit, PlicInit, BusInv
<1>5. awaiting \in BOOLEAN
  BY <1>2
<1>6. ProgramInv
  BY <1>2, <1>5 DEF ProgramInv
<1>7. ServiceInv
  BY <1>2, <1>3 DEF ServiceInv, Serving
<1>8. LineInv
  BY <1>2, <1>3 DEF LineInv
<1>9. TxInv
  BY <1>2, <1>3 DEF TxInv
<1>10. InFlight = <<>>
  BY <1>2 DEF InFlight
<1>11. OrderInv
  BY <1>2, <1>3, <1>10 DEF OrderInv, ReceivedInOrder
<1>12. NeverKept
  BY DEF Init, UartInit, NeverKept
<1> QED BY <1>1, <1>4, <1>6, <1>7, <1>8, <1>9, <1>11, <1>12 DEF PathInv

LEMMA PathStutter ==
  ASSUME PathInv, UNCHANGED vars
  PROVE  PathInv'
<1>1. UNCHANGED uartVars /\ UNCHANGED plicVars
  BY DEF vars
<1>2. UartInv'
  BY <1>1 DEF PathInv, uartVars, UartInv, RxType, RegType, RxFifoIsQueue, ThreInv, ThreReportedOnce
<1>3. PlicTypeOK' /\ ServedOnce'
  BY <1>1 DEF PathInv, plicVars, PlicTypeOK, ServedOnce
<1>4. UNCHANGED <<req_saved, req_issued, main, sent, tx_seen, handler, awaiting, given, got>>
  BY DEF vars, softVars
<1>5. /\ u_wait' = u_wait /\ u_rvalid' = u_rvalid /\ u_rdata' = u_rdata /\ rx_owed' = rx_owed
      /\ dlab' = dlab /\ ier' = ier /\ thre_owed' = thre_owed /\ rx_count' = rx_count
      /\ tx_irq_pending' = tx_irq_pending
  BY <1>1 DEF uartVars
<1>6. /\ p_wait' = p_wait /\ p_rvalid' = p_rvalid /\ p_rdata' = p_rdata
      /\ pending' = pending /\ in_service' = in_service /\ enable' = enable
      /\ threshold' = threshold /\ irq_priority' = irq_priority
  BY <1>1 DEF plicVars
<1>7. BusInv'
  BY <1>4, <1>5, <1>6 DEF PathInv, BusInv
<1>8. ProgramInv'
  <2>1. HandlerReq' = HandlerReq /\ SetUp' = SetUp
        /\ UartAccess("DATA", TRUE, TxChar)' = UartAccess("DATA", TRUE, TxChar)
        /\ PlicAccess("CLAIM", TRUE, UartIrq)' = PlicAccess("CLAIM", TRUE, UartIrq)
    BY <1>4 DEF HandlerReq, SetUp, UartAccess, PlicAccess
  <2> QED BY <1>4, <2>1 DEF PathInv, ProgramInv
<1>9. /\ \A step : LoadDone(step)' = LoadDone(step)
      /\ \A reg : Posted(reg)' = Posted(reg)
  BY <1>4 DEF LoadDone, Posted, Driving
<1>10. ServiceInv'
  BY <1>4, <1>6, <1>9 DEF PathInv, ServiceInv, Serving
<1>11. LineInv'
  <2>1. uart_irq' = uart_irq /\ rx_valid' = rx_valid
    BY <1>5 DEF uart_irq, rx_valid
  <2> QED BY <1>4, <1>5, <1>6, <1>9, <2>1 DEF PathInv, LineInv
<1>12. TxInv'
  BY <1>4, <1>5, <1>9 DEF PathInv, TxInv
<1>13. OrderInv'
  BY <1>4, <1>5, <1>9 DEF PathInv, OrderInv, ReceivedInOrder, InFlight
<1>14. NeverKept'
  BY <1>1 DEF PathInv, NeverKept, uartVars
<1> QED BY <1>2, <1>3, <1>7, <1>8, <1>10, <1>11, <1>12, <1>13, <1>14 DEF PathInv

LEMMA PathInductive == Spec => []PathInv
<1>1. PathInv /\ [Next]_vars => PathInv'
  <2> SUFFICES ASSUME PathInv, [Next]_vars PROVE PathInv'
    OBVIOUS
  <2>1. CASE Next
    <3>1. PICK host \in Host : Devices(host) /\ Software
      BY <2>1 DEF Next, Cycle, Software
    <3>2. host \in Chars \cup {None}
      BY DEF Host
    <3> QED BY <3>1, <3>2, PathStep
  <2>2. CASE UNCHANGED vars
    BY <2>2, PathStutter
  <2> QED BY <2>1, <2>2
<1> QED BY <1>1, PathInit, PTL DEF Spec

\* Whatever the FIFO depth, the number of sources, the characters and the
\* interleaving of main, handler and host: a claim of the handler returns the
\* UART's source and its read of IIR a cause, if the handler masks IIR.  Those
\* of the tests do not (TestsFail).
THEOREM CauseIsFound == MasksIir => (Spec => []HandlerFindsCause)
<1> SUFFICES ASSUME MasksIir PROVE Spec => []HandlerFindsCause
  OBVIOUS
<1>1. PathInv => HandlerFindsCause
  BY DEF PathInv, ProgramInv, HandlerFindsCause
<1> QED BY <1>1, PathInductive, PTL

\* The handlers of the tests get past no interrupt, whatever the devices do: the
\* UART never answers a read of IIR with the bare cause they compare it with.
THEOREM TestsFail == Spec => []TestsAcceptNothing
<1>1. Init => TestsAcceptNothing
  BY DEF Init, TestsAcceptNothing
<1>2. PathInv /\ TestsAcceptNothing /\ [Next]_vars => TestsAcceptNothing'
  <2> SUFFICES ASSUME PathInv, TestsAcceptNothing, [Next]_vars, ~MasksIir
               PROVE  /\ handler' \notin {"rbr", "complete"}
                      /\ tx_seen' = 0 /\ got' = <<>>
    BY DEF TestsAcceptNothing
  <2>1. handler \notin {"rbr", "complete"} /\ tx_seen = 0 /\ got = <<>>
    BY DEF TestsAcceptNothing
  <2>2. CASE Wait \/ UNCHANGED vars
    BY <2>1, <2>2 DEF Wait, softVars, vars
  <2>3. CASE MainStep \/ TakeInterrupt \/ HandlerStep
    BY <2>1, <2>3 DEF MainStep, TakeInterrupt, HandlerStep
  <2>4. CASE HandlerAnswer
    <3>1. CASE handler = "claim"
      BY <2>1, <2>4, <3>1 DEF HandlerAnswer
    <3>2. CASE handler = "iir"
      <4>1. u_rdata = 194 \/ u_rdata = 196
        BY <2>4, <3>2 DEF HandlerAnswer, Answered, LoadDone, PathInv, LineInv
      <4>2. iir # 4 /\ iir # 2
        BY <4>1 DEF iir
      <4> QED BY <2>1, <2>4, <3>2, <4>2 DEF HandlerAnswer
    <3> QED BY <2>1, <2>4, <3>1, <3>2 DEF HandlerAnswer
  <2> QED BY <2>2, <2>3, <2>4 DEF Next, Cycle
<1> QED BY <1>1, <1>2, PathInductive, PTL DEF Spec

\* The handler reads what the host delivered, in its order, each character
\* once, also the one that is between the UART and the core, whether it masks
\* IIR or not.
THEOREM OrderIsKept == Spec => []ReceivedInOrder
<1>1. PathInv => ReceivedInOrder
  BY DEF PathInv, OrderInv
<1> QED BY <1>1, PathInductive, PTL
=============================================================================
