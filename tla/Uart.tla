-------------------------------- MODULE Uart --------------------------------
(***************************************************************************)
(* The UART of src/uart_ns16550.sv, one step per clock cycle: the receive  *)
(* FIFO that the host fills, the transmit-empty (THRE) interrupt, and the  *)
(* registers the bus reads and writes.                                     *)
(*                                                                         *)
(*  - A request has reg, wen and value.  Registers that share an address   *)
(*    have one name: "DATA" is RBR, THR and DLL, "IER" also DLM, "IIR"     *)
(*    also FCR.  A store always enables the byte it addresses.             *)
(*  - dlab is lcr[7], ier the set of enabled interrupts.  DLL, DLM, FCR,   *)
(*    MCR, SCR and the other LCR bits are storage nothing looks at: a read *)
(*    of one answers 0 here.                                               *)
(*  - host is the character that get_input hands over, or None.            *)
(*  - rx_owed, thre_owed, thre_kept are history variables: the characters  *)
(*    received and not yet read, whether software still has to be told     *)
(*    that the transmitter is empty, and whether it was last told by a     *)
(*    read of IIR with DLAB set.                                           *)
(***************************************************************************)
EXTENDS Integers, Sequences

CONSTANTS
  Depth,        \* RX_FIFO_DEPTH
  Chars, NoChar,
  UartReqs,     \* the accesses software makes
  None

\* An access that makes sense to the UART: what is written is a set of enables
\* or the one bit of FCR and LCR that matters.
UartAccessOK(r) ==
  /\ r.wen \in BOOLEAN
  /\ r.wen /\ r.reg = "IER" => r.value \subseteq {"RX", "TX"}
  /\ r.wen /\ r.reg \in {"IIR", "LCR"} => r.value \in BOOLEAN

ASSUME UartAssumption ==
  /\ Depth \in Nat \ {0}
  /\ NoChar \notin Chars
  /\ None \notin Chars /\ None \notin UartReqs
  /\ \A r \in UartReqs : UartAccessOK(r)

VARIABLES
  dlab, ier,
  rx_fifo, rx_head, rx_tail, rx_count,
  tx_irq_pending, tx_empty_event,
  u_wait,                               \* bus_wait_valid_low
  u_rvalid, u_rdata,
  rx_owed, thre_owed, thre_kept

uartVars == <<dlab, ier, rx_fifo, rx_head, rx_tail, rx_count, tx_irq_pending,
              tx_empty_event, u_wait, u_rvalid, u_rdata, rx_owed, thre_owed,
              thre_kept>>

rx_valid == rx_count # 0
uart_irq == (rx_valid /\ "RX" \in ier) \/ (tx_irq_pending /\ "TX" \in ier)

\* The two high bits say that the FIFOs are on.
IirCause == IF rx_valid /\ "RX" \in ier THEN 4
            ELSE IF tx_irq_pending /\ "TX" \in ier THEN 2 ELSE 1
IirValue == 192 + IirCause

uart_read_reg(reg) ==
  CASE reg = "DATA" /\ ~dlab -> rx_fifo[rx_head]
    [] reg = "IER" /\ ~dlab  -> ier
    [] reg = "IIR"           -> IirValue
    [] reg = "LCR"           -> dlab
    [] reg = "LSR"           -> rx_valid
    [] OTHER                 -> 0

-----------------------------------------------------------------------------
(***************************************************************************)
(* One cycle.  fire is the request on the bus in this cycle, or None:      *)
(* membus.valid && !bus_wait_valid_low.                                    *)
(***************************************************************************)
Reads(fire, reg) == fire # None /\ ~fire.wen /\ fire.reg = reg
WritesReg(fire, reg) == fire # None /\ fire.wen /\ fire.reg = reg

rx_pop(fire) == Reads(fire, "DATA") /\ ~dlab /\ rx_valid
rx_clear(fire) == WritesReg(fire, "IIR") /\ fire.value

IirAlwaysClears(fire) == Reads(fire, "IIR") /\ ~dlab
IirNeverClears(fire) == FALSE

iir_reports_thre(fire) ==
  /\ Reads(fire, "IIR") /\ ~dlab
  /\ ~(rx_valid /\ "RX" \in ier) /\ tx_irq_pending /\ "TX" \in ier

ThrWrite(fire) == WritesReg(fire, "DATA") /\ ~dlab
IerWrite(fire) == WritesReg(fire, "IER") /\ ~dlab

\* get_input is asked only when there is room after this cycle's read.
TakesInput(fire) == rx_count - (IF rx_pop(fire) THEN 1 ELSE 0) < Depth

RxNext(i) == (i + 1) % Depth

RxPopWins(fire, host) ==
  LET push == host # None /\ ~rx_pop(fire) IN
  /\ rx_fifo' = IF push THEN [rx_fifo EXCEPT ![rx_tail] = host] ELSE rx_fifo
  /\ IF rx_clear(fire) THEN rx_head' = 0 /\ rx_tail' = 0 /\ rx_count' = 0
     ELSE /\ rx_head' = IF rx_pop(fire) THEN RxNext(rx_head) ELSE rx_head
          /\ rx_tail' = IF push THEN RxNext(rx_tail) ELSE rx_tail
          /\ rx_count' = rx_count + (IF push THEN 1 ELSE 0) - (IF rx_pop(fire) THEN 1 ELSE 0)

\* rx_clear wins over a push and a pop of the same cycle.
RxFifo(fire, host) ==
  LET push == host # None
      pop  == rx_pop(fire) IN
  IF rx_clear(fire)
    THEN rx_head' = 0 /\ rx_tail' = 0 /\ rx_count' = 0 /\ UNCHANGED rx_fifo
    ELSE /\ rx_fifo' = IF push THEN [rx_fifo EXCEPT ![rx_tail] = host] ELSE rx_fifo
         /\ rx_head' = IF pop THEN RxNext(rx_head) ELSE rx_head
         /\ rx_tail' = IF push THEN RxNext(rx_tail) ELSE rx_tail
         /\ rx_count' = rx_count + (IF push THEN 1 ELSE 0) - (IF pop THEN 1 ELSE 0)

\* The event of the cycle after a THR write raises the interrupt; the
\* assignments of a bus access in the same cycle come later and win.
TxIrq(fire) ==
  /\ tx_irq_pending' =
       IF ThrWrite(fire) THEN FALSE
       ELSE IF IerWrite(fire) /\ "TX" \notin fire.value THEN FALSE
       ELSE IF IerWrite(fire) /\ "TX" \notin ier THEN TRUE
       ELSE IF iir_reports_thre(fire) THEN FALSE
       ELSE tx_irq_pending \/ (tx_empty_event /\ "TX" \in ier)
  /\ tx_empty_event' = ThrWrite(fire)

UartBus(valid, fire) ==
  /\ u_wait' = (valid /\ (fire # None \/ u_wait))
  /\ u_rvalid' = (fire # None)
  /\ u_rdata' = IF fire # None THEN uart_read_reg(fire.reg) ELSE 0

UartRegisters(fire) ==
  /\ dlab' = IF WritesReg(fire, "LCR") THEN fire.value ELSE dlab
  /\ ier' = IF IerWrite(fire) THEN fire.value ELSE ier

\* IIR answers the same with DLAB set and clear, so software learns from
\* either that the transmitter is empty.
TellsThre(fire) == Reads(fire, "IIR") /\ IirCause = 2

UartHistory(fire, host) ==
  LET rest == IF rx_pop(fire) THEN Tail(rx_owed) ELSE rx_owed IN
  /\ rx_owed' = IF rx_clear(fire) THEN <<>>
                ELSE IF host # None THEN Append(rest, host) ELSE rest
  /\ thre_owed' = IF ThrWrite(fire) THEN "TX" \in ier
                  ELSE IF IerWrite(fire) THEN "TX" \in fire.value /\ (thre_owed \/ "TX" \notin ier)
                  ELSE IF TellsThre(fire) THEN FALSE
                  ELSE thre_owed
  /\ thre_kept' = IF ThrWrite(fire) THEN FALSE
                  ELSE IF IerWrite(fire) THEN thre_kept /\ "TX" \in fire.value /\ "TX" \in ier
                  ELSE IF TellsThre(fire) THEN dlab
                  ELSE thre_kept

UartClock(req, host) ==
  LET fire == IF u_wait THEN None ELSE req IN
  /\ host # None => TakesInput(fire)
  /\ UartBus(req # None, fire)
  /\ RxFifo(fire, host)
  /\ TxIrq(fire)
  /\ UartRegisters(fire)
  /\ UartHistory(fire, host)

UartInit ==
  /\ dlab = FALSE /\ ier = {}
  /\ rx_fifo = [i \in 0 .. Depth - 1 |-> NoChar]
  /\ rx_head = 0 /\ rx_tail = 0 /\ rx_count = 0
  /\ tx_irq_pending = FALSE /\ tx_empty_event = FALSE
  /\ u_wait = FALSE /\ u_rvalid = FALSE /\ u_rdata = 0
  /\ rx_owed = <<>> /\ thre_owed = FALSE /\ thre_kept = FALSE

\* The UART alone: any access and any host input in any cycle.
UartNext == \E req \in UartReqs \cup {None}, host \in Chars \cup {None} : UartClock(req, host)

UartSpec == UartInit /\ [][UartNext]_uartVars

-----------------------------------------------------------------------------
(***************************************************************************)
(* Properties.                                                             *)
(***************************************************************************)

\* Every register holds a value of its type; the FIFO never overflows.
UartTypeOK ==
  /\ dlab \in BOOLEAN /\ ier \subseteq {"RX", "TX"}
  /\ rx_fifo \in [0 .. Depth - 1 -> Chars \cup {NoChar}]
  /\ rx_head \in 0 .. Depth - 1 /\ rx_tail \in 0 .. Depth - 1 /\ rx_count \in 0 .. Depth
  /\ tx_irq_pending \in BOOLEAN /\ tx_empty_event \in BOOLEAN
  /\ u_wait \in BOOLEAN /\ u_rvalid \in BOOLEAN
  /\ rx_owed \in Seq(Chars) /\ thre_owed \in BOOLEAN /\ thre_kept \in BOOLEAN

\* The ring holds exactly the characters received and not yet read, oldest
\* first: none is lost, repeated or reordered when software reads RBR in the
\* cycle in which the host delivers, on an empty and on a full ring.
RxFifoIsQueue ==
  /\ rx_count = Len(rx_owed)
  /\ rx_tail = (rx_head + rx_count) % Depth
  /\ \A i \in 1 .. Len(rx_owed) : rx_fifo[(rx_head + i - 1) % Depth] = rx_owed[i]

\* Software that waits for the transmitter is told: after a THR write or an
\* enabling IER write the interrupt is pending, or will be in the next cycle,
\* until a read of IIR has reported it or software turned it off.  It is told
\* once: the interrupt is not pending again afterwards, unless that read was
\* made with DLAB set.  Such a read is answered like any other, but it does not
\* clear the interrupt (iir_read asks for !lcr[7]), and software is told again.
ThreReportedOnce ==
  /\ thre_owed => "TX" \in ier /\ (tx_irq_pending \/ tx_empty_event)
  /\ tx_irq_pending => thre_owed \/ thre_kept
=============================================================================
