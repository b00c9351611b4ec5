------------------------------ MODULE IrqPath -------------------------------
(***************************************************************************)
(* The external interrupt path, one step per clock cycle: the UART raises  *)
(* a source of the PLIC (src/top.sv), the PLIC raises seip, and supervisor *)
(* software reaches both through mmio_controller.sv.                       *)
(*                                                                         *)
(* The software is that of core/test/uart_rx_seip.c and uart_tx_seip.c in  *)
(* one program, with both interrupts enabled: main sets up PLIC and UART   *)
(* and then sends MaxTx characters, each after the transmit interrupt of   *)
(* the one before; the handler claims, reads IIR, reads RBR if there is a  *)
(* character, and completes.  A store is done for the software when the    *)
(* controller has taken it (it is posted), a load when it is answered.     *)
(*                                                                         *)
(*  - MasksIir says which handler runs.  That of the tests compares the    *)
(*    whole byte of IIR with the cause and calls fail() when they differ   *)
(*    (MasksIir = FALSE).  A driver for an ns16550 takes the cause from    *)
(*    the low bits, because the high ones say that the FIFOs are on        *)
(*    (MasksIir = TRUE); it is not in the repository.                      *)
(*                                                                         *)
(*  - given, got are history variables: the characters the host delivered  *)
(*    and those the handler read.  MaxRx bounds the characters delivered.  *)
(***************************************************************************)
EXTENDS Uart, Plic

CONSTANTS UartIrq, MaxTx, MaxRx, TxChar, MasksIir

ASSUME IrqPathAssumption ==
  /\ UartIrq \in LowWord
  /\ MaxTx \in Nat /\ MaxRx \in Nat
  /\ TxChar \in Chars
  /\ MasksIir \in BOOLEAN

VARIABLES
  req_saved, req_issued,      \* mmio_controller; req_saved.valid is req_saved # None
  main, sent, tx_seen,        \* step of the set-up, THR writes, transmit interrupts
  handler, awaiting,          \* step of the handler, a load of it is outstanding
  given, got

softVars == <<main, sent, tx_seen, handler, awaiting>>
vars == <<uartVars, plicVars, req_saved, req_issued, softVars, given, got>>

-----------------------------------------------------------------------------
(***************************************************************************)
(* Software.                                                               *)
(***************************************************************************)
UartAccess(reg, wen, value) == [dev |-> "UART", reg |-> reg, wen |-> wen, value |-> value]
PlicAccess(reg, wen, value) ==
  [dev |-> "PLIC", reg |-> reg, wen |-> wen, ctx |-> "S", irq |-> UartIrq, value |-> value]

\* supervisor_main up to its first wait; sie and sstatus are written after
\* the third access.
SetUp == <<PlicAccess("PRIORITY", TRUE, 1), PlicAccess("ENABLE", TRUE, {UartIrq}),
           PlicAccess("THRESHOLD", TRUE, 0), UartAccess("IER", TRUE, {}),
           UartAccess("IER", TRUE, {"RX", "TX"})>>
InterruptsOn == main > 3

\* wait_for_irq_count lets main send the next character.
MainReq == IF main <= Len(SetUp) THEN SetUp[main] ELSE UartAccess("DATA", TRUE, TxChar)
MainWants == main <= Len(SetUp) \/ (sent < MaxTx /\ tx_seen > sent)

HandlerReq ==
  CASE handler = "claim"    -> PlicAccess("CLAIM", FALSE, 0)
    [] handler = "iir"      -> UartAccess("IIR", FALSE, 0)
    [] handler = "rbr"      -> UartAccess("DATA", FALSE, 0)
    [] handler = "complete" -> PlicAccess("CLAIM", TRUE, UartIrq)

\* No access looks like the absence of one.
ASSUME AccessAssumption ==
  LET Access(r) == r # None /\ r # NoReq IN
  /\ \A i \in 1 .. Len(SetUp) : Access(SetUp[i])
  /\ Access(UartAccess("DATA", TRUE, TxChar))
  /\ Access(PlicAccess("CLAIM", FALSE, 0)) /\ Access(PlicAccess("CLAIM", TRUE, UartIrq))
  /\ Access(UartAccess("IIR", FALSE, 0)) /\ Access(UartAccess("DATA", FALSE, 0))

-----------------------------------------------------------------------------
(***************************************************************************)
(* mmio_controller: one request, driven until its device takes it.         *)
(***************************************************************************)
mmio_ready == req_saved = None
Drives(dev) == req_saved # None /\ ~req_issued /\ req_saved.dev = dev
device_ready == IF req_saved.dev = "UART" THEN ~u_wait ELSE ~p_wait
device_rvalid == IF req_saved.dev = "UART" THEN u_rvalid ELSE p_rvalid
Answered == req_saved # None /\ req_issued /\ device_rvalid

MmioController(req) ==
  IF mmio_ready
    THEN req_saved' = req /\ req_issued' = FALSE
    ELSE /\ req_saved' = IF Answered THEN None ELSE req_saved
         /\ req_issued' = (~Answered /\ (req_issued \/ device_ready))

-----------------------------------------------------------------------------
(***************************************************************************)
(* What the software does in a cycle.                                      *)
(***************************************************************************)
Wait ==
  /\ ~(awaiting /\ Answered)
  /\ MmioController(None)
  /\ UNCHANGED <<softVars, got>>

\* main issues its next store.
MainStep ==
  /\ handler = "none" /\ MainWants /\ mmio_ready
  /\ MmioController(MainReq)
  /\ IF main <= Len(SetUp) THEN main' = main + 1 /\ UNCHANGED sent
                           ELSE sent' = sent + 1 /\ UNCHANGED main
  /\ UNCHANGED <<tx_seen, handler, awaiting, got>>

\* The core takes the interrupt.
TakeInterrupt ==
  /\ handler = "none" /\ InterruptsOn /\ seip
  /\ handler' = "claim"
  /\ MmioController(None)
  /\ UNCHANGED <<main, sent, tx_seen, awaiting, got>>

\* The handler issues its next access.
HandlerStep ==
  /\ handler \notin {"none", "fail"} /\ ~awaiting /\ mmio_ready
  /\ MmioController(HandlerReq)
  /\ awaiting' = ~HandlerReq.wen
  /\ handler' = IF HandlerReq.wen THEN "none" ELSE handler
  /\ UNCHANGED <<main, sent, tx_seen, got>>

\* The handler's iir, and a load of the handler that is answered.
iir == IF MasksIir THEN u_rdata % 16 ELSE u_rdata

HandlerAnswer ==
  /\ awaiting /\ Answered
  /\ MmioController(None)
  /\ awaiting' = FALSE
  /\ \/ /\ handler = "claim"
        /\ handler' = IF p_rdata = UartIrq THEN "iir" ELSE "fail"
        /\ UNCHANGED <<tx_seen, got>>
     \/ /\ handler = "iir"
        /\ handler' = CASE iir = 4 -> "rbr"
                        [] iir = 2 -> "complete"
                        [] OTHER   -> "fail"
        /\ tx_seen' = tx_seen + (IF iir = 2 THEN 1 ELSE 0)
        /\ UNCHANGED got
     \/ /\ handler = "rbr"
        /\ handler' = "complete"
        /\ got' = Append(got, u_rdata)
        /\ UNCHANGED tx_seen
  /\ UNCHANGED <<main, sent>>

\* The devices see the request that the controller drives; the UART's line
\* is the only source of the PLIC.
Devices(host) ==
  /\ UartClock(IF Drives("UART") THEN req_saved ELSE None, host)
  /\ PlicClock(IF Drives("PLIC") THEN req_saved ELSE NoReq,
               IF uart_irq THEN {UartIrq} ELSE {})
  /\ given' = IF host = None THEN given ELSE Append(given, host)

Host == IF Len(given) < MaxRx THEN Chars \cup {None} ELSE {None}

Cycle(step) == step /\ \E host \in Host : Devices(host)

Init ==
  /\ UartInit /\ PlicInit
  /\ req_saved = None /\ req_issued = FALSE
  /\ main = 1 /\ sent = 0 /\ tx_seen = 0
  /\ handler = "none" /\ awaiting = FALSE
  /\ given = <<>> /\ got = <<>>

Next ==
  \/ Cycle(Wait)
  \/ Cycle(MainStep)
  \/ Cycle(TakeInterrupt)
  \/ Cycle(HandlerStep)
  \/ Cycle(HandlerAnswer)

Spec == Init /\ [][Next]_vars

\* The clock ticks and the core executes: an interrupt that stays pending is
\* taken, and the program's next access is made.
FairSpec ==
  /\ Spec
  /\ WF_vars(Next)
  /\ WF_vars(Cycle(MainStep))
  /\ WF_vars(Cycle(TakeInterrupt))
  /\ WF_vars(Cycle(HandlerStep))

-----------------------------------------------------------------------------
(***************************************************************************)
(* Properties.                                                             *)
(***************************************************************************)

\* Every interrupt has a cause when its handler looks, and fail() is never
\* called: the claim returns the UART's source and IIR a cause, although the
\* PLIC latches the line before the handler runs and the cause can change in
\* between.  It holds for the driver that masks IIR.
HandlerFindsCause == handler # "fail"

\* The handlers of the tests, which do not mask IIR, accept no interrupt: each
\* one they take ends in fail(), because IIR is 0xC2 or 0xC4 and never the bare
\* 0x02 (uart_tx_seip.c) or 0x04 (uart_rx_seip.c) they ask for.
TestsAcceptNothing ==
  ~MasksIir => handler \notin {"rbr", "complete"} /\ tx_seen = 0 /\ got = <<>>

InFlight == IF handler = "rbr" /\ awaiting /\ req_issued THEN <<u_rdata>> ELSE <<>>

\* The handler reads the characters in the order in which the host delivered
\* them, each once, also while one is on its way from the UART to the core.
ReceivedInOrder == given = got \o InFlight \o rx_owed

\* Every character that arrives is eventually read by the driver that masks
\* IIR: no receive interrupt is lost between FIFO, gateway, claim and
\* completion.
AllReceived == (given # got) ~> (given = got)

\* The sender, again with the driver that masks IIR, never waits for ever:
\* each THR write is followed by a transmit interrupt, whatever receive
\* interrupts come between.
AllSent == <>(sent = MaxTx /\ tx_seen = MaxTx + 1)
=============================================================================
