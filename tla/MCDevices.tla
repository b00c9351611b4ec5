------------------------------ MODULE MCDevices -----------------------------
(***************************************************************************)
(* UART and PLIC, each alone with any access in any cycle: the UART with a *)
(* short ring and any host input, the PLIC with a few sources at any level.*)
(* under_test says which of the two a behaviour drives; the other stays in *)
(* reset.  IrqPath connects them.                                          *)
(***************************************************************************)
EXTENDS Uart, Plic

VARIABLE under_test

U(reg, wen, value) == [reg |-> reg, wen |-> wen, value |-> value]

\* FCR with and without the reset bit, DLAB on and off, all interrupt enables.
MCUartReqs ==
  {U(r, FALSE, 0) : r \in {"DATA", "IER", "IIR", "LCR", "LSR"}}
    \cup {U("DATA", TRUE, c) : c \in Chars}
    \cup {U("IER", TRUE, e) : e \in SUBSET {"RX", "TX"}}
    \cup {U(r, TRUE, b) : r \in {"IIR", "LCR"}, b \in BOOLEAN}

P(reg, wen, ctx, irq, value) ==
  [reg |-> reg, wen |-> wen, ctx |-> ctx, irq |-> irq, value |-> value]

MCPlicReqs ==
  {P("PRIORITY", TRUE, "M", i, p) : i \in Sources, p \in Prios}
    \cup {P(r, TRUE, c, 1, e) : r \in {"ENABLE", "ENABLE_HI"}, c \in Contexts, e \in {{}, Sources}}
    \cup {P("THRESHOLD", TRUE, c, 1, p) : c \in Contexts, p \in Prios \ {2}}
    \cup {P("CLAIM", FALSE, c, 1, 0) : c \in Contexts}
    \cup {P("CLAIM", TRUE, c, 1, i) : c \in Contexts, i \in Sources}
    \cup {P(r, FALSE, "S", 1, 0) : r \in {"PRIORITY", "PENDING", "PENDING_HI", "ENABLE",
                                               "ENABLE_HI", "THRESHOLD"}}

DevicesInit == UartInit /\ PlicInit /\ under_test \in {"UART", "PLIC"}

DevicesNext ==
  /\ UNCHANGED under_test
  /\ \/ under_test = "UART" /\ UartNext /\ UNCHANGED plicVars
     \/ under_test = "PLIC" /\ PlicNext /\ UNCHANGED uartVars

DevicesSpec == DevicesInit /\ [][DevicesNext]_<<uartVars, plicVars, under_test>>
=============================================================================
