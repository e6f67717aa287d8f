-------------------------------- MODULE Uart ---------------------------------
(***************************************************************************)
(* The console of the kernel, from the system calls to the terminal:       *)
(* kernel/console.c, the 16550 driver kernel/drivers/pc16550.c and the     *)
(* 16550 of the virtual board, vboard/devices/p16550.go.                   *)
(*                                                                         *)
(* Three things run at once: the kernel, whose console calls come from     *)
(* int 0x21 and are single steps and whose interrupt handler is one step   *)
(* per register access, and two goroutines of the board, loop() and        *)
(* irqManager(), which hand the interrupt over through an unbuffered       *)
(* channel.  Reads and writes of registers and the sampling of the         *)
(* interrupt are under the mutex of the device.                            *)
(*                                                                         *)
(* Bytes are numbered in the order in which they are sent or typed, so     *)
(* that a lost, repeated or misplaced one shows.                           *)
(***************************************************************************)
EXTENDS FifoOps, SequencesExt

CONSTANTS
    RingCap,    \* bytes a ring buffer of the console holds (511)
    QUEUE_SZ,   \* size of the FIFOs of the device (16)
    FifoSize,   \* PC16550_TX_FIFO_SZ (16)
    Trigger,    \* PC16550_RX_FIFO_TRIG, and the level set in FCR (14)
    Sizes,      \* numbers of bytes one console call queues
    MaxSent,    \* bound on the bytes sent
    MaxTyped    \* bound on the bytes typed

ASSUME UartAssumption ==
    /\ { RingCap, QUEUE_SZ, FifoSize, Trigger } \subseteq Nat \ {0}
    /\ Trigger <= QUEUE_SZ /\ FifoSize <= QUEUE_SZ
    /\ Sizes \subseteq Nat \ {0} /\ MaxSent \in Nat /\ MaxTyped \in Nat

VARIABLES
    tx_ring, rx_ring,   \* ring buffers of console.c
    binded,             \* "no", "ier" in uart_initialize(), "init" after it, "yes"
    handler,            \* where uart_handler() is: "off", "isr" or in a case
    count,              \* bytes the loop of the case has moved
    ier_tx,             \* IER_TX_EMPTY
    tx_buf, rx_buf,     \* FIFOs of the device
    rxOverrun,          \* a byte came when rx_buf was full
    quiet,              \* the last byte came longer ago than the trigger duration
    loop,               \* where loop() is: "select", "sample" or "send"
    intr,               \* what loop() sends to irqManager()
    mgr,                \* what irqManager() received, "recv" while it waits
    lastIrq,            \* last interrupt irqManager() has seen
    pending,            \* the interrupt controller holds an edge of the line
    sent, typed,        \* bytes sent and typed so far
    lost,               \* sent bytes that a ring buffer overwrote
    stdout,             \* bytes that reached the terminal
    returned            \* last byte getchar() returned

console == << tx_ring, rx_ring, binded, sent, lost, returned >>
driver == << handler, count >>
regs == << ier_tx, tx_buf, rx_buf, rxOverrun, quiet >>
board == << loop, intr, mgr, lastIrq >>
vars == << console, driver, regs, board, pending, typed, stdout >>

NoInterrupt == "NO_INTERRUPT"

Init ==
    /\ tx_ring = << >> /\ rx_ring = << >>
    /\ binded = "no"
    /\ handler = "off" /\ count = 0
    /\ ier_tx = FALSE
    /\ tx_buf = << >> /\ rx_buf = << >>
    /\ rxOverrun = FALSE /\ quiet = TRUE
    /\ loop = "select" /\ intr = NoInterrupt
    /\ mgr = "recv" /\ lastIrq = NoInterrupt
    /\ pending = FALSE
    /\ sent = 0 /\ typed = 0
    /\ lost = {} /\ stdout = << >> /\ returned = 0

-----------------------------------------------------------------------------
(* The console.  The handler runs with the interrupts disabled, so no call *)
(* is made while it runs.                                                  *)

\* console_start_xmit() and uart_start_xmit(): the TX interrupt is enabled.
start_xmit == ier_tx' = (ier_tx \/ binded = "yes")

\* console_putchar() queues one byte, or two for a newline, and console_puts()
\* the string and a line break; then the transmission is started.
Write(n) ==
    /\ handler = "off"
    /\ sent + n <= MaxSent
    /\ LET new == [ i \in 1..n |-> sent + i ]
       IN /\ tx_ring' = PushAll(tx_ring, new, RingCap)
          /\ lost' = lost \cup (Range(tx_ring \o new) \ Range(tx_ring'))
    /\ sent' = sent + n
    /\ start_xmit
    /\ UNCHANGED << rx_ring, binded, returned, driver, tx_buf, rx_buf, rxOverrun,
                    quiet, board, pending, typed, stdout >>

\* console_getchar(); -1 when there is nothing to read.
Getchar ==
    /\ handler = "off"
    /\ rx_ring # << >>
    /\ returned' = Head(rx_ring)
    /\ rx_ring' = Tail(rx_ring)
    /\ UNCHANGED << tx_ring, binded, sent, lost, driver, regs, board, pending,
                    typed, stdout >>

\* uart_initialize(): the device may ask for its reception interrupts before the
\* handler is hooked to the vector, which the line being masked makes harmless.
uart_initialize ==
    /\ handler = "off"
    /\ binded = "no"
    /\ binded' = "ier"
    /\ UNCHANGED << tx_ring, rx_ring, sent, lost, returned, driver, regs, board,
                    pending, typed, stdout >>

\* The end of uart_initialize(): the handler is hooked and the line unmasked; the
\* controller has kept an edge that came before.
irq_enable ==
    /\ handler = "off"
    /\ binded = "ier"
    /\ binded' = "init"
    /\ UNCHANGED << tx_ring, rx_ring, sent, lost, returned, driver, regs, board,
                    pending, typed, stdout >>

\* The end of console_bind_uart(): bytes queued before are sent.
BindXmit ==
    /\ handler = "off"
    /\ binded = "init"
    /\ binded' = "yes"
    /\ ier_tx' = (tx_ring # << >>)
    /\ UNCHANGED << tx_ring, rx_ring, sent, lost, returned, driver, tx_buf,
                    rx_buf, rxOverrun, quiet, board, pending, typed, stdout >>

-----------------------------------------------------------------------------
(* The registers of the device.                                            *)

\* Mutant of IIR: the FIFO to send is not looked at.
IIRTxAlways ==
    IF binded # "no" /\ Len(rx_buf) >= Trigger THEN "RX_DATA"
    ELSE IF binded # "no" /\ rx_buf # << >> /\ quiet THEN "RX_FIFO_TIMEOUT"
    ELSE IF rxOverrun THEN "RX_LINE_STATUS"
    ELSE IF ier_tx THEN "TX_EMPTY"
    ELSE NoInterrupt

\* interruptIdentificationRegister(): the first of the conditions that holds.
IIR ==
    IF binded # "no" /\ Len(rx_buf) >= Trigger THEN "RX_DATA"
    ELSE IF binded # "no" /\ rx_buf # << >> /\ quiet THEN "RX_FIFO_TIMEOUT"
    ELSE IF rxOverrun THEN "RX_LINE_STATUS"
    ELSE IF ier_tx /\ tx_buf = << >> THEN "TX_EMPTY"
    ELSE NoInterrupt

\* The read of RD_LSR clears the overrun only when it has nothing else to report.
ReadLSR ==
    rxOverrun' = (rxOverrun /\ (rx_buf # << >> \/ tx_buf = << >>))

\* The write of WR_TX_BUF; a full FIFO drops the byte.
WriteTxBuf(c) ==
    tx_buf' = IF Len(tx_buf) < QUEUE_SZ THEN Append(tx_buf, c) ELSE tx_buf

-----------------------------------------------------------------------------
(* uart_handler().                                                         *)

\* The interrupt is taken when the kernel runs with interrupts enabled.
HandlerEnter ==
    /\ handler = "off" /\ pending /\ binded \in { "init", "yes" }
    /\ pending' = FALSE
    /\ handler' = "isr"
    /\ UNCHANGED << console, count, regs, board, typed, stdout >>

\* The ISR register says which case to run; when nothing is left the handler
\* acknowledges the interrupt and returns.
HandlerIsr ==
    /\ handler = "isr"
    /\ handler' = IF IIR = NoInterrupt THEN "off" ELSE IIR
    /\ count' = 0
    /\ UNCHANGED << console, regs, board, pending, typed, stdout >>

\* Mutant of PullByte: the byte stays in the FIFO when others are behind it.
PullByteLast ==
    /\ rx_ring' = Push(rx_ring, Head(rx_buf), RingCap)
    /\ rx_buf' = IF Len(rx_buf) > 1 THEN rx_buf ELSE Tail(rx_buf)

\* One byte goes from the FIFO to the ring buffer.
PullByte ==
    /\ rx_ring' = Push(rx_ring, Head(rx_buf), RingCap)
    /\ rx_buf' = Tail(rx_buf)

\* RX_DATA: exactly Trigger bytes are pulled.
HandlerRxData ==
    /\ handler = "RX_DATA"
    /\ IF count < Trigger
       THEN PullByte /\ count' = count + 1 /\ UNCHANGED handler
       ELSE handler' = "isr" /\ UNCHANGED << rx_ring, rx_buf, count >>
    /\ UNCHANGED << tx_ring, binded, sent, lost, returned, ier_tx, tx_buf, rxOverrun,
                    quiet, board, pending, typed, stdout >>

\* RX_FIFO_TIMEOUT: bytes are pulled while the status shows one.
HandlerRxTimeout ==
    /\ handler = "RX_FIFO_TIMEOUT"
    /\ IF rx_buf # << >>
       THEN PullByte /\ ReadLSR /\ UNCHANGED handler
       ELSE handler' = "isr" /\ ReadLSR /\ UNCHANGED << rx_ring, rx_buf >>
    /\ UNCHANGED << tx_ring, binded, sent, lost, returned, count, ier_tx, tx_buf,
                    quiet, board, pending, typed, stdout >>

\* RX_LINE_STATUS: the status is read and ignored.
HandlerLineStatus ==
    /\ handler = "RX_LINE_STATUS"
    /\ ReadLSR
    /\ handler' = "isr"
    /\ UNCHANGED << console, count, ier_tx, tx_buf, rx_buf, quiet, board, pending,
                    typed, stdout >>

\* TX_EMPTY with bytes to send: at most FifoSize are written.
HandlerTxByte ==
    /\ handler = "TX_EMPTY"
    /\ count < FifoSize /\ tx_ring # << >>
    /\ tx_ring' = Tail(tx_ring)
    /\ WriteTxBuf(Head(tx_ring))
    /\ count' = count + 1
    /\ UNCHANGED << rx_ring, binded, sent, lost, returned, handler, ier_tx, rx_buf,
                    rxOverrun, quiet, board, pending, typed, stdout >>

\* Mutant of TxDisable: the end of the loop is taken for an empty queue.
TxDisableAlways == FALSE

\* Mutant of TxDisable: the TX interrupt stays enabled.
TxDisableNever == ier_tx

\* Nothing was there to send: the TX interrupt is disabled.
TxDisable == IF count = 0 THEN FALSE ELSE ier_tx

\* TX_EMPTY: the loop is over.
HandlerTxEnd ==
    /\ handler = "TX_EMPTY"
    /\ count = FifoSize \/ tx_ring = << >>
    /\ ier_tx' = TxDisable
    /\ handler' = "isr"
    /\ UNCHANGED << console, count, tx_buf, rx_buf, rxOverrun, quiet, board, pending,
                    typed, stdout >>

Handler == \/ HandlerIsr \/ HandlerRxData \/ HandlerRxTimeout
           \/ HandlerLineStatus \/ HandlerTxByte \/ HandlerTxEnd

-----------------------------------------------------------------------------
(* The goroutines of the device.                                           *)

\* loop(): a byte of tx_buf goes to the terminal.
LoopTx ==
    /\ loop = "select" /\ tx_buf # << >>
    /\ stdout' = Append(stdout, Head(tx_buf))
    /\ tx_buf' = Tail(tx_buf)
    /\ loop' = "sample"
    /\ UNCHANGED << console, driver, ier_tx, rx_buf, rxOverrun, quiet, intr, mgr,
                    lastIrq, pending, typed >>

\* The FIFO has room for a byte.
RxRoom == Len(rx_buf) < QUEUE_SZ

\* loop(): a byte was typed.
LoopRx ==
    /\ loop = "select" /\ typed < MaxTyped
    /\ typed' = typed + 1
    /\ IF RxRoom
       THEN rx_buf' = Append(rx_buf, typed') /\ quiet' = FALSE /\ UNCHANGED rxOverrun
       ELSE rxOverrun' = TRUE /\ UNCHANGED << rx_buf, quiet >>
    /\ loop' = "sample"
    /\ UNCHANGED << console, driver, ier_tx, tx_buf, intr, mgr, lastIrq, pending,
                    stdout >>

\* loop(): the ticker fires every millisecond.
LoopTick ==
    /\ loop = "select"
    /\ loop' = "sample"
    /\ UNCHANGED << console, driver, regs, intr, mgr, lastIrq, pending, typed, stdout >>

\* loop() reads the interrupt to raise.
LoopSample ==
    /\ loop = "sample"
    /\ intr' = IIR
    /\ loop' = "send"
    /\ UNCHANGED << console, driver, regs, mgr, lastIrq, pending, typed, stdout >>

\* loop() hands it over; irqManager() must be receiving.
LoopSend ==
    /\ loop = "send" /\ mgr = "recv"
    /\ mgr' = intr
    /\ loop' = "select"
    /\ UNCHANGED << console, driver, regs, intr, lastIrq, pending, typed, stdout >>

\* irqManager(): the line goes down, and up again if there is an interrupt, only
\* when the interrupt is not the one of the last time.
IrqManager ==
    /\ mgr # "recv"
    /\ pending' = (pending \/ (mgr # lastIrq /\ mgr # NoInterrupt))
    /\ lastIrq' = mgr
    /\ mgr' = "recv"
    /\ UNCHANGED << console, driver, regs, loop, intr, typed, stdout >>

\* Time goes by without a byte.
Quiet ==
    /\ ~quiet
    /\ quiet' = TRUE
    /\ UNCHANGED << console, driver, ier_tx, tx_buf, rx_buf, rxOverrun, board, pending,
                    typed, stdout >>

Next ==
    \/ \E n \in Sizes : Write(n)
    \/ Getchar \/ uart_initialize \/ irq_enable \/ BindXmit
    \/ HandlerEnter \/ HandlerIsr \/ HandlerRxData \/ HandlerRxTimeout
    \/ HandlerLineStatus \/ HandlerTxByte \/ HandlerTxEnd
    \/ LoopTx \/ LoopRx \/ LoopTick \/ LoopSample \/ LoopSend
    \/ IrqManager \/ Quiet

Spec == Init /\ [][Next]_vars

(***************************************************************************)
(* Fairness.  The processor and the goroutines run on, a pending interrupt *)
(* is taken, boot reaches the end of console_bind_uart(), and time passes: *)
(* weak fairness.  A select chooses at random between the arms that are    *)
(* ready, so one that is ready again and again is taken: strong fairness   *)
(* of the arms.  Nothing is assumed of what is sent or typed.              *)
(***************************************************************************)
FairSpec ==
    /\ Spec
    /\ WF_vars(uart_initialize \/ irq_enable \/ BindXmit)
    /\ WF_vars(HandlerEnter \/ Handler)
    /\ SF_vars(LoopTx) /\ SF_vars(LoopTick)
    /\ WF_vars(LoopSample \/ LoopSend) /\ WF_vars(IrqManager)
    /\ WF_vars(Quiet)

-----------------------------------------------------------------------------
(* Properties.                                                             *)

Interrupt == { "RX_DATA", "RX_FIFO_TIMEOUT", "RX_LINE_STATUS", "TX_EMPTY" }

\* The shape of the state, and the capacity of the rings and of the FIFOs.
TypeOK ==
    /\ tx_ring \in Seq(1..MaxSent) /\ Len(tx_ring) <= RingCap
    /\ rx_ring \in Seq(1..MaxTyped) /\ Len(rx_ring) <= RingCap
    /\ tx_buf \in Seq(1..MaxSent) /\ Len(tx_buf) <= QUEUE_SZ
    /\ rx_buf \in Seq(1..MaxTyped) /\ Len(rx_buf) <= QUEUE_SZ
    /\ binded \in { "no", "ier", "init", "yes" }
    /\ handler \in Interrupt \cup { "off", "isr" }
    /\ count \in 0..(IF FifoSize > Trigger THEN FifoSize ELSE Trigger)
    /\ { ier_tx, rxOverrun, quiet, pending } \subseteq BOOLEAN
    /\ loop \in { "select", "sample", "send" }
    /\ { intr, lastIrq } \subseteq Interrupt \cup { NoInterrupt }
    /\ mgr \in Interrupt \cup { NoInterrupt, "recv" }
    /\ sent \in 0..MaxSent /\ typed \in 0..MaxTyped
    /\ lost \subseteq 1..MaxSent /\ stdout \in Seq(1..MaxSent)
    /\ returned \in 0..MaxTyped

Increasing(s) == \A i, j \in 1..Len(s) : i < j => s[i] < s[j]

\* Between console_putchar() and the terminal no byte is repeated, misplaced or
\* lost, except the oldest ones that a full ring buffer gives up: in particular
\* the FIFO of the device never drops one (p16550.go:119), and no queue is longer than
\* its array.
OutputConserved ==
    LET path == stdout \o tx_buf \o tx_ring
    IN TypeOK /\ Increasing(path) /\ Range(path) \cup lost = 1..sent /\ Range(path) \cap lost = {}

\* Bytes typed are read in the order in which they were typed, and a byte pulled
\* from the FIFO of the device was in it (pc16550.c:159).
InputInOrder == Increasing(<< returned >> \o rx_ring \o rx_buf)

\* uart_handler() never turns off the TX interrupt while bytes are waiting
\* (pc16550.c:194), whatever the moment at which they were queued.
TxArmed == binded = "yes" /\ tx_ring # << >> => ier_tx

\* "Acknoledge the interrupt controller" (pc16550.c:207): every run of
\* uart_handler() gets there, unless the device reports an overrun, which reading
\* the status does not clear while the FIFO to send is empty (p16550.go:139); until
\* then the interrupts are disabled.
HandlerReturns == handler # "off" ~> (handler = "off" \/ rxOverrun)

\* "notifies the UART driver there's data in the tx queue" (uart.h:16): what the
\* console has queued is sent.
OutputSent == (binded = "yes" /\ tx_ring # << >>) ~> tx_ring = << >>
=============================================================================
