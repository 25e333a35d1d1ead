------------------------------ MODULE Console -------------------------------
(***************************************************************************)
(* Keyboard input of the resident shell: the UART's receive side           *)
(* (devices/uart16550.cpp), its source in the interrupt controller, the    *)
(* external-interrupt handler that empties the UART into a ring buffer,    *)
(* and the line editor that polls the buffer (guest/kernel/                *)
(* console_input.c, guest/course_os_shell/main.c).                         *)
(*                                                                         *)
(* The shell polls with interrupts enabled, so the handler may run between *)
(* any two of its steps; the handler itself is not interrupted, but bytes  *)
(* arrive while it runs.  `state->rx_count -= 1U' is a load and a store:   *)
(* an interrupt between the two is overwritten by the store.  Bytes are    *)
(* numbered as they arrive; what a line says is left out.                  *)
(*                                                                         *)
(* The functional backend takes an interrupt before the next instruction;  *)
(* the pipeline may commit the one that was under way when the byte came.  *)
(***************************************************************************)
EXTENDS Naturals, Sequences, SequencesExt, FiniteSets

CONSTANTS
  RxSize,      \* CONSOLE_INPUT_RX_BUFFER_SIZE (256)
  MaxLine,     \* CONSOLE_INPUT_MAX_LINE (128)
  MaxBytes,    \* bound on the bytes that arrive
  EnterBytes   \* those of them that end a line

ASSUME ConsoleAssumption ==
  RxSize \in Nat \ {0} /\ MaxLine \in Nat /\ MaxBytes \in Nat /\ EnterBytes \subseteq 1..MaxBytes

VARIABLES
  uartPlic,  \* the interrupt controller, see Plic
  input,     \* input_ of the UART
  rx,        \* the ring: slots, head, tail, count; rx_overflow
  editor,    \* length and overflow of the line; byte in hand; loaded count
  shell,     \* where the shell is: "poll", "pop", "direct", "getc", "accept"
  handler,   \* "off", "claim", "drain", "complete"
  late,      \* a byte arrived in this step: the shell may still do one
  bytes      \* history: arrived, read, dropped; raced, unreported, skipped

consoleVars == <<uartPlic, input, rx, editor, shell, handler, late, bytes>>

P == INSTANCE Plic WITH plic <- uartPlic, NumSources <- 1, MaxPriority <- 1

Uart == 1   \* PLIC_SOURCE_UART_THRE
Nothing == 0

-----------------------------------------------------------------------------
\* main: interrupt input installed, the receive interrupt enabled.
ConsoleInit ==
  /\ uartPlic = [level     |-> [s \in {Uart} |-> FALSE],
                 pending   |-> [s \in {Uart} |-> FALSE],
                 claimedBy |-> [s \in {Uart} |-> "none"],
                 priority  |-> [s \in {Uart} |-> 1],
                 enables   |-> [c \in P!Contexts |-> IF c = "supervisor" THEN {Uart} ELSE {}],
                 threshold |-> [c \in P!Contexts |-> 0]]
  /\ input = <<>>
  /\ rx = [slots |-> [i \in 0..(RxSize - 1) |-> Nothing], head |-> 0, tail |-> 0,
           count |-> 0, overflow |-> FALSE]
  /\ editor = [length |-> 0, overflow |-> FALSE, byte |-> Nothing, count |-> 0]
  /\ shell = "poll" /\ handler = "off"
  /\ bytes = [arrived |-> 0, read |-> <<>>, dropped |-> {}, raced |-> {}, unreported |-> FALSE,
              skipped |-> 0]
  /\ late = FALSE

\* inject_input: the byte is queued and the line follows the queue.
InjectInput ==
  /\ bytes.arrived < MaxBytes
  /\ bytes' = [bytes EXCEPT !.arrived = @ + 1]
  /\ input' = Append(input, bytes.arrived + 1)
  /\ late' = TRUE
  /\ P!SetSourceLevel(Uart, TRUE)
  /\ UNCHANGED <<rx, editor, shell, handler>>

\* Reading RBR: the byte in front, and the line follows.
ReadRbr == input' = Tail(input) /\ P!SetSourceLevel(Uart, Tail(input) # <<>>)

-----------------------------------------------------------------------------
(* The handler *)

TakeInterrupt ==
  /\ handler = "off" /\ P!BestPendingSource("supervisor") # 0
  /\ handler' = "claim"
  /\ UNCHANGED <<uartPlic, input, rx, editor, shell, bytes>>

HandlerClaims ==
  /\ handler = "claim"
  /\ P!Claim("supervisor")
  /\ handler' = "drain"
  /\ UNCHANGED <<input, rx, editor, shell, bytes>>

\* Mutant: a full ring overwrites what was not read yet.
PushInterruptByteAnyway(byte) ==
  /\ rx' = [rx EXCEPT !.slots[rx.tail] = byte, !.tail = (@ + 1) % RxSize, !.count = @ + 1]
  /\ UNCHANGED bytes

\* Mutant: the flag of a full ring is forgotten.
PushInterruptByteQuietly(byte) ==
  IF rx.count >= RxSize
  THEN UNCHANGED rx /\ bytes' = [bytes EXCEPT !.dropped = @ \cup {byte}]
  ELSE /\ rx' = [rx EXCEPT !.slots[rx.tail] = byte, !.tail = (@ + 1) % RxSize, !.count = @ + 1]
       /\ UNCHANGED bytes

\* console_input_push_interrupt_byte.
PushInterruptByte(byte) ==
  IF rx.count >= RxSize
  THEN rx' = [rx EXCEPT !.overflow = TRUE] /\ bytes' = [bytes EXCEPT !.dropped = @ \cup {byte}]
  ELSE /\ rx' = [rx EXCEPT !.slots[rx.tail] = byte, !.tail = (@ + 1) % RxSize, !.count = @ + 1]
       /\ UNCHANGED bytes

\* One round of console_input_drain_uart_rx_interrupt.
HandlerDrains ==
  /\ handler = "drain" /\ input # <<>>
  /\ ReadRbr
  /\ PushInterruptByte(Head(input))
  /\ UNCHANGED <<editor, shell, handler>>

HandlerSeesEmpty ==
  /\ handler = "drain" /\ input = <<>>
  /\ handler' = "complete"
  /\ UNCHANGED <<uartPlic, input, rx, editor, shell, bytes>>

HandlerCompletes ==
  /\ handler = "complete"
  /\ P!Complete("supervisor", Uart)
  /\ handler' = "off"
  /\ UNCHANGED <<input, rx, editor, shell, bytes>>

-----------------------------------------------------------------------------
(* The shell: console_input_poll in a loop *)

ShellRuns(at) ==
  /\ handler = "off" /\ shell = at
  /\ late \/ P!BestPendingSource("supervisor") = 0

\* Mutant: the flag stays, and the next poll finds it again.
LineResetKeepsFlag ==
  /\ editor' = [editor EXCEPT !.length = 0, !.overflow = FALSE]
  /\ UNCHANGED rx

\* console_input_reset: the line starts again, and the overflow flag is forgotten.
LineReset ==
  /\ editor' = [editor EXCEPT !.length = 0, !.overflow = FALSE]
  /\ rx' = [rx EXCEPT !.overflow = FALSE]

\* A poll starts: OVERFLOW is returned and the shell resets the line.
PollOverflow ==
  /\ ShellRuns("poll") /\ rx.overflow
  /\ LineReset
  /\ bytes' = [bytes EXCEPT !.skipped = @ + Cardinality(bytes.dropped), !.dropped = {}]
  /\ UNCHANGED <<uartPlic, input, shell, handler>>

\* The ring holds a byte: it is taken, and rx_count is loaded to be decremented.
PollPops ==
  /\ ShellRuns("poll") /\ ~rx.overflow /\ rx.count > 0
  /\ editor' = [editor EXCEPT !.byte = rx.slots[rx.head], !.count = rx.count]
  /\ rx' = [rx EXCEPT !.head = (@ + 1) % RxSize]
  /\ shell' = "pop"
  /\ UNCHANGED <<uartPlic, input, handler, bytes>>

\* The ring is empty: the UART is asked.
PollEmpty ==
  /\ ShellRuns("poll") /\ ~rx.overflow /\ rx.count = 0
  /\ shell' = "direct"
  /\ UNCHANGED <<uartPlic, input, rx, editor, handler, bytes>>

\* Mutant: the byte is not counted off.
StoreCountKeeps ==
  /\ ShellRuns("pop")
  /\ shell' = "accept"
  /\ UNCHANGED <<uartPlic, input, rx, editor, handler, bytes>>

\* rx_count is stored, whatever it became since it was loaded.
StoreCount ==
  /\ ShellRuns("pop")
  /\ rx' = [rx EXCEPT !.count = editor.count - 1]
  /\ bytes' = [bytes EXCEPT !.raced = IF rx.count = editor.count THEN @ ELSE @ \cup {"count"}]
  /\ shell' = "accept"
  /\ UNCHANGED <<uartPlic, input, editor, handler>>

\* platform_uart_rx_ready: a byte in the UART, or the poll returns NONE.
AskUart ==
  /\ ShellRuns("direct")
  /\ shell' = IF input = <<>> THEN "poll" ELSE "getc"
  /\ UNCHANGED <<uartPlic, input, rx, editor, handler, bytes>>

\* platform_uart_getc: the handler may have been faster; then it reads 0.
GetByte ==
  /\ ShellRuns("getc")
  /\ shell' = "accept"
  /\ editor' = [editor EXCEPT !.byte = IF input = <<>> THEN Nothing ELSE Head(input)]
  /\ IF input = <<>> THEN UNCHANGED <<uartPlic, input>> ELSE ReadRbr
  /\ bytes' = [bytes EXCEPT !.raced = IF rx.count = 0 \/ input = <<>> THEN @ ELSE @ \cup {"getc"}]
  /\ UNCHANGED <<rx, handler>>

\* console_input_accept_byte; a finished line is run and the editor reset, and the poll of a
\* line that is not finished goes on (without looking at rx_overflow again).
AcceptByte ==
  /\ ShellRuns("accept")
  /\ IF editor.byte \in EnterBytes
     THEN /\ LineReset
          /\ bytes' = [bytes EXCEPT !.read = Append(@, editor.byte),
                         !.unreported = @ \/ rx.overflow]
     ELSE /\ UNCHANGED rx
          /\ IF editor.byte = Nothing
             THEN UNCHANGED <<editor, bytes>>
             ELSE /\ editor' = IF editor.overflow \/ editor.length >= MaxLine
                               THEN [editor EXCEPT !.overflow = TRUE]
                               ELSE [editor EXCEPT !.length = @ + 1]
                  /\ bytes' = [bytes EXCEPT !.read = Append(@, editor.byte)]
  /\ shell' = "poll"
  /\ UNCHANGED <<uartPlic, input, handler>>

HandlerStep ==
  /\ TakeInterrupt \/ HandlerClaims \/ HandlerDrains \/ HandlerSeesEmpty \/ HandlerCompletes
  /\ late' = FALSE

ShellStep ==
  /\ PollOverflow \/ PollPops \/ PollEmpty \/ StoreCount \/ AskUart \/ GetByte \/ AcceptByte
  /\ late' = FALSE

ConsoleNext == InjectInput \/ HandlerStep \/ ShellStep

ConsoleSpec == ConsoleInit /\ [][ConsoleNext]_consoleVars

\* The hart goes on running: the handler, which has precedence, and the shell.
ConsoleFairness == WF_consoleVars(HandlerStep) /\ WF_consoleVars(ShellStep)
ConsoleFair == ConsoleSpec /\ ConsoleFairness

-----------------------------------------------------------------------------
(* Properties *)

ConsoleTypeOK ==
  /\ input \in Seq(1..MaxBytes)
  /\ rx.count <= RxSize /\ {rx.head, rx.tail} \subseteq 0..(RxSize - 1)
  /\ editor.length <= MaxLine
  /\ shell \in {"poll", "pop", "direct", "getc", "accept"}
  /\ handler \in {"off", "claim", "drain", "complete"}

\* What waits in the ring, as its counter says (one more while a byte is being taken).
Buffered ==
  LET n == IF shell = "pop" THEN rx.count - 1 ELSE rx.count
  IN  [i \in 1..n |-> rx.slots[(rx.head + i - 1) % RxSize]]
InHand == IF shell \in {"pop", "accept"} /\ editor.byte # Nothing THEN <<editor.byte>> ELSE <<>>

\* Every byte that arrived, in order: read, in hand, in the ring, in the UART; or dropped.
Shown == bytes.read \o InHand \o Buffered \o input
Accounted ==
  \A i, j \in DOMAIN Shown : Shown[i] \in 1..bytes.arrived /\ (i < j => Shown[i] < Shown[j])

\* Bytes keep their order and none shows twice, as long as no interrupt fell into the
\* decrement of rx_count, or between the look at the UART and the read of a byte.
InputInOrder == bytes.raced = {} => Accounted

\* As long as, in addition, no overflow flag was cleared unread, what is missing was dropped
\* because the ring was full, and the flag that says so is up.
LossIsFlagged ==
  bytes.raced = {} /\ ~bytes.unreported =>
    /\ bytes.dropped # {} => rx.overflow
    /\ Len(Shown) + Cardinality(bytes.dropped) + bytes.skipped = bytes.arrived

\* Every byte shows once, in order, or is flagged as lost.
InputKept == ConsoleTypeOK /\ InputInOrder /\ LossIsFlagged

\* console_input.h: a byte of an interrupt is pushed into the ring, or the overflow flag set.
PushedOrFlagged ==
  ShellRuns("poll") /\ ~rx.overflow /\ "getc" \notin bytes.raced /\ ~bytes.unreported
      /\ bytes.skipped = 0 =>
    Len(bytes.read \o Buffered \o input) = bytes.arrived

\* No byte stays in the UART or in the ring.
InputIsRead == []<>(input = <<>> /\ rx.count = 0)
=============================================================================
