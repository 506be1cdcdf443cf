------------------------------ MODULE UartInput ------------------------------
(***************************************************************************)
(* A line typed at the serial console of the FreeRTOS applications         *)
(* (uart0_rx_intr_handler and uart_gets in                                 *)
(* src/rtos_apps/08button/user/uart.c, called from its user_main.c).       *)
(*                                                                         *)
(* The interrupt handler moves characters from the UART to a queue of      *)
(* limited length, from which the menu takes its choices and uart_gets its *)
(* line.  A character is a letter, DEL or CR; the buffer holds, for each   *)
(* letter, which character of the line it was.                             *)
(***************************************************************************)
EXTENDS Integers, Sequences, FiniteSets

CONSTANTS
  UART_RX_FifoFullIntrThresh,   \* 10
  QueueLength,                  \* of xUARTQueue, 128
  buf_length,                   \* of the field asked for
  MaxLine                       \* bound: characters in a line

ASSUME UartAssumption ==
  {UART_RX_FifoFullIntrThresh, QueueLength, buf_length, MaxLine} \subseteq Nat \ {0}

VARIABLES
  fifo,         \* what the UART has received
  xUARTQueue,
  reader,       \* the task: at the menu or in uart_gets
  buffer, count,
  line          \* history: what uart_gets was given

uartVars == <<fifo, xUARTQueue, reader, buffer, count, line>>

Char == {"letter", "DEL", "CR"}
NUL == 0
Zeroed == [i \in -MaxLine..(buf_length - 1) |-> NUL]

UartTypeOK ==
  /\ fifo \in Seq(Char) /\ Len(fifo) <= UART_RX_FifoFullIntrThresh
  /\ xUARTQueue \in Seq(Char) /\ Len(xUARTQueue) <= QueueLength
  /\ reader \in {"menu", "gets"}
  /\ buffer \in [-MaxLine..(buf_length - 1) -> 0..MaxLine]
  /\ count \in -MaxLine..buf_length
  /\ line \in Seq(Char) /\ Len(line) <= MaxLine

UartInit ==
  /\ fifo = <<>> /\ xUARTQueue = <<>> /\ reader = "menu"
  /\ buffer = Zeroed /\ count = 0 /\ line = <<>>
----------------------------------------------------------------------------
Type(ch) ==
  /\ Len(fifo) < UART_RX_FifoFullIntrThresh
  /\ fifo' = Append(fifo, ch)
  /\ UNCHANGED <<xUARTQueue, reader, buffer, count, line>>

\* The receive buffer has reached its threshold: what is in it is echoed, and
\* goes nowhere else.
uart0_rxfifo_full ==
  /\ Len(fifo) >= UART_RX_FifoFullIntrThresh
  /\ fifo' = <<>>
  /\ UNCHANGED <<xUARTQueue, reader, buffer, count, line>>

\* The line has been idle: what the queue has room for goes into it; the result
\* of xQueueSendToBackFromISR is ignored.
uart0_rxfifo_tout ==
  /\ Len(fifo) \in 1..(UART_RX_FifoFullIntrThresh - 1)
  /\ LET all == xUARTQueue \o fifo
     IN xUARTQueue' = SubSeq(all, 1, IF Len(all) < QueueLength THEN Len(all) ELSE QueueLength)
  /\ fifo' = <<>>
  /\ UNCHANGED <<reader, buffer, count, line>>

uart0_rx_intr_handler == uart0_rxfifo_full \/ uart0_rxfifo_tout

Received(ch) ==
  /\ xUARTQueue # <<>> /\ ch = Head(xUARTQueue)
  /\ xUARTQueue' = Tail(xUARTQueue)
  /\ UNCHANGED fifo

\* A letter chooses a field, and the line for it is asked for.
menu ==
  /\ reader = "menu"
  /\ \E ch \in Char :
       /\ Received(ch)
       /\ IF ch = "letter"
          THEN reader' = "gets" /\ buffer' = Zeroed /\ count' = 0 /\ line' = <<>>
          ELSE UNCHANGED <<reader, buffer, count, line>>

Put(ch) ==
  /\ ch = "letter"
  /\ buffer' = [buffer EXCEPT ![count] = Len(line) + 1]
  /\ count' = count + 1

\* Mutant: the character is left in the buffer.
BugKeepsDeleted(ch) == ch = "DEL" /\ count' = count - 1 /\ UNCHANGED buffer

\* count is not looked at: at the start of the line it goes below 0.
Delete(ch) ==
  /\ ch = "DEL"
  /\ count' = count - 1
  /\ buffer' = [buffer EXCEPT ![count - 1] = NUL]

uart_gets ==
  /\ reader = "gets" /\ Len(line) < MaxLine
  /\ \E ch \in Char :
       /\ Received(ch)
       /\ line' = Append(line, ch)
       /\ Put(ch) \/ Delete(ch) \/ (ch = "CR" /\ UNCHANGED <<buffer, count>>)
       /\ reader' = IF ch # "CR" /\ count' < buf_length THEN "gets" ELSE "menu"

UartNext ==
  \/ \E ch \in Char : Type(ch)
  \/ uart0_rx_intr_handler \/ menu \/ uart_gets

UartSpec == UartInit /\ [][UartNext]_uartVars
----------------------------------------------------------------------------
Number(ch, i, j) == Cardinality({k \in i..j : line[k] = ch})

\* DEL was typed with nothing left to delete.
DeletedTooMuch == \E j \in 1..Len(line) : Number("DEL", 1, j) > Number("letter", 1, j)

\* The letters that no later DEL takes back.
Survives(i) ==
  /\ line[i] = "letter"
  /\ \A j \in i..Len(line) : Number("DEL", i, j) < Number("letter", i, j)

Edited == {i \in 1..Len(line) : Survives(i)}

\* The string in the buffer, up to its end or the first NUL.
Text ==
  LET end == CHOOSE n \in 0..buf_length :
               /\ \A i \in 0..(n - 1) : buffer[i] # NUL
               /\ n < buf_length => buffer[n] = NUL
  IN [i \in 1..end |-> buffer[i - 1]]

\* The field holds the line as it was edited: its letters in their order.
LineEdited ==
  reader = "menu" /\ ~DeletedTooMuch =>
    /\ {Text[i] : i \in 1..Len(Text)} = Edited
    /\ \A i, j \in 1..Len(Text) : i < j => Text[i] < Text[j]

\* Nothing is written before the buffer, and a field not filled to its last
\* byte is a string: its end is marked.
LineInPlace ==
  ~DeletedTooMuch =>
    /\ \A i \in -MaxLine..-1 : buffer[i] = NUL
    /\ count \in 0..buf_length /\ (count < buf_length => buffer[count] = NUL)

\* Both, as long as no DEL is typed at the start of a line.
UartKept == LineEdited /\ LineInPlace
============================================================================
