------------------------------ MODULE UartFifo ------------------------------
(***************************************************************************)
(* What uPortUartRead() promises to the AT client (u_port_uart.h): bytes   *)
(* come out in the order in which they came in, each of them once.  A      *)
(* driver may lose a byte only while it holds Capacity bytes that have not *)
(* been read.                                                              *)
(***************************************************************************)
EXTENDS Naturals, Sequences

CONSTANTS Byte,     \* what the wire can carry
          Capacity  \* the number of bytes that are kept

VARIABLES queue,    \* the bytes that were received and not read
          got       \* the bytes that the last uPortUartRead() returned

vars == <<queue, got>>

Init == /\ queue = <<>>
        /\ got = <<>>

Receive(b) == /\ \/ queue' = Append(queue, b)
                 \/ Len(queue) >= Capacity /\ queue' = queue
              /\ UNCHANGED got

Read(n) == /\ n <= Len(queue)
           /\ got' = SubSeq(queue, 1, n)
           /\ queue' = SubSeq(queue, n + 1, Len(queue))

\* uPortUartFlushRx(), or the UART is closed.
Flush == /\ queue' = <<>>
         /\ UNCHANGED got

Next == \/ \E b \in Byte : Receive(b)
        \/ \E n \in 0 .. Len(queue) : Read(n)
        \/ Flush

Spec == Init /\ [][Next]_vars
=============================================================================
