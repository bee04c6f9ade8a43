------------------------------ MODULE UrcFifo ------------------------------
(***************************************************************************)
(* What the URC queue promises to the AT client (u_cx_at_urc_queue.h): a   *)
(* FIFO of URCs.  A URC is put in in two steps, Begin and Commit (or       *)
(* Abort), and no URC can be taken while one is half put in.  A URC is     *)
(* taken out in two steps as well: Take hands the oldest URC to one        *)
(* reader, and Finish removes it.  The layout in memory is not visible.    *)
(***************************************************************************)
EXTENDS Sequences

CONSTANTS Urc,      \* the URC lines that the module can send
          NoUrc,    \* not a URC
          PayloadSize \* the sizes a payload can have, 0 for none

VARIABLES queue,    \* the committed URCs, oldest first
          pending,  \* the URC being put in, or NoUrc
          reader    \* <<>> or <<the entry handed to the reader>>

vars == <<queue, pending, reader>>

Entry == [urc : Urc, payloadSize : PayloadSize]

Init == /\ queue = <<>>
        /\ pending = NoUrc
        /\ reader = <<>>

Begin(u) == /\ pending = NoUrc
            /\ pending' = u
            /\ UNCHANGED <<queue, reader>>

Commit(n) == /\ pending # NoUrc
             /\ queue' = Append(queue, [urc |-> pending, payloadSize |-> n])
             /\ pending' = NoUrc
             /\ UNCHANGED reader

Abort == /\ pending # NoUrc
         /\ pending' = NoUrc
         /\ UNCHANGED <<queue, reader>>

Take == /\ reader = <<>>
        /\ pending = NoUrc
        /\ queue # <<>>
        /\ reader' = <<Head(queue)>>
        /\ UNCHANGED <<queue, pending>>

Finish == /\ reader # <<>>
          /\ queue' = Tail(queue)
          /\ reader' = <<>>
          /\ UNCHANGED pending

Next == \/ \E u \in Urc : Begin(u)
        \/ \E n \in PayloadSize : Commit(n)
        \/ Abort
        \/ Take
        \/ Finish

Spec == Init /\ [][Next]_vars
=============================================================================
