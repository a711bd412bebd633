----------------------------- MODULE BoundedFifo -----------------------------
(***************************************************************************)
(* What base/swap_queue.h promises its callers, without any ring buffer:   *)
(* a first-in first-out queue of at most Size payloads.  A put on a full   *)
(* queue and a get on an empty one leave the queue alone; Clear drops      *)
(* everything that has not been fetched.                                   *)
(***************************************************************************)
EXTENDS Naturals, Sequences

CONSTANTS Size,     \* capacity of the queue
          Payload   \* the payloads a producer may put

VARIABLE fifo       \* the payloads put and not yet fetched, oldest first

FifoInit == fifo = << >>

Put(d) == /\ Len(fifo) < Size
          /\ fifo' = Append(fifo, d)

Get == /\ fifo # << >>
       /\ fifo' = Tail(fifo)

Drop == fifo' = << >>

FifoNext == (\E d \in Payload : Put(d)) \/ Get \/ Drop

FifoSpec == FifoInit /\ [][FifoNext]_fifo
==============================================================================
