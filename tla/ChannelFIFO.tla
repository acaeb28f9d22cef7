---------------------------- MODULE ChannelFIFO ----------------------------
(***************************************************************************)
(* What a PurC channel promises its users, without the ring buffer, the    *)
(* waiting lists and the scheduler: a bounded first-in first-out buffer    *)
(* that can be opened, closed (dropping what it holds) and, while it is    *)
(* empty, given another capacity.                                          *)
(***************************************************************************)
EXTENDS Naturals, Sequences

CONSTANTS Val,      \* the values that can be sent
          MaxCap    \* the largest capacity

VARIABLES fifo,     \* the values accepted and not yet received, oldest first
          cap       \* the capacity; 0 when the channel is closed

FifoInit == fifo = <<>> /\ cap = 0

Put(v) == /\ Len(fifo) < cap
          /\ fifo' = Append(fifo, v)
          /\ cap' = cap

Take == /\ fifo # <<>>
        /\ fifo' = Tail(fifo)
        /\ cap' = cap

SetCapacity(n) == /\ fifo = <<>>
                  /\ fifo' = fifo
                  /\ cap' = n

CloseFifo == fifo' = <<>> /\ cap' = 0

FifoNext == \/ \E v \in Val : Put(v)
            \/ Take
            \/ \E n \in 1 .. MaxCap : SetCapacity(n)
            \/ CloseFifo

FifoSpec == FifoInit /\ [][FifoNext]_<<fifo, cap>>
=============================================================================
