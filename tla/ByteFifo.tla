------------------------------ MODULE ByteFifo ------------------------------
(***************************************************************************)
(* What utils/cqueue promises to its users: a bounded sequence of items.   *)
(* Blocks are taken whole or refused whole, a reader gets the oldest items *)
(* and a refused call changes nothing.                                     *)
(***************************************************************************)
EXTENDS Integers, Sequences

CONSTANTS Size,      \* how many items it holds
          Blocks,    \* the blocks its users write
          Lengths    \* the numbers of items they read

VARIABLES fifo,      \* the items that wait, the oldest first
          block      \* the block the last call was given to write, or has read

Fits(e)  == Len(fifo) + Len(e) <= Size

Put(e)      == Fits(e) /\ fifo' = fifo \o e /\ block' = e
PutFront(e) == Fits(e) /\ fifo' = e \o fifo /\ block' = e

Drop(n) == /\ n <= Len(fifo)
           /\ fifo' = SubSeq(fifo, n + 1, Len(fifo))

Get(n)     == Drop(n) /\ block' = SubSeq(fifo, 1, n)
Discard(n) == Drop(n) /\ UNCHANGED block

Init == fifo = << >> /\ block = << >>

Next == \/ \E e \in Blocks : Put(e) \/ PutFront(e)
        \/ \E n \in Lengths : Get(n) \/ Discard(n)

Spec == Init /\ [][Next]_<<fifo, block>>
=============================================================================
