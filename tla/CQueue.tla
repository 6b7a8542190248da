------------------------------- MODULE CQueue -------------------------------
(***************************************************************************)
(* The circular byte queue of utils/cqueue/cqueue.c and the PCM buffer of  *)
(* apps/audioplayers/app_audio.cpp on top of it.  Every user holds a mutex *)
(* or locks interrupts around a call, so a call is one step.               *)
(***************************************************************************)
EXTENDS Integers, Sequences

CONSTANTS Items,     \* values of a byte
          Size,      \* size of the buffer
          Blocks,    \* the blocks callers write
          Lengths    \* the lengths callers read

ASSUME SizeAssumption == Size \in Nat \ {0}
ASSUME CallsAssumption == Blocks \subseteq Seq(Items) /\ Lengths \subseteq Nat

VARIABLES base, read, write, len,   \* the fields of CQueue
          block                     \* the caller's block of the last call

vars == <<base, read, write, len, block>>

Index == 0 .. Size - 1

AvailableOfCQueue == Size - len

-----------------------------------------------------------------------------
(* Writing: the part of a block that reaches the end goes on at index 0. *)

\* The buffer b with block e copied to index at.
memcpy(b, at, e) ==
    [i \in Index |-> IF i \in at .. at + Len(e) - 1 THEN e[i - at + 1] ELSE b[i]]

\* Faults: the second piece is taken from the start of the block; write goes back
\* to 0 whatever was copied there.
EnCQueueFault(e, second, left) ==
    LET bytesToTheEnd == Size - write
        wraps == bytesToTheEnd <= Len(e) IN
    /\ Len(e) <= AvailableOfCQueue
    /\ len' = len + Len(e)
    /\ base' = IF wraps
               THEN memcpy(memcpy(base, write, SubSeq(e, 1, bytesToTheEnd)), 0, second)
               ELSE memcpy(base, write, e)
    /\ write' = IF wraps THEN left ELSE write + Len(e)
    /\ block' = e
    /\ UNCHANGED read

EnCQueueWrapFault(e) == EnCQueueFault(e, SubSeq(e, 1, Len(e) - (Size - write)),
                                      Len(e) - (Size - write))

EnCQueueZeroFault(e) == EnCQueueFault(e, SubSeq(e, Size - write + 1, Len(e)), 0)

EnCQueue(e) ==
    LET bytesToTheEnd == Size - write IN
    /\ Len(e) <= AvailableOfCQueue
    /\ len' = len + Len(e)
    /\ IF bytesToTheEnd > Len(e)
       THEN /\ base' = memcpy(base, write, e)
            /\ write' = write + Len(e)
       ELSE /\ base' = memcpy(memcpy(base, write, SubSeq(e, 1, bytesToTheEnd)),
                              0, SubSeq(e, bytesToTheEnd + 1, Len(e)))
            /\ write' = Len(e) - bytesToTheEnd
    /\ block' = e
    /\ UNCHANGED read

-----------------------------------------------------------------------------
(* Writing in front: one place back for each item, the last one first. *)

Before(i) == IF i = 0 THEN Size - 1 ELSE i - 1
After(i)  == IF i = Size - 1 THEN 0 ELSE i + 1

\* One round of the loop; s is the buffer and the index.
PutBefore(s, item) ==
    [base |-> [s.base EXCEPT ![s.at] = item], at |-> Before(s.at)]

\* The loop: the buffer and the index after each number of rounds.  The index
\* starts one place in front of read.
Walk(e) ==
    LET w[k \in 0 .. Len(e)] ==
            IF k = 0 THEN [base |-> base, at |-> Before(read)]
            ELSE PutBefore(w[k - 1], e[Len(e) - k + 1])
    IN  w

EnCQueueFront(e) ==
    LET end == Walk(e)[Len(e)] IN
    /\ Len(e) <= AvailableOfCQueue
    /\ len' = len + Len(e)
    /\ base' = end.base
    /\ read' = After(end.at)
    /\ block' = e
    /\ UNCHANGED write

-----------------------------------------------------------------------------
(* Reading. *)

\* n items of the buffer from index at.
Copy(at, n) == [k \in 1 .. n |-> base[at + k - 1]]

\* Both branches of the code leave the index behind the n items read.
DeCQueue(n) ==
    LET bytesToTheEnd == Size - read IN
    /\ n <= len
    /\ len' = len - n
    /\ IF bytesToTheEnd > n
       THEN /\ block' = Copy(read, n)
            /\ read' = read + n
       ELSE /\ block' = Copy(read, bytesToTheEnd) \o Copy(0, n - bytesToTheEnd)
            /\ read' = n - bytesToTheEnd
    /\ UNCHANGED <<base, write>>

\* The same with no buffer to copy to.
DeCQueueNull(n) ==
    /\ n <= len
    /\ len' = len - n
    /\ read' = (read + n) % Size
    /\ UNCHANGED <<base, write, block>>

\* The two pieces of the buffer that hold the next n items, n <= len.
PeekCQueue(n) ==
    IF write > read \/ Size - read > n
    THEN <<Copy(read, n), << >>>>
    ELSE <<Copy(read, Size - read), Copy(0, n - (Size - read))>>

\* Peek, copy both pieces and drop them, under app_audio_pcmbuff_mutex.  The
\* caller's buffer is set to zero when there is not enough, which is left out.
app_audio_pcmbuff_get(n) ==
    LET e1 == PeekCQueue(n)[1]
        e2 == PeekCQueue(n)[2] IN
    /\ n <= len
    /\ block' = e1 \o e2
    /\ len' = (len - Len(e1)) - Len(e2)
    /\ read' = (((read + Len(e1)) % Size) + Len(e2)) % Size
    /\ UNCHANGED <<base, write>>

-----------------------------------------------------------------------------
Init ==
    /\ base \in [Index -> Items]
    /\ read = 0 /\ write = 0 /\ len = 0
    /\ block = << >>

Next ==
    \/ \E e \in Blocks : EnCQueue(e) \/ EnCQueueFront(e)
    \/ \E n \in Lengths : DeCQueue(n) \/ DeCQueueNull(n) \/ app_audio_pcmbuff_get(n)

Spec == Init /\ [][Next]_vars

-----------------------------------------------------------------------------
TypeOK ==
    /\ base \in [Index -> Items]
    /\ read \in Index /\ write \in Index
    /\ len \in 0 .. Size
    /\ block \in Seq(Items)

\* The index of the k-th item after read.
At(k) == IF read + k < Size THEN read + k ELSE read + k - Size

\* The fields of one queue are kept apart by three functions that each update
\* two of them: the place to write to is always len places behind read, also
\* when the queue is full and when a block ends exactly at the end of the buffer.
WriteBehindRead == write = At(len)

\* The queue as its users see it.
waiting == [k \in 1 .. len |-> base[At(k - 1)]]

Promise == INSTANCE ByteFifo WITH fifo <- waiting

\* No sequence of writes, reads, peeks and discards, whatever their lengths,
\* loses an item, repeats one, changes their order or overwrites one that waits.
IsFifo == Promise!Spec
=============================================================================
