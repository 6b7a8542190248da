----------------------------- MODULE MCCQueue -----------------------------
EXTENDS CQueue

\* Blocks of up to three bytes for a buffer of five, so that a block can end
\* before, at and behind the end of the buffer, and reads of up to the size
\* and one more.
MCBlocks  == UNION {[1 .. n -> Items] : n \in 0 .. 3}
MCLengths == 0 .. Size + 1
=============================================================================
