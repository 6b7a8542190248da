-------------------------------- MODULE Heap --------------------------------
(***************************************************************************)
(* What services/nvrecord/nvrec_mempool.c promises to those that take      *)
(* memory from a pool: each gets a part of it that nobody else holds, for  *)
(* as long as it keeps it.                                                 *)
(***************************************************************************)
EXTENDS Naturals

CONSTANTS Size,        \* of the pool, in bytes
          MaxLen       \* bound: the longest part that is asked for

VARIABLE held          \* the parts that were given out: [at, len]

Apart(p, q) == p.at + p.len <= q.at \/ q.at + q.len <= p.at

Init == held = {}

Malloc(part) ==
    /\ part.at + part.len <= Size
    /\ \A other \in held : Apart(part, other)
    /\ held' = held \cup {part}

Free(part) == part \in held /\ held' = held \ {part}

Next ==
    \/ \E at \in 0 .. Size - 1, len \in 1 .. MaxLen : Malloc([at |-> at, len |-> len])
    \/ \E part \in held : Free(part)

Spec == Init /\ [][Next]_held
=============================================================================
