------------------------------ MODULE MemPool -------------------------------
(***************************************************************************)
(* The allocator of the pool that holds the records of the paired devices: *)
(* services/nvrecord/nvrec_mempool.c, as built (no debugging, no threading *)
(* layer: pool_malloc and pool_free run under int_lock).                   *)
(*                                                                         *)
(* Every block starts with a header.  The headers form a chain in the      *)
(* order of their addresses; the free ones also form a list, in no order,  *)
(* linked both ways through the headers.  A block that is freed is merged  *)
(* with its free neighbours, which moves entries of the free list.         *)
(*                                                                         *)
(* The pool is whole and outlives its users: what a download or a restart  *)
(* does to it is NvRecord's concern.                                       *)
(***************************************************************************)
EXTENDS Lists, FiniteSets

CONSTANTS
    PoolSize,          \* len of memory_buffer_alloc_init
    HeaderSize,        \* sizeof(memory_header)
    ALIGN_MULTIPLE,    \* POLARSSL_MEMORY_ALIGN_MULTIPLE
    MaxLen,            \* bound: the longest block that is asked for
    NULL

ASSUME PoolAssumption ==
    /\ PoolSize \in Nat /\ HeaderSize \in Nat \ {0} /\ ALIGN_MULTIPLE \in Nat \ {0}
    /\ PoolSize > HeaderSize /\ MaxLen \in Nat
    /\ PoolSize % ALIGN_MULTIPLE = 0 /\ HeaderSize % ALIGN_MULTIPLE = 0
    /\ NULL \notin Nat

VARIABLES
    mem,         \* the headers, by their offset in heap.buf
    first_free,  \* heap.first_free
    held         \* external: what the users hold: [at, len]

vars == <<mem, first_free, held>>

Addresses == 0 .. PoolSize - 1
Pointers == Addresses \cup {NULL}
first == 0       \* heap.first


\* memory_buffer_alloc_init
Init ==
    /\ mem = [a \in {first} |->
                [size |-> PoolSize - HeaderSize, alloc |-> 0, prev |-> NULL, next |-> NULL,
                 prev_free |-> NULL, next_free |-> NULL]]
    /\ first_free = first
    /\ held = {}

(***************************************************************************)
(* The free list                                                           *)
(***************************************************************************)
\* The walk from heap.first_free along next_free
FreeList ==
    LET walk[n \in Nat] ==
          IF n = 0 THEN IF first_free \in DOMAIN mem THEN <<first_free>> ELSE << >>
          ELSE LET w == walk[n - 1]
               IN IF Len(w) = n /\ mem[w[n]].next_free \in DOMAIN mem
                  THEN Append(w, mem[w[n]].next_free) ELSE w
    IN walk[Cardinality(DOMAIN mem)]

\* Take x out of the free list; a heap h is a record of mem and first_free
Unlink(h, x) ==
    LET p == h.mem[x].prev_free n == h.mem[x].next_free
    IN [mem |-> [a \in DOMAIN h.mem |->
                   [h.mem[a] EXCEPT !.next_free = IF a = p THEN n ELSE @,
                                    !.prev_free = IF a = n THEN p ELSE @]],
        first_free |-> IF p = NULL THEN n ELSE h.first_free]

\* Put x at the place of old in the free list
Replace(h, old, x) ==
    LET p == h.mem[old].prev_free n == h.mem[old].next_free
    IN [mem |-> [a \in DOMAIN h.mem |->
                   [h.mem[a] EXCEPT
                      !.next_free = IF a = p THEN x ELSE IF a = x THEN n ELSE @,
                      !.prev_free = IF a = n THEN x ELSE IF a = x THEN p ELSE @]],
        first_free |-> IF p = NULL THEN x ELSE h.first_free]

\* Put x in front of the free list; the store through a first_free that is NULL is lost
Prepend(h, x) ==
    [mem |-> [a \in DOMAIN h.mem |->
                [h.mem[a] EXCEPT !.next_free = IF a = x THEN h.first_free ELSE @,
                                 !.prev_free = IF a = h.first_free THEN x ELSE @]],
     first_free |-> x]

(***************************************************************************)
(* Taking memory                                                           *)
(***************************************************************************)
Aligned(len) ==
    IF len % ALIGN_MULTIPLE = 0 THEN len ELSE len - (len % ALIGN_MULTIPLE) + ALIGN_MULTIPLE

\* Fault: the room for the header is forgotten
FittingFault(len) ==
    LET list == FreeList
    IN { list[k] : k \in { i \in 1 .. Len(list) :
           /\ mem[list[i]].size + HeaderSize >= len
           /\ \A j \in 1 .. i - 1 : mem[list[j]].size + HeaderSize < len } }

\* The first block of the free list that is long enough, if there is one
Fitting(len) ==
    LET list == FreeList
    IN { list[k] : k \in { i \in 1 .. Len(list) :
           /\ mem[list[i]].size >= len
           /\ \A j \in 1 .. i - 1 : mem[list[j]].size < len } }

\* All of the block is given out.
Whole(h, cur) ==
    LET u == Unlink(h, cur)
    IN [u EXCEPT !.mem[cur] = [@ EXCEPT !.alloc = 1, !.prev_free = NULL, !.next_free = NULL]]

\* Fault: the block behind still points to the one that was split
BackLinkFault(m, new) == m

\* new->next->prev = new
BackLink(m, new) ==
    [a \in DOMAIN m |-> IF a = m[new].next THEN [m[a] EXCEPT !.prev = new] ELSE m[a]]

\* The first len bytes of the block are given out, and a header is put behind them.
Split(h, cur, len) ==
    LET new == cur + HeaderSize + len
        added == [a \in DOMAIN h.mem \cup {new} |->
                    IF a = new
                    THEN [size |-> h.mem[cur].size - len - HeaderSize, alloc |-> 0,
                          prev |-> cur, next |-> h.mem[cur].next,
                          prev_free |-> NULL, next_free |-> NULL]
                    ELSE h.mem[a]]
        r == Replace([h EXCEPT !.mem = BackLink(added, new)], cur, new)
    IN [r EXCEPT !.mem[cur] = [@ EXCEPT !.alloc = 1, !.size = len, !.next = new,
                                        !.prev_free = NULL, !.next_free = NULL]]

\* What is left of the block is not worth a header.
TooSmall(rest) == rest < HeaderSize + ALIGN_MULTIPLE

\* buffer_alloc_malloc; it returns NULL when no free block is long enough
Malloc(len) ==
    \E cur \in Fitting(Aligned(len)) :
        LET h == [mem |-> mem, first_free |-> first_free]
            taken == IF TooSmall(mem[cur].size - Aligned(len))
                     THEN Whole(h, cur) ELSE Split(h, cur, Aligned(len))
        IN /\ mem' = taken.mem /\ first_free' = taken.first_free
           /\ held' = held \cup {[at |-> cur + HeaderSize, len |-> len]}

(***************************************************************************)
(* Giving it back                                                          *)
(***************************************************************************)
IsFree(h, a) == a # NULL /\ h.mem[a].alloc = 0

\* Block a takes in block b, which follows it; b's header is zeroed.
Merge(h, a, b) ==
    LET n == h.mem[b].next
        size == h.mem[a].size + HeaderSize + h.mem[b].size
        m == [h.mem EXCEPT ![a] = [@ EXCEPT !.size = size, !.next = n]]
    IN [h EXCEPT !.mem = [x \in DOMAIN m \ {b} |-> IF x = n THEN [m[x] EXCEPT !.prev = a] ELSE m[x]]]

\* Fault: a block that is merged with both neighbours stays in the list twice
MergeNextFault(h, hdr) ==
    LET old == h.mem[hdr].next IN Merge(Replace(h, old, hdr), hdr, old)

\* The block behind is free: hdr takes its place in the free list, after giving up its own.
MergeNext(h, hdr) ==
    LET old == h.mem[hdr].next
        listed == h.mem[hdr].prev_free # NULL \/ h.mem[hdr].next_free # NULL
    IN Merge(Replace(IF listed THEN Unlink(h, hdr) ELSE h, old, hdr), hdr, old)

\* Fault: a block that was merged with the one before is not merged with the one behind
FreedFault(a) ==
    LET h0 == [mem |-> [mem EXCEPT ![a].alloc = 0], first_free |-> first_free]
        behind == IsFree(h0, mem[a].next)
    IN IF IsFree(h0, mem[a].prev) THEN Merge(h0, mem[a].prev, a)
       ELSE IF behind THEN MergeNext(h0, a) ELSE Prepend(h0, a)

\* buffer_alloc_free of the block with the header at a
Freed(a) ==
    LET h0 == [mem |-> [mem EXCEPT ![a].alloc = 0], first_free |-> first_free]
        before == IsFree(h0, mem[a].prev)
        hdr == IF before THEN mem[a].prev ELSE a
        h1 == IF before THEN Merge(h0, hdr, a) ELSE h0
        behind == IsFree(h1, h1.mem[hdr].next)
    IN IF behind THEN MergeNext(h1, hdr) ELSE IF before THEN h1 ELSE Prepend(h1, hdr)

Free(part) ==
    LET h == Freed(part.at - HeaderSize)
    IN mem' = h.mem /\ first_free' = h.first_free /\ held' = held \ {part}

Next == (\E len \in 1 .. MaxLen : Malloc(len)) \/ \E part \in held : Free(part)

Spec == Init /\ [][Next]_vars

(***************************************************************************)
(* Properties                                                              *)
(***************************************************************************)
\* The headers are in the pool and their fields have their types.
TypeOK ==
    /\ DOMAIN mem \subseteq Addresses /\ first \in DOMAIN mem
    /\ \A a \in DOMAIN mem :
         mem[a] \in [size : 0 .. PoolSize, alloc : {0, 1}, prev : Pointers, next : Pointers,
                     prev_free : Pointers, next_free : Pointers]
    /\ first_free \in DOMAIN mem \cup {NULL}
    /\ held \subseteq [at : Addresses, len : 1 .. MaxLen]

End(a) == a + HeaderSize + mem[a].size

(* The headers are typed, they and their blocks cover the pool without a   *)
(* gap, and the chain links each to the next and back (verify_chain).      *)
ChainSound ==
    /\ TypeOK
    /\ \A a \in DOMAIN mem :
         /\ mem[a].next = IF End(a) = PoolSize THEN NULL ELSE End(a)
         /\ mem[a].next # NULL => mem[a].next \in DOMAIN mem /\ mem[mem[a].next].prev = a
    /\ mem[first].prev = NULL

(* Every block is accounted for: it is held by somebody, in full, or in    *)
(* the free list, once and linked back.  None is lost to those who look    *)
(* for memory, and none that is held can be given out again.               *)
PoolAccounted ==
    LET list == FreeList
    IN /\ Distinct(list)
       /\ InList(list) = {a \in DOMAIN mem : mem[a].alloc = 0}
       /\ \A k \in 1 .. Len(list) :
            mem[list[k]].prev_free = IF k = 1 THEN NULL ELSE list[k - 1]
       /\ {part.at - HeaderSize : part \in held} = {a \in DOMAIN mem : mem[a].alloc = 1}
       /\ \A part \in held : part.len <= mem[part.at - HeaderSize].size

(* No two neighbours are free, so a length that fits between two blocks    *)
(* that are held is not refused; with nothing held the pool is one block.  *)
AllMerged ==
    \A a \in DOMAIN mem : mem[a].alloc = 0 => ~IsFree([mem |-> mem], mem[a].next)

Promise == INSTANCE Heap WITH Size <- PoolSize

\* Nobody is given memory that another holds: the pool is a Heap.
IsHeap == Promise!Spec
=============================================================================
