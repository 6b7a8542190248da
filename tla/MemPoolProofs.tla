--------------------------- MODULE MemPoolProofs ---------------------------
(***************************************************************************)
(* MemPool for a pool of any size, headers of any size and any alignment:  *)
(* the headers always form one chain over the whole pool, every block is   *)
(* held or in the free list and no two neighbours are free, and the pool   *)
(* keeps the promise of Heap.                                              *)
(*                                                                         *)
(* A heap is what the operators of MemPool work on: a record of the        *)
(* headers and of first_free.  The lemmas say what each operator does to   *)
(* one; the state enters with the actions.                                 *)
(***************************************************************************)
EXTENDS MemPool, ListLemmas, FiniteSetTheorems

Headers == [size : Nat, alloc : {0, 1}, prev : Pointers, next : Pointers,
            prev_free : Pointers, next_free : Pointers]

\* The heaps with headers at the addresses of D
HeapsAt(D) == [mem : [D -> Headers], first_free : Pointers]

\* The parts of the headers that have to do with the chain are the same
SameBlocks(g, h, D) ==
    \A a \in D : /\ g.mem[a].size = h.mem[a].size /\ g.mem[a].alloc = h.mem[a].alloc
                 /\ g.mem[a].prev = h.mem[a].prev /\ g.mem[a].next = h.mem[a].next

-----------------------------------------------------------------------------
(***************************************************************************)
(* The headers                                                             *)
(***************************************************************************)
\* Header r with the links n and p
Relinked(r, n, p) == [r EXCEPT !.next_free = n, !.prev_free = p]

\* Storing the two links of a header leaves the rest of it alone.
LEMMA RelinkedFields ==
    ASSUME NEW r \in Headers, NEW n \in Pointers, NEW p \in Pointers
    PROVE  /\ Relinked(r, n, p) \in Headers
           /\ Relinked(r, n, p).size = r.size /\ Relinked(r, n, p).alloc = r.alloc
           /\ Relinked(r, n, p).prev = r.prev /\ Relinked(r, n, p).next = r.next
           /\ Relinked(r, n, p).next_free = n /\ Relinked(r, n, p).prev_free = p
BY DEF Headers, Relinked

\* A heap whose headers are those of h but for their links.
LEMMA AllRelinked ==
    ASSUME NEW D, NEW h \in HeapsAt(D), NEW v \in [D -> Pointers], NEW w \in [D -> Pointers],
           NEW f \in Pointers, NEW g,
           g = [mem |-> [a \in D |-> Relinked(h.mem[a], v[a], w[a])], first_free |-> f]
    PROVE  /\ g \in HeapsAt(D) /\ SameBlocks(g, h, D) /\ g.first_free = f
           /\ \A a \in D : g.mem[a].next_free = v[a] /\ g.mem[a].prev_free = w[a]
<1>1. \A a \in D : h.mem[a] \in Headers /\ v[a] \in Pointers /\ w[a] \in Pointers
  BY DEF HeapsAt
<1>2. /\ g.mem = [a \in D |-> Relinked(h.mem[a], v[a], w[a])]
      /\ g.first_free = f
  OBVIOUS
<1>3. g.mem \in [D -> Headers]
  BY <1>1, <1>2, RelinkedFields
<1>4. g \in HeapsAt(D)
  BY <1>2, <1>3 DEF HeapsAt
<1>5. \A a \in D : g.mem[a] = Relinked(h.mem[a], v[a], w[a])
  BY <1>2
<1>6. \A a \in D :
        /\ g.mem[a].size = h.mem[a].size /\ g.mem[a].alloc = h.mem[a].alloc
        /\ g.mem[a].prev = h.mem[a].prev /\ g.mem[a].next = h.mem[a].next
        /\ g.mem[a].next_free = v[a] /\ g.mem[a].prev_free = w[a]
  BY <1>1, <1>5, RelinkedFields
<1> QED BY <1>2, <1>4, <1>6 DEF SameBlocks

-----------------------------------------------------------------------------
(***************************************************************************)
(* The free list                                                           *)
(***************************************************************************)
\* What Unlink does to each header.
LEMMA UnlinkFields ==
    ASSUME NEW D, NEW h \in HeapsAt(D), NEW x \in D
    PROVE  LET u == Unlink(h, x)
               p == h.mem[x].prev_free
               n == h.mem[x].next_free
           IN  /\ u \in HeapsAt(D) /\ SameBlocks(u, h, D)
               /\ u.first_free = IF p = NULL THEN n ELSE h.first_free
               /\ \A a \in D :
                    /\ u.mem[a].next_free = IF a = p THEN n ELSE h.mem[a].next_free
                    /\ u.mem[a].prev_free = IF a = n THEN p ELSE h.mem[a].prev_free
<1> DEFINE p == h.mem[x].prev_free
           n == h.mem[x].next_free
           v == [a \in D |-> IF a = p THEN n ELSE h.mem[a].next_free]
           w == [a \in D |-> IF a = n THEN p ELSE h.mem[a].prev_free]
           f == IF p = NULL THEN n ELSE h.first_free
           u == Unlink(h, x)
<1>1. /\ DOMAIN h.mem = D /\ h.first_free \in Pointers
      /\ \A a \in D : h.mem[a].next_free \in Pointers /\ h.mem[a].prev_free \in Pointers
  BY DEF HeapsAt, Headers
<1>2. v \in [D -> Pointers] /\ w \in [D -> Pointers] /\ f \in Pointers
  BY <1>1
<1>3. u = [mem |-> [a \in D |-> Relinked(h.mem[a], IF a = p THEN n ELSE h.mem[a].next_free,
                                                   IF a = n THEN p ELSE h.mem[a].prev_free)],
           first_free |-> f]
  BY <1>1 DEF Unlink, Relinked
<1>4. u = [mem |-> [a \in D |-> Relinked(h.mem[a], v[a], w[a])], first_free |-> f]
  BY <1>3
<1>5. /\ f = IF p = NULL THEN n ELSE h.first_free
      /\ \A a \in D : /\ v[a] = IF a = p THEN n ELSE h.mem[a].next_free
                      /\ w[a] = IF a = n THEN p ELSE h.mem[a].prev_free
  OBVIOUS
<1> HIDE DEF v, w, f, u, p, n
<1>6. /\ u \in HeapsAt(D) /\ SameBlocks(u, h, D) /\ u.first_free = f
      /\ \A a \in D : u.mem[a].next_free = v[a] /\ u.mem[a].prev_free = w[a]
  BY <1>2, <1>4, AllRelinked
<1> QED BY <1>5, <1>6 DEF u, p, n

\* What Replace does to each header.
LEMMA ReplaceFields ==
    ASSUME NEW D, D \subseteq Pointers, NEW h \in HeapsAt(D), NEW old \in D, NEW x \in D
    PROVE  LET u == Replace(h, old, x)
               p == h.mem[old].prev_free
               n == h.mem[old].next_free
           IN  /\ u \in HeapsAt(D) /\ SameBlocks(u, h, D)
               /\ u.first_free = IF p = NULL THEN x ELSE h.first_free
               /\ \A a \in D :
                    /\ u.mem[a].next_free = IF a = p THEN x ELSE IF a = x THEN n
                                            ELSE h.mem[a].next_free
                    /\ u.mem[a].prev_free = IF a = n THEN x ELSE IF a = x THEN p
                                            ELSE h.mem[a].prev_free
<1> DEFINE p == h.mem[old].prev_free
           n == h.mem[old].next_free
           v == [a \in D |-> IF a = p THEN x ELSE IF a = x THEN n ELSE h.mem[a].next_free]
           w == [a \in D |-> IF a = n THEN x ELSE IF a = x THEN p ELSE h.mem[a].prev_free]
           f == IF p = NULL THEN x ELSE h.first_free
           u == Replace(h, old, x)
<1>1. /\ DOMAIN h.mem = D /\ h.first_free \in Pointers
      /\ \A a \in D : h.mem[a].next_free \in Pointers /\ h.mem[a].prev_free \in Pointers
  BY DEF HeapsAt, Headers
<1>2. v \in [D -> Pointers] /\ w \in [D -> Pointers] /\ f \in Pointers
  BY <1>1
<1>3. u = [mem |-> [a \in D |-> Relinked(h.mem[a],
                      IF a = p THEN x ELSE IF a = x THEN n ELSE h.mem[a].next_free,
                      IF a = n THEN x ELSE IF a = x THEN p ELSE h.mem[a].prev_free)],
           first_free |-> f]
  BY <1>1 DEF Replace, Relinked
<1>4. u = [mem |-> [a \in D |-> Relinked(h.mem[a], v[a], w[a])], first_free |-> f]
  BY <1>3
<1>5. /\ f = IF p = NULL THEN x ELSE h.first_free
      /\ \A a \in D : /\ v[a] = IF a = p THEN x ELSE IF a = x THEN n ELSE h.mem[a].next_free
                      /\ w[a] = IF a = n THEN x ELSE IF a = x THEN p ELSE h.mem[a].prev_free
  OBVIOUS
<1> HIDE DEF v, w, f, u, p, n
<1>6. /\ u \in HeapsAt(D) /\ SameBlocks(u, h, D) /\ u.first_free = f
      /\ \A a \in D : u.mem[a].next_free = v[a] /\ u.mem[a].prev_free = w[a]
  BY <1>2, <1>4, AllRelinked
<1> QED BY <1>5, <1>6 DEF u, p, n

\* What Prepend does to each header.
LEMMA PrependFields ==
    ASSUME NEW D, D \subseteq Pointers, NEW h \in HeapsAt(D), NEW x \in D
    PROVE  LET u == Prepend(h, x)
           IN  /\ u \in HeapsAt(D) /\ SameBlocks(u, h, D) /\ u.first_free = x
               /\ \A a \in D :
                    /\ u.mem[a].next_free = IF a = x THEN h.first_free ELSE h.mem[a].next_free
                    /\ u.mem[a].prev_free = IF a = h.first_free THEN x ELSE h.mem[a].prev_free
<1> DEFINE v == [a \in D |-> IF a = x THEN h.first_free ELSE h.mem[a].next_free]
           w == [a \in D |-> IF a = h.first_free THEN x ELSE h.mem[a].prev_free]
           u == Prepend(h, x)
<1>1. /\ DOMAIN h.mem = D /\ h.first_free \in Pointers
      /\ \A a \in D : h.mem[a].next_free \in Pointers /\ h.mem[a].prev_free \in Pointers
  BY DEF HeapsAt, Headers
<1>2. v \in [D -> Pointers] /\ w \in [D -> Pointers] /\ x \in Pointers
  BY <1>1
<1>3. u = [mem |-> [a \in D |-> Relinked(h.mem[a],
                      IF a = x THEN h.first_free ELSE h.mem[a].next_free,
                      IF a = h.first_free THEN x ELSE h.mem[a].prev_free)],
           first_free |-> x]
  BY <1>1 DEF Prepend, Relinked
<1>4. u = [mem |-> [a \in D |-> Relinked(h.mem[a], v[a], w[a])], first_free |-> x]
  BY <1>3
<1>5. \A a \in D : /\ v[a] = IF a = x THEN h.first_free ELSE h.mem[a].next_free
                   /\ w[a] = IF a = h.first_free THEN x ELSE h.mem[a].prev_free
  OBVIOUS
<1> HIDE DEF v, w, u
<1>6. /\ u \in HeapsAt(D) /\ SameBlocks(u, h, D) /\ u.first_free = x
      /\ \A a \in D : u.mem[a].next_free = v[a] /\ u.mem[a].prev_free = w[a]
  BY <1>2, <1>4, AllRelinked
<1> QED BY <1>5, <1>6 DEF u

\* list is the free list of heap h, linked both ways
Linked(h, D, list) ==
    /\ list \in Seq(D) /\ Distinct(list)
    /\ h.first_free = IF Len(list) = 0 THEN NULL ELSE list[1]
    /\ \A k \in 1 .. Len(list) :
         /\ h.mem[list[k]].prev_free = IF k = 1 THEN NULL ELSE list[k - 1]
         /\ h.mem[list[k]].next_free = IF k = Len(list) THEN NULL ELSE list[k + 1]

\* The links of the headers in S are the same
SameLinks(g, h, S) ==
    \A a \in S : g.mem[a].prev_free = h.mem[a].prev_free /\ g.mem[a].next_free = h.mem[a].next_free

\* Addresses are not NULL.
LEMMA NotNull ==
    ASSUME NEW D \in SUBSET Addresses
    PROVE  D \subseteq Pointers /\ D \subseteq Nat /\ NULL \notin D
<1>1. PoolSize \in Nat /\ NULL \notin Nat
  BY PoolAssumption
<1>2. Addresses \subseteq Nat
  BY <1>1 DEF Addresses
<1> QED BY <1>1, <1>2 DEF Pointers

\* A list stays the free list of a heap whose first_free and links are the same.
LEMMA StaysLinked ==
    ASSUME NEW D, NEW E, NEW h, NEW g, NEW list, Linked(h, D, list), list \in Seq(E),
           g.first_free = h.first_free, SameLinks(g, h, InList(list))
    PROVE  Linked(g, E, list)
<1>1. \A k \in 1 .. Len(list) :
        /\ g.mem[list[k]].prev_free = h.mem[list[k]].prev_free
        /\ g.mem[list[k]].next_free = h.mem[list[k]].next_free
  BY DEF SameLinks, InList
<1> QED BY <1>1 DEF Linked

\* The neighbours of the k-th entry are the only ones that its links name.
LEMMA LinkedNeighbours ==
    ASSUME NEW D \in SUBSET Addresses, NEW h \in HeapsAt(D), NEW list, Linked(h, D, list),
           NEW k \in 1 .. Len(list)
    PROVE  LET p == h.mem[list[k]].prev_free
               n == h.mem[list[k]].next_free
           IN  /\ p = IF k = 1 THEN NULL ELSE list[k - 1]
               /\ n = IF k = Len(list) THEN NULL ELSE list[k + 1]
               /\ p = NULL <=> k = 1
               /\ \A j \in 1 .. Len(list) : list[j] = p <=> j = k - 1
               /\ \A j \in 1 .. Len(list) : list[j] = n <=> j = k + 1
               /\ \A a \in D \ InList(list) : a # p /\ a # n
<1> DEFINE p == h.mem[list[k]].prev_free
           n == h.mem[list[k]].next_free
<1>1. /\ Len(list) \in Nat /\ \A j \in 1 .. Len(list) : list[j] \in D
      /\ \A i, j \in 1 .. Len(list) : list[i] = list[j] => i = j
  BY LenProperties DEF Linked, Distinct
<1>2. /\ p = IF k = 1 THEN NULL ELSE list[k - 1]
      /\ n = IF k = Len(list) THEN NULL ELSE list[k + 1]
  BY DEF Linked
<1>3. NULL \notin D
  BY NotNull
<1> HIDE DEF p, n
<1>4. p = NULL <=> k = 1
  BY <1>1, <1>2, <1>3
<1>5. \A j \in 1 .. Len(list) : list[j] = p <=> j = k - 1
  BY <1>1, <1>2, <1>3
<1>6. \A j \in 1 .. Len(list) : list[j] = n <=> j = k + 1
  BY <1>1, <1>2, <1>3
<1>7. \A j \in 1 .. Len(list) : list[j] \in InList(list)
  BY DEF InList
<1>8. \A a \in D \ InList(list) : a # p /\ a # n
  <2>1. p = NULL \/ p \in InList(list)
    BY <1>1, <1>2, <1>7
  <2>2. n = NULL \/ n \in InList(list)
    BY <1>1, <1>2, <1>7
  <2> QED BY <1>3, <2>1, <2>2
<1> QED BY <1>2, <1>4, <1>5, <1>6, <1>8 DEF p, n

\* Unlink takes one entry out of the list and touches no block that is not listed.
LEMMA UnlinkList ==
    ASSUME NEW D \in SUBSET Addresses, NEW h \in HeapsAt(D), NEW list, Linked(h, D, list),
           NEW k \in 1 .. Len(list)
    PROVE  \E l : /\ Linked(Unlink(h, list[k]), D, l)
                  /\ InList(l) = InList(list) \ {list[k]}
                  /\ SameLinks(Unlink(h, list[k]), h, D \ InList(list))
<1> DEFINE p == h.mem[list[k]].prev_free
           n == h.mem[list[k]].next_free
           L == Len(list)
           u == Unlink(h, list[k])
           l == [i \in 1 .. L - 1 |-> IF i < k THEN list[i] ELSE list[i + 1]]
<1>1. /\ L \in Nat /\ \A j \in 1 .. L : list[j] \in D
      /\ \A i, j \in 1 .. L : list[i] = list[j] => i = j
      /\ h.first_free = IF L = 0 THEN NULL ELSE list[1]
  BY LenProperties DEF Linked, Distinct
<1>2. /\ p = IF k = 1 THEN NULL ELSE list[k - 1]
      /\ n = IF k = L THEN NULL ELSE list[k + 1]
      /\ p = NULL <=> k = 1
      /\ \A j \in 1 .. L : list[j] = p <=> j = k - 1
      /\ \A j \in 1 .. L : list[j] = n <=> j = k + 1
      /\ \A a \in D \ InList(list) : a # p /\ a # n
  BY LinkedNeighbours
<1>3. list[k] \in D
  BY <1>1
<1>4. /\ u.first_free = IF p = NULL THEN n ELSE h.first_free
      /\ \A a \in D : /\ u.mem[a].next_free = IF a = p THEN n ELSE h.mem[a].next_free
                      /\ u.mem[a].prev_free = IF a = n THEN p ELSE h.mem[a].prev_free
  BY <1>3, UnlinkFields
<1>5. \A j \in 1 .. L :
        /\ h.mem[list[j]].prev_free = IF j = 1 THEN NULL ELSE list[j - 1]
        /\ h.mem[list[j]].next_free = IF j = L THEN NULL ELSE list[j + 1]
  BY DEF Linked
<1>6. /\ l \in Seq(D) /\ Len(l) = L - 1
      /\ \A i \in 1 .. L - 1 : l[i] = IF i < k THEN list[i] ELSE list[i + 1]
  BY <1>1
<1> HIDE DEF p, n, L, u, l
<1>7. ASSUME NEW j \in 1 .. L
      PROVE  /\ u.mem[list[j]].next_free = IF j = k - 1 THEN n
                                           ELSE IF j = L THEN NULL ELSE list[j + 1]
             /\ u.mem[list[j]].prev_free = IF j = k + 1 THEN p
                                           ELSE IF j = 1 THEN NULL ELSE list[j - 1]
  <2>1. /\ list[j] \in D
        /\ list[j] = p <=> j = k - 1
        /\ list[j] = n <=> j = k + 1
    BY <1>1, <1>2
  <2>2. /\ u.mem[list[j]].next_free = IF list[j] = p THEN n ELSE h.mem[list[j]].next_free
        /\ u.mem[list[j]].prev_free = IF list[j] = n THEN p ELSE h.mem[list[j]].prev_free
    BY <1>4, <2>1
  <2> QED BY <1>5, <2>1, <2>2
<1>8. Distinct(l)
  <2>1. ASSUME NEW i \in 1 .. L - 1, NEW j \in 1 .. L - 1, l[i] = l[j] PROVE i = j
    BY <1>1, <1>6, <2>1 DEF L
  <2> QED BY <1>6, <2>1 DEF Distinct
<1>9. u.first_free = IF Len(l) = 0 THEN NULL ELSE l[1]
  <2>1. k \in 1 .. L
    BY DEF L
  <2> QED BY <1>1, <1>2, <1>4, <1>6, <2>1
<1>10. ASSUME NEW i \in 1 .. Len(l)
       PROVE  /\ u.mem[l[i]].prev_free = IF i = 1 THEN NULL ELSE l[i - 1]
              /\ u.mem[l[i]].next_free = IF i = Len(l) THEN NULL ELSE l[i + 1]
  <2>1. k \in 1 .. L /\ i \in 1 .. L - 1
    BY <1>6 DEF L
  <2>2. /\ i # 1 => l[i - 1] = IF i - 1 < k THEN list[i - 1] ELSE list[i]
        /\ i # L - 1 => l[i + 1] = IF i + 1 < k THEN list[i + 1] ELSE list[i + 2]
    <3>1. CASE i # 1
      <4>1. i - 1 \in 1 .. L - 1 /\ (i - 1) + 1 = i
        BY <1>1, <2>1, <3>1
      <4> QED BY <1>6, <3>1, <4>1
    <3>2. CASE i # L - 1
      <4>1. i + 1 \in 1 .. L - 1 /\ (i + 1) + 1 = i + 2
        BY <1>1, <2>1, <3>2
      <4> QED BY <1>6, <3>2, <4>1
    <3> QED BY <3>1, <3>2
  <2>3. CASE i < k
    <3>1. l[i] = list[i] /\ i \in 1 .. L /\ i # k + 1 /\ i - 1 < k
      BY <1>1, <1>6, <2>1, <2>3
    <3>2. u.mem[l[i]].prev_free = IF i = 1 THEN NULL ELSE list[i - 1]
      BY <1>7, <3>1
    <3>3. u.mem[l[i]].next_free = IF i = k - 1 THEN n ELSE IF i = L THEN NULL ELSE list[i + 1]
      BY <1>7, <3>1
    <3>4. i # L /\ (i = k - 1 => k # 1 /\ (k = L <=> i = L - 1) /\ k + 1 = i + 2)
               /\ (i # k - 1 => i + 1 < k /\ i # L - 1)
      BY <1>1, <2>1, <2>3
    <3>5. i = k - 1 => ~(i + 1 < k)
      BY <2>1
    <3>6. u.mem[l[i]].next_free = IF i = L - 1 THEN NULL ELSE l[i + 1]
      BY <1>2, <2>2, <3>3, <3>4, <3>5
    <3> QED BY <1>6, <2>2, <3>1, <3>2, <3>6
  <2>4. CASE i >= k
    <3>1. l[i] = list[i + 1] /\ i + 1 \in 1 .. L /\ i + 1 # k - 1 /\ i + 1 # 1 /\ ~(i + 1 < k)
      BY <1>1, <1>6, <2>1, <2>4
    <3>2. (i + 1) - 1 = i /\ (i + 1) + 1 = i + 2 /\ (i + 1 = L <=> i = L - 1)
      BY <1>1, <2>1
    <3>3. u.mem[l[i]].next_free = IF i = L - 1 THEN NULL ELSE list[i + 2]
      BY <1>7, <3>1, <3>2
    <3>4. u.mem[l[i]].prev_free = IF i + 1 = k + 1 THEN p ELSE list[i]
      BY <1>7, <3>1, <3>2
    <3>5. (i + 1 = k + 1 <=> i = k) /\ (i = k => i - 1 < k /\ k - 1 = i - 1)
          /\ (i # k => ~(i - 1 < k) /\ i # 1)
      BY <2>1, <2>4
    <3>6. u.mem[l[i]].prev_free = IF i = 1 THEN NULL ELSE l[i - 1]
      BY <1>2, <2>2, <3>4, <3>5
    <3> QED BY <1>6, <2>2, <3>1, <3>3, <3>6
  <2> QED BY <1>1, <2>1, <2>3, <2>4
<1>11. InList(l) = InList(list) \ {list[k]}
  <2>1. ASSUME NEW a \in InList(l) PROVE a \in InList(list) \ {list[k]}
    <3>1. PICK i \in 1 .. L - 1 : a = l[i]
      BY <1>6, <2>1 DEF InList
    <3>2. \E j \in 1 .. L : j # k /\ a = list[j]
      BY <1>1, <1>6, <3>1 DEF L
    <3> QED BY <1>1, <3>2 DEF InList, L
  <2>2. ASSUME NEW a \in InList(list) \ {list[k]} PROVE a \in InList(l)
    <3>1. PICK j \in 1 .. L : a = list[j]
      BY <2>2 DEF InList, L
    <3>2. \E i \in 1 .. L - 1 : a = l[i]
      <4>1. CASE j < k
        BY <1>1, <1>6, <3>1, <4>1 DEF L
      <4>2. CASE j > k
        <5>1. j - 1 \in 1 .. L - 1 /\ ~(j - 1 < k) /\ (j - 1) + 1 = j
          BY <1>1, <4>2 DEF L
        <5> QED BY <1>6, <3>1, <5>1
      <4> QED BY <1>1, <2>2, <3>1, <4>1, <4>2
    <3> QED BY <1>6, <3>2 DEF InList
  <2> QED BY <2>1, <2>2
<1>12. SameLinks(u, h, D \ InList(list))
  BY <1>2, <1>4 DEF SameLinks
<1>13. Linked(u, D, l)
  BY <1>6, <1>8, <1>9, <1>10 DEF Linked
<1> QED BY <1>11, <1>12, <1>13 DEF u

\* Replace puts a block at the place of an entry and touches no other that is not listed.
LEMMA ReplaceList ==
    ASSUME NEW D \in SUBSET Addresses, NEW h \in HeapsAt(D), NEW list, Linked(h, D, list),
           NEW k \in 1 .. Len(list), NEW x \in D \ InList(list)
    PROVE  \E l : /\ Linked(Replace(h, list[k], x), D, l)
                  /\ InList(l) = (InList(list) \ {list[k]}) \cup {x}
                  /\ SameLinks(Replace(h, list[k], x), h, D \ (InList(list) \cup {x}))
<1> DEFINE p == h.mem[list[k]].prev_free
           n == h.mem[list[k]].next_free
           L == Len(list)
           u == Replace(h, list[k], x)
           l == [list EXCEPT ![k] = x]
<1>1. /\ L \in Nat /\ \A j \in 1 .. L : list[j] \in D
      /\ \A i, j \in 1 .. L : list[i] = list[j] => i = j
      /\ h.first_free = IF L = 0 THEN NULL ELSE list[1]
  BY LenProperties DEF Linked, Distinct
<1>2. /\ p = IF k = 1 THEN NULL ELSE list[k - 1]
      /\ n = IF k = L THEN NULL ELSE list[k + 1]
      /\ p = NULL <=> k = 1
      /\ \A j \in 1 .. L : list[j] = p <=> j = k - 1
      /\ \A j \in 1 .. L : list[j] = n <=> j = k + 1
      /\ \A a \in D \ InList(list) : a # p /\ a # n
  BY LinkedNeighbours
<1>3. list[k] \in D /\ k \in 1 .. L /\ x \in D /\ D \subseteq Pointers
  BY <1>1, NotNull
<1>4. /\ u.first_free = IF p = NULL THEN x ELSE h.first_free
      /\ \A a \in D : /\ u.mem[a].next_free = IF a = p THEN x ELSE IF a = x THEN n
                                              ELSE h.mem[a].next_free
                      /\ u.mem[a].prev_free = IF a = n THEN x ELSE IF a = x THEN p
                                              ELSE h.mem[a].prev_free
  <2> DEFINE old == list[k]
  <2>1. old \in D /\ x \in D /\ D \subseteq Pointers
    BY <1>3
  <2> HIDE DEF old
  <2>2. LET q == h.mem[old].prev_free
            m == h.mem[old].next_free
            r == Replace(h, old, x)
        IN  /\ r.first_free = IF q = NULL THEN x ELSE h.first_free
            /\ \A a \in D : /\ r.mem[a].next_free = IF a = q THEN x ELSE IF a = x THEN m
                                                   ELSE h.mem[a].next_free
                            /\ r.mem[a].prev_free = IF a = m THEN x ELSE IF a = x THEN q
                                                   ELSE h.mem[a].prev_free
    BY <2>1, ReplaceFields
  <2> QED BY <2>2 DEF old
<1>5. \A j \in 1 .. L :
        /\ h.mem[list[j]].prev_free = IF j = 1 THEN NULL ELSE list[j - 1]
        /\ h.mem[list[j]].next_free = IF j = L THEN NULL ELSE list[j + 1]
  BY DEF Linked
<1>6. /\ l \in Seq(D) /\ Len(l) = L
      /\ \A i \in 1 .. L : l[i] = IF i = k THEN x ELSE list[i]
  BY <1>3, ExceptSeq DEF Linked
<1>7. \A j \in 1 .. L : list[j] # x
  BY DEF InList
<1>8. x # p /\ x # n
  BY <1>2
<1> HIDE DEF p, n, L, u, l
<1>9. ASSUME NEW j \in 1 .. L, j # k
      PROVE  /\ u.mem[list[j]].next_free = IF j = L THEN NULL
                                           ELSE IF j + 1 = k THEN x ELSE list[j + 1]
             /\ u.mem[list[j]].prev_free = IF j = 1 THEN NULL
                                           ELSE IF j - 1 = k THEN x ELSE list[j - 1]
  <2>1. /\ list[j] \in D /\ list[j] # x
        /\ list[j] = p <=> j = k - 1
        /\ list[j] = n <=> j = k + 1
    BY <1>1, <1>2, <1>7
  <2>2. /\ u.mem[list[j]].next_free = IF list[j] = p THEN x ELSE h.mem[list[j]].next_free
        /\ u.mem[list[j]].prev_free = IF list[j] = n THEN x ELSE h.mem[list[j]].prev_free
    BY <1>4, <2>1
  <2>3. (j = k - 1 <=> j + 1 = k) /\ (j = k + 1 <=> j - 1 = k)
        /\ (j + 1 = k => j # L) /\ (j - 1 = k => j # 1)
    BY <1>1, <1>3
  <2> QED BY <1>5, <2>1, <2>2, <2>3
<1>10. u.mem[x].next_free = n /\ u.mem[x].prev_free = p
  BY <1>3, <1>4, <1>8
<1>11. Distinct(l)
  BY <1>1, <1>6, <1>7 DEF Distinct
<1>12. u.first_free = IF Len(l) = 0 THEN NULL ELSE l[1]
  BY <1>1, <1>2, <1>3, <1>4, <1>6
<1>13. ASSUME NEW i \in 1 .. Len(l)
       PROVE  /\ u.mem[l[i]].prev_free = IF i = 1 THEN NULL ELSE l[i - 1]
              /\ u.mem[l[i]].next_free = IF i = Len(l) THEN NULL ELSE l[i + 1]
  <2>1. i \in 1 .. L
    BY <1>6
  <2>2. /\ i # 1 => i - 1 \in 1 .. L
        /\ i # L => i + 1 \in 1 .. L
    BY <1>1, <2>1
  <2>3. /\ i # 1 => l[i - 1] = IF i - 1 = k THEN x ELSE list[i - 1]
        /\ i # L => l[i + 1] = IF i + 1 = k THEN x ELSE list[i + 1]
    BY <1>6, <2>2
  <2>4. CASE i = k
    <3>1. l[i] = x /\ k - 1 # k /\ k + 1 # k
      BY <1>6, <2>1, <2>4
    <3> QED BY <1>2, <1>6, <1>10, <2>3, <2>4, <3>1
  <2>5. CASE i # k
    <3>1. l[i] = list[i]
      BY <1>6, <2>1, <2>5
    <3> QED BY <1>6, <1>9, <2>1, <2>3, <2>5, <3>1
  <2> QED BY <2>4, <2>5
<1>14. InList(l) = (InList(list) \ {list[k]}) \cup {x}
  <2>1. ASSUME NEW a \in InList(l) PROVE a \in (InList(list) \ {list[k]}) \cup {x}
    <3>1. PICK i \in 1 .. L : a = l[i]
      BY <1>6, <2>1 DEF InList
    <3> QED BY <1>1, <1>3, <1>6, <3>1 DEF InList, L
  <2>2. x \in InList(l)
    BY <1>3, <1>6 DEF InList
  <2>3. ASSUME NEW a \in InList(list) \ {list[k]} PROVE a \in InList(l)
    <3>1. PICK j \in 1 .. L : a = list[j]
      BY <2>3 DEF InList, L
    <3>2. a = l[j]
      BY <1>6, <2>3, <3>1
    <3> QED BY <1>6, <3>2 DEF InList
  <2> QED BY <2>1, <2>2, <2>3
<1>15. SameLinks(u, h, D \ (InList(list) \cup {x}))
  BY <1>2, <1>4 DEF SameLinks
<1>16. Linked(u, D, l)
  BY <1>6, <1>11, <1>12, <1>13 DEF Linked
<1> QED BY <1>14, <1>15, <1>16 DEF u

\* Prepend puts a block in front of the list and touches no other that is not listed.
LEMMA PrependList ==
    ASSUME NEW D \in SUBSET Addresses, NEW h \in HeapsAt(D), NEW list, Linked(h, D, list),
           NEW x \in D \ InList(list), h.mem[x].prev_free = NULL
    PROVE  \E l : /\ Linked(Prepend(h, x), D, l)
                  /\ InList(l) = InList(list) \cup {x}
                  /\ SameLinks(Prepend(h, x), h, D \ (InList(list) \cup {x}))
<1> DEFINE L == Len(list)
           u == Prepend(h, x)
           l == <<x>> \o list
<1>1. /\ L \in Nat /\ \A j \in 1 .. L : list[j] \in D
      /\ \A i, j \in 1 .. L : list[i] = list[j] => i = j
      /\ h.first_free = IF L = 0 THEN NULL ELSE list[1]
      /\ list \in Seq(D) /\ Distinct(list)
  BY LenProperties DEF Linked, Distinct
<1>2. x \in D /\ D \subseteq Pointers /\ NULL \notin D
  BY NotNull
<1>3. /\ u.first_free = x
      /\ \A a \in D : /\ u.mem[a].next_free = IF a = x THEN h.first_free
                                              ELSE h.mem[a].next_free
                      /\ u.mem[a].prev_free = IF a = h.first_free THEN x
                                              ELSE h.mem[a].prev_free
  BY <1>2, PrependFields
<1>4. \A j \in 1 .. L :
        /\ h.mem[list[j]].prev_free = IF j = 1 THEN NULL ELSE list[j - 1]
        /\ h.mem[list[j]].next_free = IF j = L THEN NULL ELSE list[j + 1]
  BY DEF Linked
<1>5. l \in Seq(D) /\ Distinct(l) /\ InList(l) = InList(list) \cup {x}
  <2>1. x \in D /\ x \notin InList(list)
    OBVIOUS
  <2> QED BY <1>1, <2>1, PushProperties
<1>6. /\ Len(l) = L + 1
      /\ \A i \in 1 .. L + 1 : l[i] = IF i = 1 THEN x ELSE list[i - 1]
  <2>1. <<x>> \in Seq(D) /\ Len(<<x>>) = 1 /\ <<x>>[1] = x
    OBVIOUS
  <2>2. /\ Len(<<x>> \o list) = 1 + L
        /\ \A i \in 1 .. 1 + L : (<<x>> \o list)[i] = IF i <= 1 THEN <<x>>[i] ELSE list[i - 1]
    BY <1>1, <2>1, ConcatProperties
  <2> QED BY <1>1, <2>1, <2>2
<1>7. \A j \in 1 .. L : list[j] # x
  BY DEF InList
<1> HIDE DEF L, u, l
<1>8. ASSUME NEW j \in 1 .. L
      PROVE  /\ u.mem[list[j]].next_free = IF j = L THEN NULL ELSE list[j + 1]
             /\ u.mem[list[j]].prev_free = IF j = 1 THEN x ELSE list[j - 1]
  <2>1. list[j] \in D /\ list[j] # x /\ 1 \in 1 .. L /\ L # 0
    BY <1>1, <1>7
  <2>2. list[j] = h.first_free <=> j = 1
    BY <1>1, <2>1
  <2> QED BY <1>3, <1>4, <2>1, <2>2
<1>9. u.mem[x].prev_free = NULL /\ u.mem[x].next_free = IF L = 0 THEN NULL ELSE list[1]
  <2>1. x # h.first_free
    BY <1>1, <1>2, <1>7
  <2> QED BY <1>1, <1>2, <1>3, <2>1
<1>10. ASSUME NEW i \in 1 .. Len(l)
       PROVE  /\ u.mem[l[i]].prev_free = IF i = 1 THEN NULL ELSE l[i - 1]
              /\ u.mem[l[i]].next_free = IF i = Len(l) THEN NULL ELSE l[i + 1]
  <2>1. i \in 1 .. L + 1
    BY <1>6
  <2>2. CASE i = 1
    <3>1. l[i] = x /\ (i = L + 1 <=> L = 0) /\ (L # 0 => l[i + 1] = list[1])
      <4>1. L # 0 => i + 1 \in 1 .. L + 1 /\ (i + 1) - 1 = 1 /\ i + 1 # 1
        BY <1>1, <2>2
      <4>2. i = L + 1 <=> L = 0
        BY <1>1, <2>2
      <4> QED BY <1>6, <2>1, <2>2, <4>1, <4>2
    <3> QED BY <1>6, <1>9, <2>2, <3>1
  <2>3. CASE i # 1
    <3> DEFINE j == i - 1
    <3>1. j \in 1 .. L /\ i = j + 1 /\ (i = L + 1 <=> j = L) /\ i \in 1 .. L + 1
      BY <1>1, <2>1, <2>3
    <3>2. j # 1 => l[i - 1] = list[j - 1]
      BY <1>1, <1>6, <3>1
    <3>3. j = 1 => l[i - 1] = x
      BY <1>1, <1>6, <3>1
    <3>4. i # L + 1 => l[i + 1] = list[j + 1]
      <4>1. i # L + 1 => i + 1 \in 1 .. L + 1 /\ (i + 1) - 1 = j + 1 /\ i + 1 # 1
        BY <1>1, <3>1, SMTT(30)
      <4> QED BY <1>6, <4>1
    <3>5. l[i] = list[j]
      BY <1>6, <2>3, <3>1
    <3> HIDE DEF j
    <3> QED BY <1>6, <1>8, <2>3, <3>1, <3>2, <3>3, <3>4, <3>5
  <2> QED BY <2>2, <2>3
<1>11. SameLinks(u, h, D \ (InList(list) \cup {x}))
  <2>1. h.first_free = NULL \/ h.first_free \in InList(list)
    BY <1>1 DEF InList, L
  <2> QED BY <1>2, <1>3, <2>1 DEF SameLinks
<1>12. u.first_free = IF Len(l) = 0 THEN NULL ELSE l[1]
  BY <1>1, <1>3, <1>6
<1>13. Linked(u, D, l)
  BY <1>5, <1>10, <1>12 DEF Linked
<1> QED BY <1>5, <1>11, <1>13 DEF u

-----------------------------------------------------------------------------
(***************************************************************************)
(* The chain                                                               *)
(***************************************************************************)
\* Where the block with the header at a ends
Ends(m, a) == a + HeaderSize + m[a].size

\* The headers m at the addresses of D form the chain of the pool
Chained(m, D) ==
    /\ D \in SUBSET Addresses /\ first \in D
    /\ \A a \in D :
         /\ m[a].size \in Nat /\ Ends(m, a) <= PoolSize
         /\ m[a].next = IF Ends(m, a) = PoolSize THEN NULL ELSE Ends(m, a)
         /\ m[a].next # NULL => m[a].next \in D /\ m[m[a].next].prev = a
    /\ \A a \in D : a # first => m[a].prev \in D /\ m[m[a].prev].next = a
    /\ m[first].prev = NULL
    /\ \A a, b \in D : a < b => Ends(m, a) <= b

\* The constants, without the divisibility that the chain does not need.
LEMMA PoolNumbers ==
    /\ PoolSize \in Nat /\ HeaderSize \in Nat /\ HeaderSize > 0 /\ NULL \notin Nat
    /\ Addresses \subseteq Nat /\ \A a \in Addresses : a < PoolSize
<1>1. PoolSize \in Nat /\ HeaderSize \in Nat /\ HeaderSize > 0 /\ NULL \notin Nat
  BY PoolAssumption
<1>2. Addresses \subseteq Nat /\ \A a \in Addresses : a < PoolSize
  BY <1>1 DEF Addresses
<1> QED BY <1>1, <1>2

\* The block behind follows at once, and is not the first.
LEMMA NextInChain ==
    ASSUME NEW D, NEW m, Chained(m, D), NEW a \in D, m[a].next # NULL
    PROVE  /\ m[a].next \in D /\ m[m[a].next].prev = a /\ m[a].next = Ends(m, a)
           /\ a \in Nat /\ m[a].next \in Nat /\ a < m[a].next /\ m[a].next # first
<1>1. a \in Nat /\ m[a].size \in Nat
  BY PoolNumbers DEF Chained
<1>2. m[a].next \in D /\ m[m[a].next].prev = a /\ m[a].next = Ends(m, a)
  BY DEF Chained
<1> QED BY <1>1, <1>2, PoolNumbers DEF Ends, first

\* Taking in the block behind keeps the chain.
LEMMA MergeChain ==
    ASSUME NEW D, NEW m, Chained(m, D), NEW a \in D, NEW b, b = m[a].next, b # NULL,
           NEW g,
           \A x \in D \ {b} :
             /\ g[x].size = IF x = a THEN m[a].size + HeaderSize + m[b].size ELSE m[x].size
             /\ g[x].next = IF x = a THEN m[b].next ELSE m[x].next
             /\ g[x].prev = IF x = m[b].next THEN a ELSE m[x].prev
    PROVE  Chained(g, D \ {b})
<1> DEFINE n == m[b].next
           E == D \ {b}
<1>1. /\ b \in D /\ m[b].prev = a /\ b = Ends(m, a) /\ a \in Nat /\ b \in Nat /\ a < b
      /\ b # first
  BY NextInChain
<1>2. /\ \A x \in D : /\ x \in Nat /\ m[x].size \in Nat /\ Ends(m, x) <= PoolSize
                      /\ m[x].next = IF Ends(m, x) = PoolSize THEN NULL ELSE Ends(m, x)
                      /\ m[x].next # NULL => m[x].next \in D /\ m[m[x].next].prev = x
      /\ D \in SUBSET Addresses /\ first \in D
      /\ \A x \in D : x # first => m[x].prev \in D /\ m[m[x].prev].next = x
      /\ m[first].prev = NULL
      /\ \A x, y \in D : x < y => Ends(m, x) <= y
  BY PoolNumbers DEF Chained
<1>3. n # NULL => n \in D /\ m[n].prev = b /\ b < n /\ n \in Nat /\ n # first
  BY <1>1, NextInChain
<1>4. /\ Ends(g, a) = Ends(m, b) /\ g[a].size \in Nat
      /\ \A x \in E : x # a => Ends(g, x) = Ends(m, x) /\ g[x].size \in Nat
  <2>1. a \in E /\ m[a].size \in Nat /\ m[b].size \in Nat
    BY <1>1, <1>2
  <2>2. g[a].size = m[a].size + HeaderSize + m[b].size
    BY <2>1
  <2>3. Ends(g, a) = Ends(m, b)
    BY <1>1, <2>1, <2>2, PoolNumbers DEF Ends
  <2>4. ASSUME NEW x \in E, x # a PROVE Ends(g, x) = Ends(m, x) /\ g[x].size \in Nat
    BY <1>2, <2>4 DEF Ends
  <2> QED BY <2>1, <2>2, <2>3, <2>4, PoolNumbers
<1>5. \A x \in E : /\ g[x].next = IF x = a THEN n ELSE m[x].next
                   /\ g[x].prev = IF x = n THEN a ELSE m[x].prev
  OBVIOUS
<1> HIDE DEF n
<1>6. ASSUME NEW x \in E
      PROVE  /\ g[x].size \in Nat /\ Ends(g, x) <= PoolSize
             /\ g[x].next = IF Ends(g, x) = PoolSize THEN NULL ELSE Ends(g, x)
             /\ g[x].next # NULL => g[x].next \in E /\ g[g[x].next].prev = x
  <2>1. CASE x = a
    <3>1. /\ g[x].size \in Nat /\ Ends(g, x) <= PoolSize
          /\ g[x].next = IF Ends(g, x) = PoolSize THEN NULL ELSE Ends(g, x)
      BY <1>1, <1>2, <1>4, <1>5, <2>1 DEF n
    <3>2. ASSUME g[x].next # NULL PROVE g[x].next \in E /\ g[g[x].next].prev = x
      <4>1. g[x].next = n /\ n # NULL
        BY <1>5, <2>1, <3>2
      <4>2. n \in E
        BY <1>1, <1>3, <4>1
      <4> QED BY <1>5, <2>1, <4>1, <4>2
    <3> QED BY <3>1, <3>2
  <2>2. CASE x # a
    <3>1. /\ g[x].size \in Nat /\ Ends(g, x) <= PoolSize
          /\ g[x].next = IF Ends(g, x) = PoolSize THEN NULL ELSE Ends(g, x)
      BY <1>2, <1>4, <1>5, <2>2
    <3>2. ASSUME g[x].next # NULL PROVE g[x].next \in E /\ g[g[x].next].prev = x
      <4> DEFINE y == m[x].next
      <4>1. g[x].next = y
        BY <1>5, <2>2
      <4>2. y \in D /\ m[y].prev = x
        BY <1>2, <3>2, <4>1
      <4>3. y # b
        BY <1>1, <2>2, <4>2
      <4>4. y # n
        <5>1. y # NULL
          BY <3>2, <4>1
        <5> QED BY <1>3, <4>2, <5>1
      <4> HIDE DEF y
      <4> QED BY <1>5, <4>1, <4>2, <4>3, <4>4
    <3> QED BY <3>1, <3>2
  <2> QED BY <2>1, <2>2
<1>7. ASSUME NEW x \in E, x # first PROVE g[x].prev \in E /\ g[g[x].prev].next = x
  <2>1. CASE x = n
    <3>1. g[x].prev = a /\ a \in E /\ g[a].next = n
      BY <1>1, <1>5, <2>1
    <3> QED BY <2>1, <3>1
  <2>2. CASE x # n
    <3> DEFINE y == m[x].prev
    <3>1. g[x].prev = y /\ y \in D /\ m[y].next = x
      BY <1>2, <1>5, <1>7, <2>2
    <3>2. y # b
      BY <2>2, <3>1 DEF n
    <3>3. y # a
      BY <3>1
    <3> HIDE DEF y
    <3> QED BY <1>5, <3>1, <3>2, <3>3
  <2> QED BY <2>1, <2>2
<1>8. first \in E /\ g[first].prev = NULL
  <2>1. first \in E /\ first # n
    <3>1. n = NULL => first # n
      BY PoolNumbers DEF first
    <3> QED BY <1>1, <1>2, <1>3, <3>1
  <2> QED BY <1>2, <1>5, <2>1
<1>9. ASSUME NEW x \in E, NEW y \in E, x < y PROVE Ends(g, x) <= y
  <2>1. CASE x = a
    <3>1. b < y
      <4>1. Ends(m, a) <= y /\ y # b /\ y \in Nat
        BY <1>2, <1>9, <2>1
      <4> QED BY <1>1, <4>1
    <3> QED BY <1>1, <1>2, <1>4, <2>1, <3>1
  <2>2. CASE x # a
    BY <1>2, <1>4, <1>9, <2>2
  <2> QED BY <2>1, <2>2
<1> QED BY <1>2, <1>6, <1>7, <1>8, <1>9 DEF Chained

\* Putting a header into a block keeps the chain.
LEMMA SplitChain ==
    ASSUME NEW D, NEW m, Chained(m, D), NEW a \in D, NEW len \in Nat, NEW b,
           b = a + HeaderSize + len, b + HeaderSize <= Ends(m, a),
           NEW g,
           \A x \in D \cup {b} :
             /\ g[x].size = IF x = a THEN len
                            ELSE IF x = b THEN m[a].size - len - HeaderSize ELSE m[x].size
             /\ g[x].next = IF x = a THEN b ELSE IF x = b THEN m[a].next ELSE m[x].next
             /\ g[x].prev = IF x = b THEN a ELSE IF x = m[a].next THEN b ELSE m[x].prev
    PROVE  b \notin D /\ Chained(g, D \cup {b})
<1> DEFINE n == m[a].next
           E == D \cup {b}
<1>1. /\ \A x \in D : /\ x \in Nat /\ m[x].size \in Nat /\ Ends(m, x) <= PoolSize
                      /\ m[x].next = IF Ends(m, x) = PoolSize THEN NULL ELSE Ends(m, x)
                      /\ m[x].next # NULL => m[x].next \in D /\ m[m[x].next].prev = x
      /\ D \in SUBSET Addresses /\ first \in D
      /\ \A x \in D : x # first => m[x].prev \in D /\ m[m[x].prev].next = x
      /\ m[first].prev = NULL
      /\ \A x, y \in D : x < y => Ends(m, x) <= y
  BY PoolNumbers DEF Chained
<1>2. /\ b \in Nat /\ a < b /\ b < Ends(m, a) /\ Ends(m, a) \in Nat /\ a \in Nat
      /\ \A x \in D : Ends(m, x) \in Nat /\ x < Ends(m, x)
  BY <1>1, PoolNumbers DEF Ends
<1>3. b \notin D
  BY <1>1, <1>2
<1>4. b \in Addresses /\ b # first
  BY <1>1, <1>2, PoolNumbers DEF Addresses, first
<1>5. n # NULL => n \in D /\ m[n].prev = a /\ n = Ends(m, a) /\ n # first
  BY NextInChain
<1>6. /\ g[a].size = len /\ Ends(g, a) = b
      /\ g[b].size \in Nat /\ Ends(g, b) = Ends(m, a)
      /\ \A x \in D : x # a => Ends(g, x) = Ends(m, x) /\ g[x].size \in Nat
  <2>1. g[a].size = len /\ g[b].size = m[a].size - len - HeaderSize
    BY <1>3
  <2>2. Ends(g, a) = b
    BY <2>1 DEF Ends
  <2>3. g[b].size \in Nat /\ Ends(g, b) = Ends(m, a)
    BY <1>1, <1>2, <2>1, PoolNumbers DEF Ends
  <2>4. ASSUME NEW x \in D, x # a PROVE Ends(g, x) = Ends(m, x) /\ g[x].size \in Nat
    BY <1>1, <1>3, <2>4 DEF Ends
  <2> QED BY <2>1, <2>2, <2>3, <2>4
<1>7. /\ g[a].next = b /\ g[b].next = n /\ g[b].prev = a
      /\ \A x \in D : /\ x # a => g[x].next = m[x].next
                      /\ g[x].prev = IF x = n THEN b ELSE m[x].prev
  BY <1>3
<1> HIDE DEF n
<1>8. ASSUME NEW x \in E
      PROVE  /\ g[x].size \in Nat /\ Ends(g, x) <= PoolSize
             /\ g[x].next = IF Ends(g, x) = PoolSize THEN NULL ELSE Ends(g, x)
             /\ g[x].next # NULL => g[x].next \in E /\ g[g[x].next].prev = x
  <2>1. CASE x = a
    <3>1. b < PoolSize
      BY <1>1, <1>2, PoolNumbers
    <3>2. b # PoolSize /\ b <= PoolSize
      BY <1>2, <3>1, PoolNumbers
    <3> QED BY <1>6, <1>7, <2>1, <3>2
  <2>2. CASE x = b
    <3>1. n = IF Ends(m, a) = PoolSize THEN NULL ELSE Ends(m, a)
      BY <1>1 DEF n
    <3>2. n # NULL => g[n].prev = b
      BY <1>5, <1>7
    <3> QED BY <1>1, <1>5, <1>6, <1>7, <2>2, <3>1, <3>2
  <2>3. CASE x # a /\ x # b
    <3> DEFINE y == m[x].next
    <3>1. x \in D /\ g[x].next = y
      BY <1>7, <2>3
    <3>2. y # NULL => y \in D /\ m[y].prev = x
      BY <1>1, <3>1
    <3>3. y # NULL => y # n
      BY <1>5, <2>3, <3>2
    <3>4. /\ g[x].size \in Nat /\ Ends(g, x) = Ends(m, x) /\ Ends(m, x) <= PoolSize
          /\ y = IF Ends(m, x) = PoolSize THEN NULL ELSE Ends(m, x)
      BY <1>1, <1>6, <2>3, <3>1
    <3> HIDE DEF y
    <3>5. y # NULL => g[y].prev = x
      BY <1>7, <3>2, <3>3
    <3> QED BY <3>1, <3>2, <3>4, <3>5
  <2> QED BY <2>1, <2>2, <2>3
<1>9. ASSUME NEW x \in E, x # first PROVE g[x].prev \in E /\ g[g[x].prev].next = x
  <2>1. CASE x = b
    BY <1>7, <2>1
  <2>2. CASE x = n /\ x # b
    BY <1>7, <2>2
  <2>3. CASE x # n /\ x # b
    <3> DEFINE y == m[x].prev
    <3>1. x \in D /\ g[x].prev = y /\ y \in D /\ m[y].next = x
      BY <1>1, <1>7, <1>9, <2>3
    <3>2. y # a
      BY <2>3, <3>1 DEF n
    <3> HIDE DEF y
    <3> QED BY <1>7, <3>1, <3>2
  <2> QED BY <2>1, <2>2, <2>3
<1>10. first \in E /\ g[first].prev = NULL
  <2>1. first # n
    <3>1. n = NULL => first # n
      BY PoolNumbers DEF first
    <3> QED BY <1>5, <3>1
  <2> QED BY <1>1, <1>7, <2>1
<1>11. ASSUME NEW x \in E, NEW y \in E, x < y PROVE Ends(g, x) <= y
  <2>1. CASE x = a
    <3>1. y # b => Ends(m, a) <= y /\ y \in Nat
      BY <1>1, <1>11, <2>1
    <3>2. b <= y
      BY <1>2, <3>1
    <3> QED BY <1>6, <2>1, <3>2
  <2>2. CASE x = b
    <3>1. y \in D /\ y # b
      BY <1>2, <1>11, <2>2
    <3>2. a < y
      BY <1>1, <1>2, <1>11, <2>2, <3>1
    <3> QED BY <1>1, <1>6, <2>2, <3>1, <3>2
  <2>3. CASE x # a /\ x # b
    <3>1. x \in D /\ Ends(g, x) = Ends(m, x)
      BY <1>6, <2>3
    <3>2. CASE y = b
      <4>1. x < a
        <5>1. x \in Nat /\ x # a /\ Ends(m, x) \in Nat
          BY <1>1, <1>2, <2>3, <3>1
        <5>2. ~(a < x)
          BY <1>1, <1>2, <1>11, <3>1, <3>2, <5>1
        <5> QED BY <1>2, <5>1, <5>2
      <4>2. Ends(m, x) <= a /\ Ends(m, x) \in Nat
        BY <1>1, <1>2, <3>1, <4>1
      <4> QED BY <1>2, <3>1, <3>2, <4>2
    <3>3. CASE y # b
      BY <1>1, <1>11, <3>1, <3>3
    <3> QED BY <3>2, <3>3
  <2> QED BY <2>1, <2>2, <2>3
<1>12. E \in SUBSET Addresses
  BY <1>1, <1>4
<1> QED BY <1>3, <1>8, <1>9, <1>10, <1>11, <1>12 DEF Chained

-----------------------------------------------------------------------------
(***************************************************************************)
(* What the other operators do to each header                              *)
(***************************************************************************)
\* Header r with s and a header more in its block, and n behind it
Grown(r, s, n) == [r EXCEPT !.size = r.size + HeaderSize + s, !.next = n]
\* Header r with p before it
Behind(r, p) == [r EXCEPT !.prev = p]
\* Header r of a block that is given out
Given(r) == [r EXCEPT !.alloc = 1, !.prev_free = NULL, !.next_free = NULL]
\* Header r of a block whose first len bytes are given out
GivenPart(r, len, n) == [r EXCEPT !.alloc = 1, !.size = len, !.next = n,
                                  !.prev_free = NULL, !.next_free = NULL]
\* Header r of a block that is given back
Back(r) == [r EXCEPT !.alloc = 0]

LEMMA GrownFields ==
    ASSUME NEW r \in Headers, NEW s \in Nat, NEW n \in Pointers
    PROVE  /\ Grown(r, s, n) \in Headers
           /\ Grown(r, s, n).size = r.size + HeaderSize + s /\ Grown(r, s, n).next = n
           /\ Grown(r, s, n).alloc = r.alloc /\ Grown(r, s, n).prev = r.prev
           /\ Grown(r, s, n).prev_free = r.prev_free /\ Grown(r, s, n).next_free = r.next_free
<1> DEFINE t == r.size + HeaderSize + s
<1>1. t \in Nat
  BY PoolNumbers DEF Headers
<1>2. Grown(r, s, n) = [r EXCEPT !.size = t, !.next = n]
  BY DEF Grown
<1> HIDE DEF t
<1>3. /\ Grown(r, s, n) \in Headers
      /\ Grown(r, s, n).size = t /\ Grown(r, s, n).next = n
      /\ Grown(r, s, n).alloc = r.alloc /\ Grown(r, s, n).prev = r.prev
      /\ Grown(r, s, n).prev_free = r.prev_free /\ Grown(r, s, n).next_free = r.next_free
  BY <1>1, <1>2 DEF Headers
<1> QED BY <1>3 DEF t

LEMMA BehindFields ==
    ASSUME NEW r \in Headers, NEW p \in Pointers
    PROVE  /\ Behind(r, p) \in Headers
           /\ Behind(r, p).prev = p /\ Behind(r, p).next = r.next
           /\ Behind(r, p).size = r.size /\ Behind(r, p).alloc = r.alloc
           /\ Behind(r, p).prev_free = r.prev_free /\ Behind(r, p).next_free = r.next_free
BY DEF Headers, Behind

LEMMA GivenFields ==
    ASSUME NEW r \in Headers
    PROVE  /\ Given(r) \in Headers
           /\ Given(r).alloc = 1 /\ Given(r).prev_free = NULL /\ Given(r).next_free = NULL
           /\ Given(r).size = r.size /\ Given(r).prev = r.prev /\ Given(r).next = r.next
BY DEF Headers, Given, Pointers

LEMMA GivenPartFields ==
    ASSUME NEW r \in Headers, NEW len \in Nat, NEW n \in Pointers
    PROVE  /\ GivenPart(r, len, n) \in Headers
           /\ GivenPart(r, len, n).alloc = 1 /\ GivenPart(r, len, n).size = len
           /\ GivenPart(r, len, n).next = n /\ GivenPart(r, len, n).prev = r.prev
           /\ GivenPart(r, len, n).prev_free = NULL /\ GivenPart(r, len, n).next_free = NULL
BY DEF Headers, GivenPart, Pointers

LEMMA BackFields ==
    ASSUME NEW r \in Headers
    PROVE  /\ Back(r) \in Headers /\ Back(r).alloc = 0
           /\ Back(r).size = r.size /\ Back(r).prev = r.prev /\ Back(r).next = r.next
           /\ Back(r).prev_free = r.prev_free /\ Back(r).next_free = r.next_free
BY DEF Headers, Back

\* u is heap h after the block with the header at a has taken in the one at b
Taken(u, h, D, a, b) ==
    /\ u \in HeapsAt(D \ {b}) /\ u.first_free = h.first_free
    /\ \A x \in D \ {b} :
         /\ u.mem[x].size = IF x = a THEN h.mem[a].size + HeaderSize + h.mem[b].size
                            ELSE h.mem[x].size
         /\ u.mem[x].next = IF x = a THEN h.mem[b].next ELSE h.mem[x].next
         /\ u.mem[x].prev = IF x = h.mem[b].next THEN a ELSE h.mem[x].prev
         /\ u.mem[x].alloc = h.mem[x].alloc
         /\ u.mem[x].prev_free = h.mem[x].prev_free
         /\ u.mem[x].next_free = h.mem[x].next_free

\* What Merge does to each header.
LEMMA MergeFields ==
    ASSUME NEW D \in SUBSET Addresses, NEW h \in HeapsAt(D), NEW a \in D, NEW b \in D, a # b
    PROVE  Taken(Merge(h, a, b), h, D, a, b)
<1> DEFINE n == h.mem[b].next
           s == h.mem[b].size
           u == Merge(h, a, b)
           m == [h.mem EXCEPT ![a] = Grown(h.mem[a], s, n)]
           E == D \ {b}
           g == [x \in E |-> IF x = n THEN Behind(m[x], a) ELSE m[x]]
<1>1. /\ h.mem \in [D -> Headers] /\ h.first_free \in Pointers
      /\ h = [mem |-> h.mem, first_free |-> h.first_free]
  BY DEF HeapsAt
<1>2. n \in Pointers /\ s \in Nat /\ a \in Pointers
  BY <1>1 DEF Headers, Pointers
<1>3. u = [h EXCEPT !.mem = g]
  <2>1. u = [h EXCEPT !.mem = [x \in DOMAIN m \ {b} |-> IF x = n THEN Behind(m[x], a) ELSE m[x]]]
    BY DEF Merge, Grown, Behind
  <2>2. DOMAIN m = D
    BY <1>1
  <2> HIDE DEF m
  <2> QED BY <2>1, <2>2
<1>4. ASSUME NEW x \in D
      PROVE  /\ m[x] \in Headers
             /\ m[x].size = IF x = a THEN h.mem[a].size + HeaderSize + s ELSE h.mem[x].size
             /\ m[x].next = IF x = a THEN n ELSE h.mem[x].next
             /\ m[x].prev = h.mem[x].prev /\ m[x].alloc = h.mem[x].alloc
             /\ m[x].prev_free = h.mem[x].prev_free /\ m[x].next_free = h.mem[x].next_free
  <2>1. m[x] = IF x = a THEN Grown(h.mem[a], s, n) ELSE h.mem[x]
    BY <1>1
  <2>2. h.mem[x] \in Headers
    BY <1>1
  <2> HIDE DEF m, n, s
  <2> QED BY <1>2, <2>1, <2>2, GrownFields
<1>5. \A x \in E : g[x] = IF x = n THEN Behind(m[x], a) ELSE m[x]
  OBVIOUS
<1>6. DOMAIN g = E /\ g = [x \in E |-> g[x]]
  OBVIOUS
<1>7. u.mem = g /\ u.first_free = h.first_free /\ u = [mem |-> g, first_free |-> h.first_free]
  BY <1>1, <1>3
<1> HIDE DEF m, n, s, g, u
<1>8. ASSUME NEW x \in E
      PROVE  /\ g[x] \in Headers
             /\ g[x].size = m[x].size /\ g[x].next = m[x].next
             /\ g[x].prev = IF x = n THEN a ELSE m[x].prev
             /\ g[x].alloc = m[x].alloc
             /\ g[x].prev_free = m[x].prev_free /\ g[x].next_free = m[x].next_free
  BY <1>2, <1>4, <1>5, BehindFields
<1>9. g \in [E -> Headers]
  BY <1>6, <1>8
<1>10. u \in HeapsAt(E)
  BY <1>1, <1>7, <1>9 DEF HeapsAt
<1>11. \A x \in E :
         /\ g[x].size = IF x = a THEN h.mem[a].size + HeaderSize + s ELSE h.mem[x].size
         /\ g[x].next = IF x = a THEN n ELSE h.mem[x].next
         /\ g[x].prev = IF x = n THEN a ELSE h.mem[x].prev
         /\ g[x].alloc = h.mem[x].alloc
         /\ g[x].prev_free = h.mem[x].prev_free
         /\ g[x].next_free = h.mem[x].next_free
  BY <1>4, <1>8
<1> QED BY <1>7, <1>10, <1>11 DEF Taken, u, n, s

\* What a store to one header does.
LEMMA StoreOne ==
    ASSUME NEW D, NEW u \in HeapsAt(D), NEW a \in D, NEW r \in Headers
    PROVE  LET g == [u EXCEPT !.mem[a] = r]
           IN  /\ g \in HeapsAt(D) /\ g.first_free = u.first_free
               /\ \A x \in D : g.mem[x] = IF x = a THEN r ELSE u.mem[x]
BY DEF HeapsAt

\* What Whole does to each header.
LEMMA WholeFields ==
    ASSUME NEW D \in SUBSET Addresses, NEW h \in HeapsAt(D), NEW a \in D
    PROVE  LET u == Unlink(h, a)
               g == Whole(h, a)
           IN  /\ g \in HeapsAt(D) /\ g.first_free = u.first_free
               /\ \A x \in D :
                    /\ g.mem[x].size = h.mem[x].size
                    /\ g.mem[x].prev = h.mem[x].prev /\ g.mem[x].next = h.mem[x].next
                    /\ g.mem[x].alloc = IF x = a THEN 1 ELSE h.mem[x].alloc
                    /\ g.mem[x].prev_free = IF x = a THEN NULL ELSE u.mem[x].prev_free
                    /\ g.mem[x].next_free = IF x = a THEN NULL ELSE u.mem[x].next_free
<1> DEFINE u == Unlink(h, a)
           g == Whole(h, a)
           r == Given(u.mem[a])
<1>1. g = [u EXCEPT !.mem[a] = r]
  BY DEF Whole, Given
<1>2. u \in HeapsAt(D) /\ SameBlocks(u, h, D)
  BY UnlinkFields
<1>3. u.mem[a] \in Headers
  BY <1>2 DEF HeapsAt
<1> HIDE DEF u, g
<1>4. /\ r \in Headers
      /\ r.alloc = 1 /\ r.prev_free = NULL /\ r.next_free = NULL
      /\ r.size = u.mem[a].size /\ r.prev = u.mem[a].prev /\ r.next = u.mem[a].next
  BY <1>3, GivenFields
<1> HIDE DEF r
<1>5. /\ g \in HeapsAt(D) /\ g.first_free = u.first_free
      /\ \A x \in D : g.mem[x] = IF x = a THEN r ELSE u.mem[x]
  BY <1>1, <1>2, <1>4, StoreOne
<1>6. \A x \in D :
        /\ g.mem[x].size = h.mem[x].size
        /\ g.mem[x].prev = h.mem[x].prev /\ g.mem[x].next = h.mem[x].next
        /\ g.mem[x].alloc = IF x = a THEN 1 ELSE h.mem[x].alloc
        /\ g.mem[x].prev_free = IF x = a THEN NULL ELSE u.mem[x].prev_free
        /\ g.mem[x].next_free = IF x = a THEN NULL ELSE u.mem[x].next_free
  BY <1>2, <1>4, <1>5 DEF SameBlocks
<1> QED BY <1>5, <1>6 DEF u, g

\* The heap that Split leaves of h, where k is the one in which it works on the free list
SplitFrom(k, h, D, a, b, len) ==
    LET E == D \cup {b}
        r == Replace(k, a, b)
        g == Split(h, a, len)
    IN  /\ k \in HeapsAt(E) /\ k.first_free = h.first_free /\ SameLinks(k, h, D)
        /\ g \in HeapsAt(E) /\ g.first_free = r.first_free
        /\ \A x \in E :
             /\ g.mem[x].size = IF x = a THEN len
                                ELSE IF x = b THEN h.mem[a].size - len - HeaderSize
                                ELSE h.mem[x].size
             /\ g.mem[x].next = IF x = a THEN b ELSE IF x = b THEN h.mem[a].next ELSE h.mem[x].next
             /\ g.mem[x].prev = IF x = b THEN a ELSE IF x = h.mem[a].next THEN b ELSE h.mem[x].prev
             /\ g.mem[x].alloc = IF x = a THEN 1 ELSE IF x = b THEN 0 ELSE h.mem[x].alloc
             /\ g.mem[x].prev_free = IF x = a THEN NULL ELSE r.mem[x].prev_free
             /\ g.mem[x].next_free = IF x = a THEN NULL ELSE r.mem[x].next_free

\* What Split does to each header.
LEMMA SplitFields ==
    ASSUME NEW D \in SUBSET Addresses, NEW h \in HeapsAt(D), NEW a \in D, NEW len \in Nat,
           NEW b \in Addresses, b = a + HeaderSize + len, b \notin D,
           h.mem[a].size - len - HeaderSize \in Nat, h.mem[a].next # b
    PROVE  \E k : SplitFrom(k, h, D, a, b, len)
<1> DEFINE E == D \cup {b}
           n == h.mem[a].next
           rest == h.mem[a].size - len - HeaderSize
           new == [size |-> rest, alloc |-> 0, prev |-> a, next |-> n,
                   prev_free |-> NULL, next_free |-> NULL]
           added == [x \in E |-> IF x = b THEN new ELSE h.mem[x]]
           linked == [x \in E |-> IF x = n THEN Behind(added[x], b) ELSE added[x]]
           k == [h EXCEPT !.mem = linked]
           r == Replace(k, a, b)
           given == GivenPart(r.mem[a], len, b)
           g == Split(h, a, len)
<1>1. /\ h.mem \in [D -> Headers] /\ DOMAIN h.mem = D /\ h.first_free \in Pointers
      /\ h = [mem |-> h.mem, first_free |-> h.first_free]
  BY DEF HeapsAt
<1>2. a # b /\ a \in D /\ a \in Pointers /\ b \in Pointers
  BY DEF Pointers
<1>3. n \in Pointers /\ rest \in Nat
  BY <1>1 DEF Headers
<1>4. g = [r EXCEPT !.mem[a] = given]
  <2> DEFINE added0 == [x \in DOMAIN h.mem \cup {a + HeaderSize + len} |->
                          IF x = a + HeaderSize + len
                          THEN [size |-> h.mem[a].size - len - HeaderSize, alloc |-> 0,
                                prev |-> a, next |-> h.mem[a].next,
                                prev_free |-> NULL, next_free |-> NULL]
                          ELSE h.mem[x]]
             link0 == BackLink(added0, a + HeaderSize + len)
  <2>1. added0 = added
    BY <1>1
  <2>2. BackLink(added, b) = linked
    <3>1. BackLink(added, b) = [x \in DOMAIN added |-> IF x = added[b].next
                                                       THEN Behind(added[x], b) ELSE added[x]]
      BY DEF BackLink, Behind
    <3>2. DOMAIN added = E /\ added[b].next = n
      OBVIOUS
    <3> HIDE DEF added
    <3> QED BY <3>1, <3>2
  <2>3. link0 = linked
    <3> HIDE DEF added, added0, linked
    <3> QED BY <2>1, <2>2
  <2>4. g = LET q == Replace([h EXCEPT !.mem = link0], a, a + HeaderSize + len)
            IN  [q EXCEPT !.mem[a] = GivenPart(q.mem[a], len, a + HeaderSize + len)]
    BY DEF Split, GivenPart
  <2> HIDE DEF link0, linked, g
  <2> QED BY <2>3, <2>4
<1>5. new \in Headers
  <2>1. n \in Pointers /\ rest \in Nat /\ a \in Pointers /\ NULL \in Pointers
    BY <1>2, <1>3 DEF Pointers
  <2> HIDE DEF n, rest
  <2> QED BY <2>1 DEF Headers
<1>6. ASSUME NEW x \in E
      PROVE  /\ linked[x] \in Headers
             /\ linked[x].size = IF x = b THEN rest ELSE h.mem[x].size
             /\ linked[x].next = IF x = b THEN n ELSE h.mem[x].next
             /\ linked[x].prev = IF x = n THEN b ELSE IF x = b THEN a ELSE h.mem[x].prev
             /\ linked[x].alloc = IF x = b THEN 0 ELSE h.mem[x].alloc
             /\ x # b => /\ linked[x].prev_free = h.mem[x].prev_free
                         /\ linked[x].next_free = h.mem[x].next_free
  <2>1. added[x] = IF x = b THEN new ELSE h.mem[x]
    OBVIOUS
  <2>2. linked[x] = IF x = n THEN Behind(added[x], b) ELSE added[x]
    OBVIOUS
  <2>3. /\ new.size = rest /\ new.alloc = 0 /\ new.prev = a /\ new.next = n
    OBVIOUS
  <2>4. x # b => h.mem[x] \in Headers
    BY <1>1
  <2> HIDE DEF added, linked, new, n, rest
  <2>5. /\ added[x] \in Headers
        /\ added[x].size = IF x = b THEN rest ELSE h.mem[x].size
        /\ added[x].next = IF x = b THEN n ELSE h.mem[x].next
        /\ added[x].prev = IF x = b THEN a ELSE h.mem[x].prev
        /\ added[x].alloc = IF x = b THEN 0 ELSE h.mem[x].alloc
        /\ x # b => /\ added[x].prev_free = h.mem[x].prev_free
                    /\ added[x].next_free = h.mem[x].next_free
    BY <1>5, <2>1, <2>3, <2>4
  <2> QED BY <1>2, <2>2, <2>5, BehindFields
<1>7. k.mem = linked /\ k.first_free = h.first_free /\ k \in HeapsAt(E)
  <2>1. linked = [x \in E |-> linked[x]]
    OBVIOUS
  <2> HIDE DEF linked
  <2>2. k = [mem |-> linked, first_free |-> h.first_free]
    BY <1>1
  <2>3. linked \in [E -> Headers]
    BY <1>6, <2>1
  <2> QED BY <1>1, <2>2, <2>3 DEF HeapsAt
<1> HIDE DEF linked, k, g, n, rest
<1>8. r \in HeapsAt(E) /\ SameBlocks(r, k, E)
  <2>1. a \in E /\ b \in E /\ E \subseteq Pointers
    BY <1>2, NotNull
  <2> HIDE DEF E
  <2> QED BY <1>7, <2>1, ReplaceFields
<1> HIDE DEF r
<1>9. /\ given \in Headers
      /\ given.alloc = 1 /\ given.size = len
      /\ given.next = b /\ given.prev = r.mem[a].prev
      /\ given.prev_free = NULL /\ given.next_free = NULL
  <2>1. r.mem[a] \in Headers
    BY <1>8 DEF HeapsAt
  <2> DEFINE q == r.mem[a]
             behind == b
             n0 == len
  <2>2. q \in Headers /\ behind \in Pointers /\ n0 \in Nat
    BY <1>2, <2>1
  <2> HIDE DEF q, behind, n0
  <2>3. /\ GivenPart(q, n0, behind) \in Headers
        /\ GivenPart(q, n0, behind).alloc = 1 /\ GivenPart(q, n0, behind).size = n0
        /\ GivenPart(q, n0, behind).next = behind /\ GivenPart(q, n0, behind).prev = q.prev
        /\ GivenPart(q, n0, behind).prev_free = NULL
        /\ GivenPart(q, n0, behind).next_free = NULL
    BY <2>2, GivenPartFields
  <2> QED BY <2>3 DEF q, behind, n0, given
<1> HIDE DEF given
<1>10. /\ g \in HeapsAt(E) /\ g.first_free = r.first_free
       /\ \A x \in E : g.mem[x] = IF x = a THEN given ELSE r.mem[x]
  <2>1. a \in E
    OBVIOUS
  <2> HIDE DEF E
  <2> QED BY <1>4, <1>8, <1>9, <2>1, StoreOne
<1>11. \A x \in E :
         /\ r.mem[x].size = IF x = b THEN rest ELSE h.mem[x].size
         /\ r.mem[x].next = IF x = b THEN n ELSE h.mem[x].next
         /\ r.mem[x].prev = IF x = n THEN b ELSE IF x = b THEN a ELSE h.mem[x].prev
         /\ r.mem[x].alloc = IF x = b THEN 0 ELSE h.mem[x].alloc
  BY <1>6, <1>7, <1>8 DEF SameBlocks
<1>12. /\ k.first_free = h.first_free
       /\ SameLinks(k, h, D)
  BY <1>6, <1>7 DEF SameLinks
<1>13. n # b
  BY DEF n
<1>14. ASSUME NEW x \in E
       PROVE  /\ g.mem[x].size = IF x = a THEN len ELSE IF x = b THEN rest ELSE h.mem[x].size
              /\ g.mem[x].next = IF x = a THEN b ELSE IF x = b THEN n ELSE h.mem[x].next
              /\ g.mem[x].prev = IF x = b THEN a ELSE IF x = n THEN b ELSE h.mem[x].prev
              /\ g.mem[x].alloc = IF x = a THEN 1 ELSE IF x = b THEN 0 ELSE h.mem[x].alloc
              /\ g.mem[x].prev_free = IF x = a THEN NULL ELSE r.mem[x].prev_free
              /\ g.mem[x].next_free = IF x = a THEN NULL ELSE r.mem[x].next_free
  <2>1. CASE x = a
    <3>1. g.mem[x] = given /\ r.mem[a].prev = IF a = n THEN b ELSE h.mem[a].prev
      BY <1>2, <1>10, <1>11, <2>1
    <3> QED BY <1>2, <1>9, <2>1, <3>1
  <2>2. CASE x # a
    <3>1. g.mem[x] = r.mem[x]
      BY <1>10, <2>2
    <3> QED BY <1>11, <1>13, <2>2, <3>1
  <2> QED BY <2>1, <2>2
<1> QED BY <1>7, <1>10, <1>12, <1>14 DEF SplitFrom, g, r, n, rest

-----------------------------------------------------------------------------
(***************************************************************************)
(* The heap                                                                *)
(***************************************************************************)
\* list holds the free blocks, and the links of the others are NULL
Listed(h, D, list) ==
    /\ Linked(h, D, list)
    /\ InList(list) = {a \in D : h.mem[a].alloc = 0}
    /\ \A a \in D : h.mem[a].alloc = 1 => h.mem[a].prev_free = NULL /\ h.mem[a].next_free = NULL

\* No two neighbours are free, unless the one in front is in X
Merged(m, D, X) ==
    \A a \in D \ X : m[a].alloc = 0 /\ m[a].next # NULL => m[m[a].next].alloc = 1

Sound(h, D) ==
    /\ h \in HeapsAt(D) /\ Chained(h.mem, D) /\ Merged(h.mem, D, {})
    /\ \E list : Listed(h, D, list)

\* A chain that is as it was.
LEMMA SameChain ==
    ASSUME NEW D, NEW m, NEW g, Chained(m, D),
           \A a \in D : g[a].size = m[a].size /\ g[a].next = m[a].next /\ g[a].prev = m[a].prev
    PROVE  Chained(g, D)
<1>1. first \in D /\ \A a \in D : Ends(g, a) = Ends(m, a)
  BY DEF Ends, Chained
<1>2. ASSUME NEW a \in D, g[a].next # NULL PROVE g[a].next \in D /\ g[g[a].next].prev = a
  <2>1. m[a].next # NULL
    BY <1>2
  <2>2. m[a].next \in D /\ m[m[a].next].prev = a
    BY <2>1 DEF Chained
  <2> QED BY <2>2
<1>3. ASSUME NEW a \in D, a # first PROVE g[a].prev \in D /\ g[g[a].prev].next = a
  <2>1. m[a].prev \in D /\ m[m[a].prev].next = a
    BY <1>3 DEF Chained
  <2> QED BY <2>1
<1>4. g[first].prev = NULL
  BY <1>1 DEF Chained
<1>5. \A a \in D : /\ g[a].size \in Nat /\ Ends(g, a) <= PoolSize
                   /\ g[a].next = IF Ends(g, a) = PoolSize THEN NULL ELSE Ends(g, a)
  BY <1>1 DEF Chained
<1>6. \A a, b \in D : a < b => Ends(g, a) <= b
  BY <1>1 DEF Chained
<1>7. D \in SUBSET Addresses
  BY DEF Chained
<1> QED BY <1>1, <1>2, <1>3, <1>4, <1>5, <1>6, <1>7 DEF Chained

\* A list is over any set that its entries are in.
LEMMA ListOver ==
    ASSUME NEW D, NEW E, NEW list \in Seq(D), InList(list) \subseteq E
    PROVE  list \in Seq(E)
<1>1. Len(list) \in Nat /\ list \in [1 .. Len(list) -> D]
  BY LenProperties
<1>2. \A i \in 1 .. Len(list) : list[i] \in E
  BY DEF InList
<1>3. list \in [1 .. Len(list) -> E]
  BY <1>1, <1>2
<1> QED BY <1>1, <1>3, SeqDef

\* Giving out a free block as a whole.
LEMMA WholeSound ==
    ASSUME NEW D, NEW h, Sound(h, D), NEW a \in D, h.mem[a].alloc = 0
    PROVE  LET g == Whole(h, a)
           IN  /\ Sound(g, D)
               /\ \A x \in D : /\ g.mem[x].size = h.mem[x].size
                               /\ g.mem[x].alloc = IF x = a THEN 1 ELSE h.mem[x].alloc
<1> DEFINE u == Unlink(h, a)
           g == Whole(h, a)
<1>1. h \in HeapsAt(D) /\ Chained(h.mem, D) /\ D \in SUBSET Addresses
  BY DEF Sound, Chained
<1>2. PICK list : Listed(h, D, list)
  BY DEF Sound
<1>3. PICK k \in 1 .. Len(list) : a = list[k]
  BY <1>2 DEF Listed, InList
<1>4. Linked(h, D, list)
  BY <1>2 DEF Listed
<1>5. PICK l : /\ Linked(Unlink(h, list[k]), D, l) /\ InList(l) = InList(list) \ {list[k]}
               /\ SameLinks(Unlink(h, list[k]), h, D \ InList(list))
  BY <1>1, <1>4, UnlinkList
<1>6. Linked(u, D, l) /\ InList(l) = InList(list) \ {a} /\ SameLinks(u, h, D \ InList(list))
  BY <1>3, <1>5
<1>7. /\ g \in HeapsAt(D) /\ g.first_free = u.first_free
      /\ \A x \in D :
           /\ g.mem[x].size = h.mem[x].size
           /\ g.mem[x].prev = h.mem[x].prev /\ g.mem[x].next = h.mem[x].next
           /\ g.mem[x].alloc = IF x = a THEN 1 ELSE h.mem[x].alloc
           /\ g.mem[x].prev_free = IF x = a THEN NULL ELSE u.mem[x].prev_free
           /\ g.mem[x].next_free = IF x = a THEN NULL ELSE u.mem[x].next_free
  BY <1>1, WholeFields
<1> HIDE DEF u, g
<1>8. Chained(g.mem, D)
  BY <1>1, <1>7, SameChain
<1>9. InList(list) = {x \in D : h.mem[x].alloc = 0}
  BY <1>2 DEF Listed
<1>10. SameLinks(g, u, InList(l))
  <2>1. \A x \in InList(l) : x \in D /\ x # a
    BY <1>6, <1>9
  <2> QED BY <1>7, <2>1 DEF SameLinks
<1>11. Linked(g, D, l)
  <2>1. l \in Seq(D)
    BY <1>6 DEF Linked
  <2> QED BY <1>6, <1>7, <1>10, <2>1, StaysLinked
<1>12. InList(l) = {x \in D : g.mem[x].alloc = 0}
  BY <1>6, <1>7, <1>9
<1>13. ASSUME NEW x \in D, g.mem[x].alloc = 1
       PROVE  g.mem[x].prev_free = NULL /\ g.mem[x].next_free = NULL
  <2>1. CASE x = a
    BY <1>7, <2>1
  <2>2. CASE x # a
    <3>1. h.mem[x].alloc = 1
      BY <1>7, <1>13, <2>2
    <3>2. x \notin InList(list) /\ h.mem[x].prev_free = NULL /\ h.mem[x].next_free = NULL
      BY <1>2, <1>9, <3>1 DEF Listed
    <3>3. u.mem[x].prev_free = NULL /\ u.mem[x].next_free = NULL
      BY <1>6, <3>2 DEF SameLinks
    <3> QED BY <1>7, <2>2, <3>3
  <2> QED BY <2>1, <2>2
<1>14. Merged(g.mem, D, {})
  <2>1. ASSUME NEW x \in D, g.mem[x].alloc = 0, g.mem[x].next # NULL
        PROVE  g.mem[g.mem[x].next].alloc = 1
    <3>1. h.mem[x].alloc = 0 /\ h.mem[x].next # NULL /\ g.mem[x].next = h.mem[x].next
      BY <1>7, <2>1
    <3>2. h.mem[x].next \in D /\ h.mem[h.mem[x].next].alloc = 1
      BY <1>1, <3>1 DEF Sound, Merged, Chained
    <3> QED BY <1>7, <3>1, <3>2
  <2> QED BY <2>1 DEF Merged
<1>15. Sound(g, D)
  BY <1>7, <1>8, <1>11, <1>12, <1>13, <1>14 DEF Sound, Listed
<1> QED BY <1>7, <1>15 DEF g

\* g is sound, and is h with the block at a cut off at b after len bytes that are given out
SoundSplit(g, h, D, a, b, len) ==
    /\ b \notin D /\ Sound(g, D \cup {b}) /\ g.mem[a].size = len
    /\ \A x \in D \cup {b} :
         /\ x \notin {a, b} => g.mem[x].size = h.mem[x].size
         /\ g.mem[x].alloc = IF x = a THEN 1 ELSE IF x = b THEN 0 ELSE h.mem[x].alloc

\* Giving out the first len bytes of a free block.
LEMMA SplitSound ==
    ASSUME NEW D, NEW h, Sound(h, D), NEW a \in D, h.mem[a].alloc = 0, NEW len \in Nat,
           HeaderSize < h.mem[a].size - len, NEW b, b = a + HeaderSize + len
    PROVE  SoundSplit(Split(h, a, len), h, D, a, b, len)
<1> DEFINE E == D \cup {b}
           g == Split(h, a, len)
<1>1. h \in HeapsAt(D) /\ Chained(h.mem, D) /\ D \in SUBSET Addresses
  BY DEF Sound, Chained
<1>2. PICK list : Listed(h, D, list)
  BY DEF Sound
<1>3. PICK k \in 1 .. Len(list) : a = list[k]
  BY <1>2 DEF Listed, InList
<1>4. Linked(h, D, list) /\ InList(list) = {x \in D : h.mem[x].alloc = 0}
  BY <1>2 DEF Listed
<1>5. /\ a \in Nat /\ h.mem[a].size \in Nat /\ Ends(h.mem, a) <= PoolSize
      /\ \A x \in D : a < x => Ends(h.mem, a) <= x
      /\ h.mem[a].next = IF Ends(h.mem, a) = PoolSize THEN NULL ELSE Ends(h.mem, a)
  BY <1>1, PoolNumbers DEF Chained
<1>6. /\ b \in Nat /\ a < b /\ b + HeaderSize < Ends(h.mem, a) /\ Ends(h.mem, a) \in Nat
      /\ h.mem[a].size - len - HeaderSize \in Nat
  <2>1. /\ HeaderSize \in Nat /\ HeaderSize > 0 /\ h.mem[a].size \in Nat /\ a \in Nat
        /\ Ends(h.mem, a) = a + HeaderSize + h.mem[a].size
    BY <1>5, PoolNumbers DEF Ends
  <2>2. b \in Nat /\ a < b /\ Ends(h.mem, a) \in Nat
    BY <2>1
  <2>3. b + HeaderSize < Ends(h.mem, a)
    BY <2>1
  <2>4. h.mem[a].size - len - HeaderSize \in Nat
    BY <2>1
  <2> QED BY <2>2, <2>3, <2>4
<1>7. b \in Addresses /\ b \notin D
  <2>1. b < Ends(h.mem, a) /\ b < PoolSize
    BY <1>5, <1>6, PoolNumbers
  <2>2. b \in Addresses
    BY <1>6, <2>1, PoolNumbers DEF Addresses
  <2>3. b \notin D
    BY <1>5, <1>6, <2>1
  <2> QED BY <2>2, <2>3
<1>8. h.mem[a].next # b
  BY <1>5, <1>6, PoolNumbers
<1>0. PICK h2 : SplitFrom(h2, h, D, a, b, len)
  BY <1>1, <1>6, <1>7, <1>8, SplitFields
<1>9. LET r == Replace(h2, a, b)
      IN  /\ h2 \in HeapsAt(E) /\ h2.first_free = h.first_free /\ SameLinks(h2, h, D)
          /\ g \in HeapsAt(E) /\ g.first_free = r.first_free
          /\ \A x \in E :
               /\ g.mem[x].size = IF x = a THEN len
                                  ELSE IF x = b THEN h.mem[a].size - len - HeaderSize
                                  ELSE h.mem[x].size
               /\ g.mem[x].next = IF x = a THEN b
                                  ELSE IF x = b THEN h.mem[a].next ELSE h.mem[x].next
               /\ g.mem[x].prev = IF x = b THEN a
                                  ELSE IF x = h.mem[a].next THEN b ELSE h.mem[x].prev
               /\ g.mem[x].alloc = IF x = a THEN 1
                                   ELSE IF x = b THEN 0 ELSE h.mem[x].alloc
               /\ g.mem[x].prev_free = IF x = a THEN NULL ELSE r.mem[x].prev_free
               /\ g.mem[x].next_free = IF x = a THEN NULL ELSE r.mem[x].next_free
  BY <1>0 DEF SplitFrom
<1> DEFINE r == Replace(h2, a, b)
<1> HIDE DEF g
<1>10. Chained(g.mem, E)
  <2>1. \A x \in D \cup {b} :
          /\ g.mem[x].size = IF x = a THEN len
                             ELSE IF x = b THEN h.mem[a].size - len - HeaderSize
                             ELSE h.mem[x].size
          /\ g.mem[x].next = IF x = a THEN b ELSE IF x = b THEN h.mem[a].next ELSE h.mem[x].next
          /\ g.mem[x].prev = IF x = b THEN a ELSE IF x = h.mem[a].next THEN b ELSE h.mem[x].prev
    BY <1>9
  <2> DEFINE m == h.mem
             n == g.mem
  <2>2. b + HeaderSize <= Ends(m, a)
    BY <1>6, PoolNumbers
  <2>3. Chained(m, D)
    BY <1>1
  <2> HIDE DEF m, n
  <2>4. \A x \in D \cup {b} :
          /\ n[x].size = IF x = a THEN len
                         ELSE IF x = b THEN m[a].size - len - HeaderSize ELSE m[x].size
          /\ n[x].next = IF x = a THEN b ELSE IF x = b THEN m[a].next ELSE m[x].next
          /\ n[x].prev = IF x = b THEN a ELSE IF x = m[a].next THEN b ELSE m[x].prev
    BY <2>1 DEF m, n
  <2>5. Chained(n, D \cup {b})
    BY <2>2, <2>3, <2>4, SplitChain
  <2> QED BY <2>5 DEF n
<1>11. E \in SUBSET Addresses /\ b \in E \ InList(list)
  BY <1>1, <1>4, <1>7
<1>12. Linked(h2, E, list)
  <2>1. list \in Seq(E)
    <3>1. list \in Seq(D) /\ InList(list) \subseteq E
      BY <1>4 DEF Linked
    <3> HIDE DEF E
    <3> QED BY <3>1, ListOver
  <2>2. SameLinks(h2, h, InList(list))
    BY <1>4, <1>9 DEF SameLinks
  <2>3. h2.first_free = h.first_free
    BY <1>9
  <2> HIDE DEF E
  <2> QED BY <1>4, <2>1, <2>2, <2>3, StaysLinked
<1>13. PICK l : /\ Linked(r, E, l) /\ InList(l) = (InList(list) \ {a}) \cup {b}
                /\ SameLinks(r, h2, E \ (InList(list) \cup {b}))
  <2>1. PICK l : /\ Linked(Replace(h2, list[k], b), E, l)
                 /\ InList(l) = (InList(list) \ {list[k]}) \cup {b}
                 /\ SameLinks(Replace(h2, list[k], b), h2, E \ (InList(list) \cup {b}))
    <3> DEFINE x == b
    <3>1. E \in SUBSET Addresses /\ x \in E \ InList(list) /\ h2 \in HeapsAt(E)
      BY <1>9, <1>11
    <3> HIDE DEF E, x
    <3>2. \E l : /\ Linked(Replace(h2, list[k], x), E, l)
                 /\ InList(l) = (InList(list) \ {list[k]}) \cup {x}
                 /\ SameLinks(Replace(h2, list[k], x), h2, E \ (InList(list) \cup {x}))
      BY <1>12, <3>1, ReplaceList
    <3> QED BY <3>2 DEF x
  <2> QED BY <1>3, <2>1
<1>14. /\ g \in HeapsAt(E) /\ g.first_free = r.first_free
       /\ \A x \in E :
            /\ g.mem[x].next = IF x = a THEN b
                               ELSE IF x = b THEN h.mem[a].next ELSE h.mem[x].next
            /\ g.mem[x].alloc = IF x = a THEN 1
                                ELSE IF x = b THEN 0 ELSE h.mem[x].alloc
            /\ g.mem[x].prev_free = IF x = a THEN NULL ELSE r.mem[x].prev_free
            /\ g.mem[x].next_free = IF x = a THEN NULL ELSE r.mem[x].next_free
  BY <1>9
<1> HIDE DEF r
<1>15. a \notin InList(l) /\ InList(l) \subseteq E
  BY <1>4, <1>6, <1>13
<1>16. Linked(g, E, l)
  <2>1. l \in Seq(E)
    BY <1>13 DEF Linked
  <2>2. SameLinks(g, r, InList(l))
    BY <1>14, <1>15 DEF SameLinks
  <2> HIDE DEF E
  <2> QED BY <1>13, <1>14, <2>1, <2>2, StaysLinked
<1>17. InList(l) = {x \in E : g.mem[x].alloc = 0}
  <2>1. \A x \in E : x \in InList(l) <=> g.mem[x].alloc = 0
    BY <1>4, <1>7, <1>13, <1>14
  <2> QED BY <1>15, <2>1
<1>18. ASSUME NEW x \in E, g.mem[x].alloc = 1
       PROVE  g.mem[x].prev_free = NULL /\ g.mem[x].next_free = NULL
  <2>1. CASE x = a
    BY <1>14, <2>1
  <2>2. CASE x # a
    <3>1. x # b /\ x \in D /\ h.mem[x].alloc = 1
      BY <1>14, <1>18, <2>2
    <3>2. x \notin InList(list) /\ h.mem[x].prev_free = NULL /\ h.mem[x].next_free = NULL
      BY <1>2, <1>4, <3>1 DEF Listed
    <3>3. h2.mem[x].prev_free = NULL /\ h2.mem[x].next_free = NULL
      BY <1>9, <3>1, <3>2 DEF SameLinks
    <3>4. r.mem[x].prev_free = NULL /\ r.mem[x].next_free = NULL
      BY <1>13, <3>1, <3>2, <3>3 DEF SameLinks
    <3> QED BY <1>14, <2>2, <3>4
  <2> QED BY <2>1, <2>2
<1>19. Merged(g.mem, E, {})
  <2>1. ASSUME NEW x \in E, g.mem[x].alloc = 0, g.mem[x].next # NULL
        PROVE  g.mem[g.mem[x].next].alloc = 1
    <3> DEFINE y == IF x = b THEN a ELSE x
    <3>1. /\ y \in D /\ h.mem[y].alloc = 0 /\ h.mem[y].next # NULL
          /\ g.mem[x].next = h.mem[y].next
      BY <1>14, <2>1
    <3>2. h.mem[y].next \in D /\ h.mem[h.mem[y].next].alloc = 1
      BY <1>1, <3>1 DEF Sound, Merged, Chained
    <3> HIDE DEF y
    <3> QED BY <1>7, <1>14, <3>1, <3>2
  <2> QED BY <2>1 DEF Merged
<1>20. Sound(g, E)
  BY <1>10, <1>14, <1>16, <1>17, <1>18, <1>19 DEF Sound, Listed
<1>21. \A x \in E : x \notin {a, b} => g.mem[x].size = h.mem[x].size
  BY <1>9
<1>22. g.mem[a].size = len
  BY <1>9
<1> QED BY <1>7, <1>14, <1>20, <1>21, <1>22 DEF SoundSplit, g

\* An entry of a list with another entry has a link that is not NULL.
LEMMA ListedHasLink ==
    ASSUME NEW D \in SUBSET Addresses, NEW h \in HeapsAt(D), NEW list, Linked(h, D, list),
           NEW a \in InList(list), NEW b \in InList(list), a # b
    PROVE  h.mem[a].prev_free # NULL \/ h.mem[a].next_free # NULL
<1>1. PICK k \in 1 .. Len(list) : a = list[k]
  BY DEF InList
<1>2. PICK j \in 1 .. Len(list) : b = list[j]
  BY DEF InList
<1>3. Len(list) \in Nat /\ \A i \in 1 .. Len(list) : list[i] \in D
  BY LenProperties DEF Linked
<1>4. NULL \notin D
  BY NotNull
<1>5. /\ h.mem[a].prev_free = IF k = 1 THEN NULL ELSE list[k - 1]
      /\ h.mem[a].next_free = IF k = Len(list) THEN NULL ELSE list[k + 1]
  BY <1>1 DEF Linked
<1>6. k # 1 \/ k # Len(list)
  <2>1. SUFFICES ASSUME k = 1, k = Len(list) PROVE FALSE
    OBVIOUS
  <2>2. Len(list) = 1 /\ j \in 1 .. Len(list)
    BY <2>1
  <2>3. j = k
    BY <2>1, <2>2
  <2> QED BY <1>1, <1>2, <2>3
<1>7. CASE k # 1
  <2>1. k - 1 \in 1 .. Len(list)
    BY <1>3, <1>7
  <2> QED BY <1>3, <1>4, <1>5, <1>7, <2>1
<1>8. CASE k # Len(list)
  <2>1. k + 1 \in 1 .. Len(list)
    BY <1>3, <1>8
  <2> QED BY <1>3, <1>4, <1>5, <1>8, <2>1
<1> QED BY <1>6, <1>7, <1>8

\* A heap that is sound but for the free block at a, which need not be in the list nor merged
Loose(h, D, a, list) ==
    /\ D \in SUBSET Addresses /\ h \in HeapsAt(D) /\ Chained(h.mem, D)
    /\ a \in D /\ h.mem[a].alloc = 0 /\ Merged(h.mem, D, {a})
    /\ Linked(h, D, list)
    /\ InList(list) \cup {a} = {x \in D : h.mem[x].alloc = 0}
    /\ a \notin InList(list) => h.mem[a].prev_free = NULL /\ h.mem[a].next_free = NULL
    /\ \A x \in D : h.mem[x].alloc = 1 => h.mem[x].prev_free = NULL /\ h.mem[x].next_free = NULL

\* g is sound, and is h without the header at b and with the other blocks but a as they were
SoundWithout(g, h, D, a, b) ==
    /\ Sound(g, D \ {b})
    /\ \A x \in D \ {b} : /\ g.mem[x].alloc = h.mem[x].alloc
                          /\ x # a => g.mem[x].size = h.mem[x].size

\* The free block takes in the free block behind it.
LEMMA MergeNextSound ==
    ASSUME NEW D, NEW h, NEW a, NEW list, Loose(h, D, a, list),
           NEW b, b = h.mem[a].next, b # NULL, h.mem[b].alloc = 0
    PROVE  SoundWithout(MergeNext(h, a), h, D, a, b)
<1> DEFINE listed == h.mem[a].prev_free # NULL \/ h.mem[a].next_free # NULL
           u == IF listed THEN Unlink(h, a) ELSE h
           r == Replace(u, b, a)
           g == MergeNext(h, a)
           E == D \ {b}
<1>0. /\ D \in SUBSET Addresses /\ h \in HeapsAt(D) /\ Chained(h.mem, D)
      /\ a \in D /\ h.mem[a].alloc = 0 /\ Merged(h.mem, D, {a})
      /\ Linked(h, D, list)
      /\ InList(list) \cup {a} = {x \in D : h.mem[x].alloc = 0}
      /\ a \notin InList(list) => h.mem[a].prev_free = NULL /\ h.mem[a].next_free = NULL
      /\ \A x \in D : h.mem[x].alloc = 1 => h.mem[x].prev_free = NULL /\ h.mem[x].next_free = NULL
  BY DEF Loose
<1> USE <1>0
<1>1. g = Merge(r, a, b)
  BY DEF MergeNext
<1>2. b \in D /\ a # b
  <2>1. b \in D /\ a \in Nat /\ b \in Nat /\ a < b
    BY NextInChain
  <2> QED BY <2>1
<1>3. b \in InList(list) /\ InList(list) \subseteq D
  BY <1>2
<1>4. listed <=> a \in InList(list)
  BY <1>2, <1>3, ListedHasLink
<1> HIDE DEF listed
<1>5. \E l1 : /\ Linked(u, D, l1) /\ InList(l1) = InList(list) \ {a}
              /\ u \in HeapsAt(D) /\ SameBlocks(u, h, D)
              /\ SameLinks(u, h, D \ InList(list))
  <2>1. CASE listed
    <3>1. PICK k \in 1 .. Len(list) : a = list[k]
      BY <1>4, <2>1 DEF InList
    <3>2. u = Unlink(h, a)
      BY <2>1
    <3>3. u \in HeapsAt(D) /\ SameBlocks(u, h, D)
      BY <3>2, UnlinkFields
    <3>4. \E l1 : /\ Linked(Unlink(h, list[k]), D, l1)
                  /\ InList(l1) = InList(list) \ {list[k]}
                  /\ SameLinks(Unlink(h, list[k]), h, D \ InList(list))
      BY UnlinkList
    <3> QED BY <3>1, <3>2, <3>3, <3>4
  <2>2. CASE ~listed
    <3>1. u = h /\ InList(list) = InList(list) \ {a}
      BY <1>4, <2>2
    <3> QED BY <3>1 DEF SameBlocks, SameLinks
  <2> QED BY <2>1, <2>2
<1> HIDE DEF u, g
<1>6. PICK l1 : /\ Linked(u, D, l1) /\ InList(l1) = InList(list) \ {a}
                /\ u \in HeapsAt(D) /\ SameBlocks(u, h, D)
                /\ SameLinks(u, h, D \ InList(list))
  BY <1>5
<1>7. \E l2 : /\ Linked(r, D, l2) /\ InList(l2) = (InList(l1) \ {b}) \cup {a}
              /\ SameLinks(r, u, D \ (InList(l1) \cup {a}))
  <2>0. b \in InList(l1)
    BY <1>2, <1>3, <1>6
  <2>1. PICK k \in 1 .. Len(l1) : b = l1[k]
    BY <2>0 DEF InList
  <2>2. a \in D \ InList(l1)
    BY <1>6
  <2>3. \E l2 : /\ Linked(Replace(u, l1[k], a), D, l2)
                /\ InList(l2) = (InList(l1) \ {l1[k]}) \cup {a}
                /\ SameLinks(Replace(u, l1[k], a), u, D \ (InList(l1) \cup {a}))
    BY <1>6, <2>2, ReplaceList
  <2> QED BY <2>1, <2>3
<1>8. r \in HeapsAt(D) /\ SameBlocks(r, u, D)
  <2>1. D \subseteq Pointers
    BY NotNull
  <2> QED BY <1>2, <1>6, <2>1, ReplaceFields
<1> HIDE DEF r
<1>9. PICK l2 : /\ Linked(r, D, l2) /\ InList(l2) = (InList(l1) \ {b}) \cup {a}
                /\ SameLinks(r, u, D \ (InList(l1) \cup {a}))
  BY <1>7
<1>10. /\ g \in HeapsAt(E) /\ g.first_free = r.first_free
       /\ \A x \in E :
            /\ g.mem[x].size = IF x = a THEN r.mem[a].size + HeaderSize + r.mem[b].size
                               ELSE r.mem[x].size
            /\ g.mem[x].next = IF x = a THEN r.mem[b].next ELSE r.mem[x].next
            /\ g.mem[x].prev = IF x = r.mem[b].next THEN a ELSE r.mem[x].prev
            /\ g.mem[x].alloc = r.mem[x].alloc
            /\ g.mem[x].prev_free = r.mem[x].prev_free
            /\ g.mem[x].next_free = r.mem[x].next_free
  <2>1. Taken(g, r, D, a, b)
    BY <1>1, <1>2, <1>8, MergeFields
  <2> QED BY <2>1 DEF Taken
<1>11. \A x \in D : /\ r.mem[x].size = h.mem[x].size /\ r.mem[x].alloc = h.mem[x].alloc
                    /\ r.mem[x].prev = h.mem[x].prev /\ r.mem[x].next = h.mem[x].next
  BY <1>6, <1>8 DEF SameBlocks
<1>12. \A x \in E :
         /\ g.mem[x].size = IF x = a THEN h.mem[a].size + HeaderSize + h.mem[b].size
                            ELSE h.mem[x].size
         /\ g.mem[x].next = IF x = a THEN h.mem[b].next ELSE h.mem[x].next
         /\ g.mem[x].prev = IF x = h.mem[b].next THEN a ELSE h.mem[x].prev
         /\ g.mem[x].alloc = h.mem[x].alloc
  BY <1>2, <1>10, <1>11
<1>13. Chained(g.mem, E)
  <2> DEFINE m == h.mem
             n == g.mem
  <2>1. Chained(m, D) /\ b = m[a].next
    OBVIOUS
  <2>2. \A x \in D \ {b} :
          /\ n[x].size = IF x = a THEN m[a].size + HeaderSize + m[b].size ELSE m[x].size
          /\ n[x].next = IF x = a THEN m[b].next ELSE m[x].next
          /\ n[x].prev = IF x = m[b].next THEN a ELSE m[x].prev
    BY <1>12
  <2> HIDE DEF m, n
  <2>3. Chained(n, D \ {b})
    BY <2>1, <2>2, MergeChain
  <2> QED BY <2>3 DEF n
<1>14. b \notin InList(l2) /\ InList(l2) \subseteq E /\ InList(l2) = (InList(list) \cup {a}) \ {b}
  BY <1>2, <1>3, <1>6, <1>9
<1>15. Linked(g, E, l2)
  <2>1. l2 \in Seq(E)
    <3>1. l2 \in Seq(D)
      BY <1>9 DEF Linked
    <3> HIDE DEF E
    <3> QED BY <1>14, <3>1, ListOver
  <2>2. SameLinks(g, r, InList(l2))
    BY <1>10, <1>14 DEF SameLinks
  <2> HIDE DEF E
  <2> QED BY <1>9, <1>10, <2>1, <2>2, StaysLinked
<1>16. InList(l2) = {x \in E : g.mem[x].alloc = 0}
  BY <1>12, <1>14
<1>17. ASSUME NEW x \in E, g.mem[x].alloc = 1
       PROVE  g.mem[x].prev_free = NULL /\ g.mem[x].next_free = NULL
  <2>1. x \in D /\ h.mem[x].alloc = 1 /\ x # a
    BY <1>12, <1>17
  <2>2. x \notin InList(list) /\ h.mem[x].prev_free = NULL /\ h.mem[x].next_free = NULL
    BY <2>1
  <2>3. u.mem[x].prev_free = NULL /\ u.mem[x].next_free = NULL
    BY <1>6, <2>1, <2>2 DEF SameLinks
  <2>4. r.mem[x].prev_free = NULL /\ r.mem[x].next_free = NULL
    BY <1>6, <1>9, <2>1, <2>2, <2>3 DEF SameLinks
  <2> QED BY <1>10, <2>4
<1>18. Merged(g.mem, E, {})
  <2>1. ASSUME NEW x \in E, g.mem[x].alloc = 0, g.mem[x].next # NULL
        PROVE  g.mem[g.mem[x].next].alloc = 1
    <3> DEFINE y == IF x = a THEN b ELSE x
    <3>1. /\ y \in D \ {a} /\ h.mem[y].alloc = 0 /\ h.mem[y].next # NULL
          /\ g.mem[x].next = h.mem[y].next
      BY <1>2, <1>12, <2>1
    <3>2. h.mem[y].next \in D /\ h.mem[h.mem[y].next].alloc = 1
      BY <3>1 DEF Merged, Chained
    <3> HIDE DEF y
    <3>3. h.mem[y].next # b
      BY <3>2
    <3> QED BY <1>12, <3>1, <3>2, <3>3
  <2> QED BY <2>1 DEF Merged
<1>19. Sound(g, E)
  BY <1>10, <1>13, <1>15, <1>16, <1>17, <1>18 DEF Sound, Listed
<1> QED BY <1>12, <1>19 DEF SoundWithout, g

\* The headers and first_free as a heap
Here == [mem |-> mem, first_free |-> first_free]

\* g has the blocks of D that are held, but for a, and they have the sizes they had
HeldButFor(g, E, D, a) ==
    /\ {x \in E : g.mem[x].alloc = 1} = {x \in D : mem[x].alloc = 1} \ {a}
    /\ \A x \in E : g.mem[x].alloc = 1 => g.mem[x].size = mem[x].size

\* Giving a block back.
LEMMA FreedSound ==
    ASSUME NEW D, Sound(Here, D), NEW a \in D, mem[a].alloc = 1
    PROVE  \E E \in SUBSET D : Sound(Freed(a), E) /\ HeldButFor(Freed(a), E, D, a)
<1> DEFINE r0 == Back(mem[a])
           h0 == [mem |-> [mem EXCEPT ![a].alloc = 0], first_free |-> first_free]
           p == mem[a].prev
           n == mem[a].next
           before == IsFree(h0, p)
           hdr == IF before THEN p ELSE a
           h1 == IF before THEN Merge(h0, hdr, a) ELSE h0
           behind == IsFree(h1, h1.mem[hdr].next)
           g == Freed(a)
<1>1. g = IF behind THEN MergeNext(h1, hdr) ELSE IF before THEN h1 ELSE Prepend(h1, hdr)
  BY DEF Freed
<1>2. /\ Here.mem = mem /\ Here.first_free = first_free
      /\ mem \in [D -> Headers] /\ first_free \in Pointers
      /\ Chained(mem, D) /\ D \in SUBSET Addresses /\ Merged(mem, D, {})
  BY DEF Here, Sound, HeapsAt, Chained
<1>3. PICK list : Listed(Here, D, list)
  BY DEF Sound
<1>4. /\ Linked(Here, D, list) /\ InList(list) = {x \in D : mem[x].alloc = 0}
      /\ \A x \in D : mem[x].alloc = 1 => mem[x].prev_free = NULL /\ mem[x].next_free = NULL
  BY <1>2, <1>3 DEF Listed
<1>5. /\ h0.first_free = first_free /\ h0 \in HeapsAt(D)
      /\ \A x \in D :
           /\ h0.mem[x].size = mem[x].size /\ h0.mem[x].alloc = IF x = a THEN 0 ELSE mem[x].alloc
           /\ h0.mem[x].prev = mem[x].prev /\ h0.mem[x].next = mem[x].next
           /\ h0.mem[x].prev_free = mem[x].prev_free /\ h0.mem[x].next_free = mem[x].next_free
  <2>1. h0.mem = [mem EXCEPT ![a] = r0] /\ h0.first_free = first_free
    BY DEF Back
  <2>2. h0 = [mem |-> h0.mem, first_free |-> h0.first_free]
    OBVIOUS
  <2>3. /\ r0 \in Headers /\ r0.alloc = 0
        /\ r0.size = mem[a].size /\ r0.prev = mem[a].prev /\ r0.next = mem[a].next
        /\ r0.prev_free = mem[a].prev_free /\ r0.next_free = mem[a].next_free
    BY <1>2, BackFields
  <2> HIDE DEF r0, h0
  <2>4. h0.mem \in [D -> Headers] /\ \A x \in D : h0.mem[x] = IF x = a THEN r0 ELSE mem[x]
    BY <1>2, <2>1, <2>3
  <2>5. h0 \in HeapsAt(D)
    BY <1>2, <2>1, <2>2, <2>4 DEF HeapsAt
  <2> QED BY <2>1, <2>3, <2>4, <2>5
<1> HIDE DEF h0, p, n, h1, g
<1>6. Chained(h0.mem, D)
  BY <1>2, <1>5, SameChain
<1>7. Linked(h0, D, list)
  <2>1. SameLinks(h0, Here, InList(list))
    BY <1>2, <1>4, <1>5 DEF SameLinks
  <2>2. list \in Seq(D) /\ h0.first_free = Here.first_free
    BY <1>2, <1>4, <1>5 DEF Linked
  <2> QED BY <1>4, <2>1, <2>2, StaysLinked
<1>8. /\ p # NULL => p \in D /\ mem[p].next = a /\ p # a
      /\ n # NULL => n \in D /\ mem[n].prev = a /\ n # a
  <2>1. p # NULL => p \in D /\ mem[p].next = a
    BY <1>2 DEF Chained, p
  <2>2. ASSUME NEW x \in D, mem[x].next # NULL PROVE mem[x].next # x
    <3>1. x \in Nat /\ mem[x].next \in Nat /\ x < mem[x].next
      BY <1>2, <2>2, NextInChain
    <3> QED BY <3>1
  <2>3. NULL \notin D
    BY <1>2, NotNull
  <2>4. n # NULL => n \in D /\ mem[n].prev = a
    BY <1>2 DEF Chained, n
  <2> QED BY <2>1, <2>2, <2>3, <2>4 DEF n
<1>9. CASE ~before
  <2>1. hdr = a /\ h1 = h0
    BY <1>9 DEF h1
  <2>2. \A x \in D \ {a} : h0.mem[x].alloc = 0 /\ h0.mem[x].next # NULL
                             => h0.mem[h0.mem[x].next].alloc = 1
    <3> SUFFICES ASSUME NEW x \in D \ {a}, h0.mem[x].alloc = 0, h0.mem[x].next # NULL
                 PROVE  h0.mem[h0.mem[x].next].alloc = 1
      OBVIOUS
    <3>1. mem[x].alloc = 0 /\ mem[x].next # NULL /\ h0.mem[x].next = mem[x].next
      BY <1>5
    <3>2. mem[x].next \in D /\ mem[mem[x].next].prev = x /\ mem[mem[x].next].alloc = 1
      BY <1>2, <3>1 DEF Merged, Chained
    <3>3. mem[x].next # a
      <4>1. SUFFICES ASSUME mem[x].next = a PROVE FALSE
        OBVIOUS
      <4>2. p = x /\ x # NULL
        BY <1>2, <3>2, <4>1, NotNull DEF p
      <4> QED BY <1>9, <4>2 DEF IsFree
    <3> QED BY <1>5, <3>1, <3>2, <3>3
  <2>3. /\ h0.mem[a].alloc = 0 /\ a \notin InList(list)
        /\ h0.mem[a].prev_free = NULL /\ h0.mem[a].next_free = NULL
        /\ h0.mem[a].next = n
        /\ \A x \in D : h0.mem[x].alloc = 1 => /\ h0.mem[x].prev_free = NULL
                                               /\ h0.mem[x].next_free = NULL
    BY <1>4, <1>5 DEF n
  <2>4. InList(list) \cup {a} = {x \in D : h0.mem[x].alloc = 0}
    BY <1>4, <1>5
  <2>5. CASE behind
    <3>1. n # NULL /\ h0.mem[n].alloc = 0 /\ g = MergeNext(h0, a)
      BY <1>1, <2>1, <2>3, <2>5 DEF IsFree
    <3>2. Merged(h0.mem, D, {a})
      BY <2>2 DEF Merged
    <3>3. /\ Sound(g, D \ {n})
          /\ \A x \in D \ {n} : /\ g.mem[x].alloc = h0.mem[x].alloc
                                /\ x # a => g.mem[x].size = h0.mem[x].size
      <4>1. Loose(h0, D, a, list)
        BY <1>2, <1>5, <1>6, <1>7, <2>3, <2>4, <3>2 DEF Loose
      <4>2. n = h0.mem[a].next
        BY <2>3
      <4>3. SoundWithout(g, h0, D, a, n)
        BY <3>1, <4>1, <4>2, MergeNextSound
      <4> QED BY <4>3 DEF SoundWithout
    <3>4. n \in D /\ mem[n].alloc = 0
      BY <1>5, <1>8, <3>1
    <3>5. HeldButFor(g, D \ {n}, D, a)
      BY <1>5, <2>3, <3>1, <3>3, <3>4 DEF HeldButFor
    <3>6. D \ {n} \in SUBSET D
      OBVIOUS
    <3> QED BY <3>1, <3>3, <3>5, <3>6 DEF g
  <2>6. CASE ~behind
    <3>1. g = Prepend(h0, a) /\ (n # NULL => h0.mem[n].alloc # 0)
      BY <1>1, <1>9, <2>1, <2>3, <2>6 DEF IsFree
    <3>2. PICK l : /\ Linked(g, D, l) /\ InList(l) = InList(list) \cup {a}
                   /\ SameLinks(g, h0, D \ (InList(list) \cup {a}))
      <4>1. a \in D \ InList(list)
        BY <2>3
      <4> QED BY <1>2, <1>5, <1>7, <2>3, <3>1, <4>1, PrependList
    <3>3. g \in HeapsAt(D) /\ SameBlocks(g, h0, D)
      <4>1. D \subseteq Pointers
        BY <1>2, NotNull
      <4> QED BY <1>5, <3>1, <4>1, PrependFields
    <3>4. Chained(g.mem, D)
      BY <1>6, <3>3, SameChain DEF SameBlocks
    <3>5. InList(l) = {x \in D : g.mem[x].alloc = 0}
      BY <2>4, <3>2, <3>3 DEF SameBlocks
    <3>6. \A x \in D : g.mem[x].alloc = 1 => g.mem[x].prev_free = NULL /\ g.mem[x].next_free = NULL
      BY <2>3, <2>4, <3>2, <3>3 DEF SameBlocks, SameLinks
    <3>7. Merged(g.mem, D, {})
      <4> SUFFICES ASSUME NEW x \in D, g.mem[x].alloc = 0, g.mem[x].next # NULL
                   PROVE  g.mem[g.mem[x].next].alloc = 1
        BY DEF Merged
      <4>1. h0.mem[x].alloc = 0 /\ h0.mem[x].next # NULL /\ g.mem[x].next = h0.mem[x].next
        BY <3>3 DEF SameBlocks
      <4>2. h0.mem[x].next \in D
        BY <1>6, <4>1 DEF Chained
      <4>3. h0.mem[h0.mem[x].next].alloc = 1
        <5>1. CASE x = a
          <6>1. h0.mem[n].alloc \in {0, 1}
            BY <1>5, <2>3, <4>2, <5>1 DEF HeapsAt, Headers
          <6> QED BY <2>3, <3>1, <4>1, <5>1, <6>1
        <5>2. CASE x # a
          BY <2>2, <4>1, <5>2
        <5> QED BY <5>1, <5>2
      <4> QED BY <3>3, <4>1, <4>2, <4>3 DEF SameBlocks
    <3>8. Sound(g, D)
      BY <3>2, <3>3, <3>4, <3>5, <3>6, <3>7 DEF Sound, Listed
    <3>9. HeldButFor(g, D, D, a)
      BY <1>5, <3>3 DEF HeldButFor, SameBlocks
    <3> QED BY <3>8, <3>9 DEF g
  <2> QED BY <2>5, <2>6
<1>10. CASE before
  <2>1. hdr = p /\ h1 = Merge(h0, p, a) /\ p # NULL /\ h0.mem[p].alloc = 0
    BY <1>10 DEF h1, IsFree
  <2> DEFINE E == D \ {a}
  <2>2. p \in E /\ mem[p].next = a /\ mem[p].alloc = 0
    BY <1>5, <1>8, <2>1
  <2>3. Taken(h1, h0, D, p, a)
    BY <1>2, <1>5, <1>8, <2>1, MergeFields
  <2>4. /\ h1 \in HeapsAt(E) /\ h1.first_free = first_free
        /\ \A x \in E :
             /\ h1.mem[x].size = IF x = p THEN mem[p].size + HeaderSize + mem[a].size
                                 ELSE mem[x].size
             /\ h1.mem[x].next = IF x = p THEN n ELSE mem[x].next
             /\ h1.mem[x].prev = IF x = n THEN p ELSE mem[x].prev
             /\ h1.mem[x].alloc = mem[x].alloc
             /\ h1.mem[x].prev_free = mem[x].prev_free
             /\ h1.mem[x].next_free = mem[x].next_free
    BY <1>5, <2>2, <2>3 DEF Taken, n
  <2>5. Chained(h1.mem, E)
    <3> DEFINE m == mem
               m1 == h1.mem
    <3>1. Chained(m, D) /\ p \in D /\ a = m[p].next /\ a # NULL
      BY <1>2, <2>2, NotNull
    <3>2. \A x \in D \ {a} :
            /\ m1[x].size = IF x = p THEN m[p].size + HeaderSize + m[a].size ELSE m[x].size
            /\ m1[x].next = IF x = p THEN m[a].next ELSE m[x].next
            /\ m1[x].prev = IF x = m[a].next THEN p ELSE m[x].prev
      BY <2>4 DEF n
    <3> HIDE DEF m, m1
    <3>3. Chained(m1, D \ {a})
      BY <3>1, <3>2, MergeChain
    <3> QED BY <3>3 DEF m1
  <2>6. InList(list) = {x \in E : h1.mem[x].alloc = 0} /\ InList(list) \subseteq E
    BY <1>4, <2>4
  <2>7. Linked(h1, E, list)
    <3>1. list \in Seq(D)
      BY <1>7 DEF Linked
    <3>2. SameLinks(h1, Here, InList(list)) /\ h1.first_free = Here.first_free
      BY <1>2, <2>4, <2>6 DEF SameLinks
    <3> HIDE DEF E
    <3>3. list \in Seq(E)
      BY <2>6, <3>1, ListOver
    <3> QED BY <1>4, <3>2, <3>3, StaysLinked
  <2>8. \A x \in E : h1.mem[x].alloc = 1 => h1.mem[x].prev_free = NULL /\ h1.mem[x].next_free = NULL
    BY <1>4, <2>4
  <2>9. \A x \in E \ {p} : h1.mem[x].alloc = 0 /\ h1.mem[x].next # NULL
                             => h1.mem[h1.mem[x].next].alloc = 1
    <3> SUFFICES ASSUME NEW x \in E \ {p}, h1.mem[x].alloc = 0, h1.mem[x].next # NULL
                 PROVE  h1.mem[h1.mem[x].next].alloc = 1
      OBVIOUS
    <3>1. mem[x].alloc = 0 /\ mem[x].next # NULL /\ h1.mem[x].next = mem[x].next
      BY <2>4
    <3>2. mem[x].next \in D /\ mem[mem[x].next].prev = x /\ mem[mem[x].next].alloc = 1
      BY <1>2, <3>1 DEF Merged, Chained
    <3>3. mem[x].next # a
      BY <3>2 DEF p
    <3> QED BY <2>4, <3>1, <3>2, <3>3
  <2>10. h1.mem[p].next = n /\ h1.mem[p].alloc = 0
    BY <2>2, <2>4
  <2>11. CASE behind
    <3>1. n # NULL /\ h1.mem[n].alloc = 0 /\ g = MergeNext(h1, p)
      BY <1>1, <2>1, <2>10, <2>11 DEF IsFree
    <3>2. Merged(h1.mem, E, {p})
      BY <2>9 DEF Merged
    <3>3. E \in SUBSET Addresses /\ InList(list) \cup {p} = {x \in E : h1.mem[x].alloc = 0}
          /\ p \in InList(list)
      BY <1>2, <2>2, <2>6, <2>10
    <3>4. /\ Sound(g, E \ {n})
          /\ \A x \in E \ {n} : /\ g.mem[x].alloc = h1.mem[x].alloc
                                /\ x # p => g.mem[x].size = h1.mem[x].size
      <4>1. p \in E
        BY <2>2
      <4> HIDE DEF E
      <4>2. Loose(h1, E, p, list)
        BY <2>4, <2>5, <2>7, <2>8, <2>10, <3>2, <3>3, <4>1 DEF Loose
      <4>3. n = h1.mem[p].next
        BY <2>10
      <4>4. SoundWithout(g, h1, E, p, n)
        BY <3>1, <4>2, <4>3, MergeNextSound
      <4> QED BY <4>4 DEF SoundWithout
    <3>5. n \in E /\ mem[n].alloc = 0
      BY <1>8, <2>4, <3>1
    <3>6. HeldButFor(g, E \ {n}, D, a)
      BY <2>2, <2>4, <3>1, <3>4, <3>5 DEF HeldButFor
    <3>7. E \ {n} \in SUBSET D
      OBVIOUS
    <3> QED BY <3>1, <3>4, <3>6, <3>7 DEF g
  <2>12. CASE ~behind
    <3>1. g = h1 /\ (n # NULL => h1.mem[n].alloc # 0)
      BY <1>1, <1>10, <2>1, <2>10, <2>12 DEF IsFree
    <3>2. Merged(h1.mem, E, {})
      <4> SUFFICES ASSUME NEW x \in E, h1.mem[x].alloc = 0, h1.mem[x].next # NULL
                   PROVE  h1.mem[h1.mem[x].next].alloc = 1
        BY DEF Merged
      <4>1. CASE x = p
        <5>1. n \in E
          BY <1>8, <2>10, <4>1
        <5>2. h1.mem[n].alloc \in {0, 1}
          BY <2>4, <5>1 DEF HeapsAt, Headers
        <5> QED BY <2>10, <3>1, <4>1, <5>2
      <4>2. CASE x # p
        BY <2>9, <4>2
      <4> QED BY <4>1, <4>2
    <3>3. Sound(h1, E)
      BY <2>4, <2>5, <2>6, <2>7, <2>8, <3>2 DEF Sound, Listed
    <3>4. HeldButFor(h1, E, D, a)
      BY <2>2, <2>4 DEF HeldButFor
    <3>5. E \in SUBSET D
      OBVIOUS
    <3> QED BY <3>1, <3>3, <3>4, <3>5 DEF g
  <2> QED BY <2>11, <2>12
<1> QED BY <1>9, <1>10

-----------------------------------------------------------------------------
(***************************************************************************)
(* The state                                                               *)
(***************************************************************************)
\* Rounding up makes a length no shorter.
LEMMA AlignedLonger ==
    ASSUME NEW len \in Nat
    PROVE  Aligned(len) \in Nat /\ len <= Aligned(len)
<1>1. ALIGN_MULTIPLE \in Nat /\ ALIGN_MULTIPLE > 0
  BY PoolAssumption
<1> DEFINE r == len % ALIGN_MULTIPLE
<1>2. r \in 0 .. ALIGN_MULTIPLE - 1
  BY <1>1
<1>3. Aligned(len) = IF r = 0 THEN len ELSE len - r + ALIGN_MULTIPLE
  BY DEF Aligned
<1> HIDE DEF r
<1> QED BY <1>1, <1>2, <1>3

\* The walk along the links goes through the whole list.
LEMMA FreeListIs ==
    ASSUME NEW list, Linked(Here, DOMAIN mem, list), DOMAIN mem \in SUBSET Addresses,
           first \in DOMAIN mem
    PROVE  FreeList = list
<1> DEFINE D == DOMAIN mem
           L == Len(list)
           W == [n \in Nat |-> [i \in 1 .. (IF n + 1 <= L THEN n + 1 ELSE L) |-> list[i]]]
           Eq(w) == w = [n \in Nat |->
                      IF n = 0 THEN IF first_free \in DOMAIN mem THEN <<first_free>> ELSE << >>
                      ELSE LET u == w[n - 1]
                           IN IF Len(u) = n /\ mem[u[n]].next_free \in DOMAIN mem
                              THEN Append(u, mem[u[n]].next_free) ELSE u]
           C == Cardinality(D)
<1>1. /\ L \in Nat /\ \A i \in 1 .. L : list[i] \in D
      /\ \A i, j \in 1 .. L : list[i] = list[j] => i = j
      /\ list \in Seq(D)
      /\ first_free = IF L = 0 THEN NULL ELSE list[1]
      /\ \A i \in 1 .. L : mem[list[i]].next_free = IF i = L THEN NULL ELSE list[i + 1]
  <2>1. Here.mem = mem /\ Here.first_free = first_free
    BY DEF Here
  <2>2. L \in Nat /\ (\A i \in 1 .. L : list[i] \in D) /\ list \in Seq(D)
    BY LenProperties DEF Linked
  <2> QED BY <2>1, <2>2 DEF Linked, Distinct
<1>2. NULL \notin D
  BY NotNull
<1>3. ASSUME NEW n \in Nat
      PROVE  /\ W[n] \in Seq(D) /\ Len(W[n]) = (IF n + 1 <= L THEN n + 1 ELSE L)
             /\ \A i \in 1 .. Len(W[n]) : W[n][i] = list[i]
  <2> DEFINE k == IF n + 1 <= L THEN n + 1 ELSE L
             s == [i \in 1 .. k |-> list[i]]
  <2>1. W[n] = s
    OBVIOUS
  <2>2. k \in Nat /\ k <= L
    BY <1>1
  <2>3. \A i \in 1 .. k : list[i] \in D
    BY <1>1, <2>2
  <2> HIDE DEF k, W, D
  <2>4. s \in Seq(D) /\ Len(s) = k /\ \A i \in 1 .. k : s[i] = list[i]
    BY <2>2, <2>3
  <2> HIDE DEF s
  <2> QED BY <2>1, <2>4 DEF k
<1>4. W[0] = IF first_free \in DOMAIN mem THEN <<first_free>> ELSE << >>
  <2>1. CASE L = 0
    <3>1. Len(W[0]) = 0 /\ W[0] \in Seq(D)
      BY <1>1, <1>3, <2>1
    <3>2. W[0] = << >>
      BY <3>1, EmptySeq
    <3>3. first_free \notin DOMAIN mem
      BY <1>1, <1>2, <2>1
    <3> QED BY <3>2, <3>3
  <2>2. CASE L # 0
    <3>1. 1 \in 1 .. L /\ first_free = list[1] /\ first_free \in D
      BY <1>1, <2>2
    <3>2. W[0] \in Seq(D) /\ Len(W[0]) = 1 /\ W[0][1] = first_free
      BY <1>1, <1>3, <2>2, <3>1
    <3>3. <<first_free>> \in Seq(D) /\ Len(<<first_free>>) = 1 /\ <<first_free>>[1] = first_free
      BY <3>1
    <3> HIDE DEF W, D
    <3>4. W[0] = <<first_free>>
      BY <3>2, <3>3, SeqEqual
    <3> QED BY <3>1, <3>4 DEF D
  <2> QED BY <2>1, <2>2
<1>5. ASSUME NEW n \in Nat \ {0}
      PROVE  W[n] = LET u == W[n - 1]
                    IN IF Len(u) = n /\ mem[u[n]].next_free \in DOMAIN mem
                       THEN Append(u, mem[u[n]].next_free) ELSE u
  <2> DEFINE u == W[n - 1]
  <2>1. /\ u \in Seq(D) /\ Len(u) = (IF n <= L THEN n ELSE L)
        /\ \A i \in 1 .. Len(u) : u[i] = list[i]
    <3> DEFINE m == n - 1
    <3>1. m \in Nat /\ m + 1 = n
      OBVIOUS
    <3> HIDE DEF m, W
    <3>2. /\ W[m] \in Seq(D) /\ Len(W[m]) = (IF m + 1 <= L THEN m + 1 ELSE L)
          /\ \A i \in 1 .. Len(W[m]) : W[m][i] = list[i]
      BY <1>3, <3>1
    <3> QED BY <3>1, <3>2 DEF m
  <2>2. /\ W[n] \in Seq(D) /\ Len(W[n]) = (IF n + 1 <= L THEN n + 1 ELSE L)
        /\ \A i \in 1 .. Len(W[n]) : W[n][i] = list[i]
    BY <1>3
  <2> HIDE DEF W, u
  <2>3. CASE n < L
    <3>1. Len(u) = n /\ u[n] = list[n] /\ n \in 1 .. L /\ n + 1 \in 1 .. L
      BY <1>1, <2>1, <2>3
    <3>2. mem[u[n]].next_free = list[n + 1] /\ list[n + 1] \in D
      BY <1>1, <2>3, <3>1
    <3> DEFINE x == list[n + 1]
               v == Append(u, x)
    <3> HIDE DEF x
    <3>3. v \in Seq(D) /\ Len(v) = n + 1 /\ (\A i \in 1 .. n : v[i] = u[i]) /\ v[n + 1] = x
      BY <2>1, <3>1, <3>2, AppendProperties DEF x
    <3>4. \A i \in 1 .. n + 1 : v[i] = list[i]
      <4> HIDE DEF v
      <4> QED BY <2>1, <3>1, <3>3 DEF x
    <3>5. Len(W[n]) = n + 1 /\ \A i \in 1 .. n + 1 : W[n][i] = list[i]
      BY <1>1, <2>2, <2>3
    <3> HIDE DEF v
    <3>6. W[n] = v
      BY <2>2, <3>3, <3>4, <3>5, SeqEqual
    <3> QED BY <3>1, <3>2, <3>6 DEF u, v, x
  <2>4. CASE n >= L
    <3>1. ~(Len(u) = n /\ mem[u[n]].next_free \in D)
      <4>1. SUFFICES ASSUME Len(u) = n PROVE mem[u[n]].next_free \notin D
        OBVIOUS
      <4>2. n = L /\ n \in 1 .. L /\ u[n] = list[n]
        BY <1>1, <2>1, <2>4, <4>1
      <4> QED BY <1>1, <1>2, <4>2
    <3>2. Len(W[n]) = L /\ Len(u) = L
      BY <1>1, <2>1, <2>2, <2>4
    <3>3. W[n] = u
      BY <2>1, <2>2, <3>2, SeqEqual
    <3> QED BY <3>1, <3>3 DEF u
  <2> QED BY <1>1, <2>3, <2>4
<1>6. Eq(W)
  <2>1. W = [n \in Nat |-> W[n]]
    OBVIOUS
  <2> HIDE DEF W
  <2> QED BY <1>4, <1>5, <2>1
<1> DEFINE F == CHOOSE w : Eq(w)
<1>7. Eq(F)
  <2> HIDE DEF W, Eq
  <2> QED BY <1>6
<1>8. FreeList = F[C]
  BY DEF FreeList
<1>9. \A n \in Nat : F[n] = W[n]
  <2> DEFINE T == {n \in Nat : F[n] = W[n]}
  <2>1. 0 \in T
    BY <1>4, <1>7
  <2>2. ASSUME NEW n \in Nat, n \in T PROVE n + 1 \in T
    <3>1. n + 1 \in Nat \ {0} /\ (n + 1) - 1 = n /\ F[n] = W[n]
      <4>1. F[n] = W[n]
        <5> HIDE DEF F, W
        <5> QED BY <2>2, Zenon
      <4>2. n + 1 \in Nat \ {0} /\ (n + 1) - 1 = n
        OBVIOUS
      <4> HIDE DEF F, W
      <4> QED BY <4>1, <4>2
    <3>2. F[n + 1] = LET u == F[n]
                     IN IF Len(u) = n + 1 /\ mem[u[n + 1]].next_free \in DOMAIN mem
                        THEN Append(u, mem[u[n + 1]].next_free) ELSE u
      <4>1. F = [k \in Nat |->
                   IF k = 0 THEN IF first_free \in DOMAIN mem THEN <<first_free>> ELSE << >>
                   ELSE LET u == F[k - 1]
                        IN IF Len(u) = k /\ mem[u[k]].next_free \in DOMAIN mem
                           THEN Append(u, mem[u[k]].next_free) ELSE u]
        BY <1>7
      <4> HIDE DEF F
      <4> DEFINE k == n + 1
      <4>2. k \in Nat /\ k # 0 /\ k - 1 = n
        BY <3>1
      <4> HIDE DEF k
      <4>3. F[k] = LET u == F[k - 1]
                   IN IF Len(u) = k /\ mem[u[k]].next_free \in DOMAIN mem
                      THEN Append(u, mem[u[k]].next_free) ELSE u
        BY <4>1, <4>2
      <4> QED BY <4>2, <4>3 DEF k
    <3>3. W[n + 1] = LET u == W[n]
                     IN IF Len(u) = n + 1 /\ mem[u[n + 1]].next_free \in DOMAIN mem
                        THEN Append(u, mem[u[n + 1]].next_free) ELSE u
      BY <1>5, <3>1
    <3> HIDE DEF F, W
    <3> QED BY <3>1, <3>2, <3>3
  <2> HIDE DEF T
  <2>3. \A n \in Nat : n \in T
    BY <2>1, <2>2, AllNumbers
  <2> QED BY <2>3 DEF T
<1> HIDE DEF F, Eq
<1>10. C \in Nat /\ L <= C /\ C # 0
  <2>1. IsFiniteSet(D) /\ C \in Nat
    <3>1. IsFiniteSet(0 .. PoolSize - 1)
      BY PoolNumbers, FS_Interval
    <3> QED BY <3>1, FS_Subset, FS_CardinalityType DEF Addresses
  <2>2. C # 0
    BY <2>1, FS_EmptySet
  <2>3. list \in Injection(1 .. L, D)
    <3>1. list \in [1 .. L -> D]
      BY <1>1, LenProperties
    <3> QED BY <1>1, <3>1 DEF Injection, IsInjective
  <2>4. Cardinality(1 .. L) = L
    <3> DEFINE k == L
    <3>1. k \in Nat
      BY <1>1
    <3> HIDE DEF k
    <3>2. Cardinality(1 .. k) = IF 1 > k THEN 0 ELSE k - 1 + 1
      BY <3>1, FS_Interval
    <3>3. Cardinality(1 .. k) = k
      BY <3>1, <3>2
    <3> QED BY <3>3 DEF k
  <2>5. L <= C
    BY <2>1, <2>3, <2>4, FS_Injection
  <2> QED BY <2>1, <2>2, <2>5
<1>11. W[C] = list
  <2>1. W[C] \in Seq(D) /\ Len(W[C]) = L /\ \A i \in 1 .. L : W[C][i] = list[i]
    BY <1>1, <1>3, <1>10
  <2> HIDE DEF W, C, D
  <2> QED BY <1>1, <2>1, SeqEqual
<1> QED BY <1>8, <1>9, <1>10, <1>11

\* What the users hold are the blocks that are given out, in full, each once
HeldSound ==
    /\ held \subseteq [at : Addresses, len : 1 .. MaxLen]
    /\ \A part, other \in held : part.at = other.at => part = other
    /\ {part.at - HeaderSize : part \in held} = {a \in DOMAIN mem : mem[a].alloc = 1}
    /\ \A part \in held : part.len <= mem[part.at - HeaderSize].size

\* The inductive invariant
PoolInv == Sound(Here, DOMAIN mem) /\ HeldSound

\* The state after a step that stores the heap g.
LEMMA StoredHeap ==
    ASSUME NEW D, NEW g \in HeapsAt(D), mem' = g.mem, first_free' = g.first_free
    PROVE  Here' = g /\ DOMAIN mem' = D
BY DEF Here, HeapsAt

\* The pool starts as one free block.
LEMMA InitPoolInv ==
    ASSUME Init
    PROVE  PoolInv
<1> DEFINE r == [size |-> PoolSize - HeaderSize, alloc |-> 0, prev |-> NULL, next |-> NULL,
                 prev_free |-> NULL, next_free |-> NULL]
           D == {first}
<1>1. mem = [a \in D |-> r] /\ first_free = first /\ held = {}
  BY DEF Init
<1>2. PoolSize - HeaderSize \in Nat /\ 0 \in Addresses
  <2>1. PoolSize > HeaderSize
    BY PoolAssumption
  <2> QED BY <2>1, PoolNumbers DEF Addresses
<1>3. /\ r \in Headers
      /\ r.size = PoolSize - HeaderSize /\ r.alloc = 0 /\ r.prev = NULL /\ r.next = NULL
      /\ r.prev_free = NULL /\ r.next_free = NULL
  BY <1>2 DEF Headers, Pointers
<1> HIDE DEF r
<1>4. DOMAIN mem = D /\ mem[first] = r /\ mem \in [D -> Headers] /\ first \in D
      /\ \A a \in D : a = first
  BY <1>1, <1>3
<1>5. D \subseteq Addresses /\ first \in Nat
  BY <1>2 DEF first
<1> HIDE DEF D
<1>6. Here.mem = mem /\ Here.first_free = first_free /\ Here \in HeapsAt(D)
  BY <1>1, <1>4, <1>5 DEF Here, HeapsAt, Pointers
<1>7. Chained(mem, D)
  <2>1. Ends(mem, first) = PoolSize
    BY <1>2, <1>3, <1>4, PoolNumbers DEF Ends, first
  <2> QED BY <1>2, <1>3, <1>4, <1>5, <2>1, PoolNumbers DEF Chained
<1>8. Merged(mem, D, {})
  BY <1>3, <1>4 DEF Merged
<1>9. Listed(Here, D, <<first>>)
  <2> DEFINE s == <<first>>
  <2>1. s \in Seq(D) /\ Len(s) = 1 /\ s[1] = first
    BY <1>4
  <2> HIDE DEF s
  <2>2. InList(s) = D
    <3>1. InList(s) = {s[1]}
      BY <2>1 DEF InList
    <3> QED BY <1>4, <2>1, <3>1
  <2>3. Linked(Here, D, s)
    BY <1>1, <1>3, <1>4, <1>6, <2>1 DEF Linked, Distinct
  <2>4. D = {a \in D : mem[a].alloc = 0}
    BY <1>3, <1>4
  <2>5. \A a \in D : mem[a].alloc # 1
    BY <1>3, <1>4
  <2> QED BY <1>6, <2>2, <2>3, <2>4, <2>5 DEF Listed, s
<1>10. Sound(Here, D)
  BY <1>6, <1>7, <1>8, <1>9 DEF Sound
<1>11. HeldSound
  BY <1>1, <1>3, <1>4 DEF HeldSound
<1> QED BY <1>4, <1>10, <1>11 DEF PoolInv

\* What the invariant says of the state in plain terms.
LEMMA PoolFacts ==
    ASSUME PoolInv
    PROVE  /\ Here.mem = mem /\ Here.first_free = first_free
           /\ mem \in [DOMAIN mem -> Headers] /\ Chained(mem, DOMAIN mem)
           /\ DOMAIN mem \in SUBSET Addresses /\ DOMAIN mem \subseteq Nat
           /\ Merged(mem, DOMAIN mem, {})
           /\ Listed(Here, DOMAIN mem, FreeList)
<1>1. /\ Here.mem = mem /\ Here.first_free = first_free
      /\ mem \in [DOMAIN mem -> Headers] /\ Chained(mem, DOMAIN mem)
      /\ Merged(mem, DOMAIN mem, {})
  BY DEF PoolInv, Sound, Here, HeapsAt
<1>2. DOMAIN mem \in SUBSET Addresses /\ DOMAIN mem \subseteq Nat /\ first \in DOMAIN mem
  BY <1>1, PoolNumbers DEF Chained
<1>3. PICK list : Listed(Here, DOMAIN mem, list)
  BY DEF PoolInv, Sound
<1>4. FreeList = list
  BY <1>2, <1>3, FreeListIs DEF Listed
<1> QED BY <1>1, <1>2, <1>3, <1>4

\* A block that is given out is free and long enough.
LEMMA FittingIsFree ==
    ASSUME PoolInv, NEW n \in Nat, NEW cur \in Fitting(n)
    PROVE  cur \in DOMAIN mem /\ mem[cur].alloc = 0 /\ mem[cur].size >= n
<1>1. PICK k \in 1 .. Len(FreeList) : cur = FreeList[k] /\ mem[FreeList[k]].size >= n
  BY DEF Fitting
<1>2. cur \in InList(FreeList)
  BY <1>1 DEF InList
<1>3. InList(FreeList) = {a \in DOMAIN mem : mem[a].alloc = 0}
  BY PoolFacts DEF Listed
<1> QED BY <1>1, <1>2, <1>3

\* The part that a user gets is in the block.
LEMMA PartInBlock ==
    ASSUME PoolInv, NEW a \in DOMAIN mem, NEW len \in 1 .. MaxLen, len <= mem[a].size
    PROVE  /\ a + HeaderSize \in Addresses /\ (a + HeaderSize) - HeaderSize = a
           /\ a + HeaderSize + len <= Ends(mem, a) /\ Ends(mem, a) <= PoolSize
<1>1. a \in Nat /\ mem[a].size \in Nat /\ Ends(mem, a) <= PoolSize
  BY PoolFacts DEF Chained
<1>2. MaxLen \in Nat
  BY PoolAssumption
<1> QED BY <1>1, <1>2, PoolNumbers DEF Ends, Addresses

\* Giving out the block at a for len bytes, when that leaves the other blocks alone.
LEMMA GivenHeld ==
    ASSUME PoolInv, NEW a \in DOMAIN mem, mem[a].alloc = 0,
           NEW len \in 1 .. MaxLen, len <= mem[a].size, len <= mem'[a].size,
           held' = held \cup {[at |-> a + HeaderSize, len |-> len]},
           {x \in DOMAIN mem' : mem'[x].alloc = 1}
             = {x \in DOMAIN mem : mem[x].alloc = 1} \cup {a},
           \A x \in DOMAIN mem : mem[x].alloc = 1 => mem'[x].size = mem[x].size
    PROVE  HeldSound'
<1> DEFINE new == [at |-> a + HeaderSize, len |-> len]
           at == a + HeaderSize
<1>1. at \in Addresses /\ at - HeaderSize = a
  BY PartInBlock
<1>2. new.at = at /\ new.len = len /\ new \in [at : Addresses, len : 1 .. MaxLen]
      /\ held' = held \cup {new}
  BY <1>1
<1> HIDE DEF new, at
<1>3. /\ held \subseteq [at : Addresses, len : 1 .. MaxLen]
      /\ \A part, other \in held : part.at = other.at => part = other
      /\ {part.at - HeaderSize : part \in held} = {x \in DOMAIN mem : mem[x].alloc = 1}
      /\ \A part \in held : part.len <= mem[part.at - HeaderSize].size
  BY DEF PoolInv, HeldSound
<1>4. \A part \in held : /\ part.at - HeaderSize \in DOMAIN mem
                         /\ mem[part.at - HeaderSize].alloc = 1
                         /\ part.at # new.at
  BY <1>1, <1>2, <1>3
<1>5. held' \subseteq [at : Addresses, len : 1 .. MaxLen]
  BY <1>2, <1>3
<1>6. \A part, other \in held' : part.at = other.at => part = other
  BY <1>2, <1>3, <1>4
<1>7. {part.at - HeaderSize : part \in held'} = {x \in DOMAIN mem' : mem'[x].alloc = 1}
  <2>1. {part.at - HeaderSize : part \in held'}
          = {part.at - HeaderSize : part \in held} \cup {new.at - HeaderSize}
    BY <1>2
  <2> QED BY <1>1, <1>2, <1>3, <2>1
<1>8. \A part \in held' : part.len <= mem'[part.at - HeaderSize].size
  BY <1>1, <1>2, <1>3, <1>4
<1> QED BY <1>5, <1>6, <1>7, <1>8 DEF HeldSound

\* buffer_alloc_malloc keeps the invariant.
LEMMA MallocPoolInv ==
    ASSUME PoolInv, NEW len \in 1 .. MaxLen, Malloc(len)
    PROVE  PoolInv'
<1> DEFINE D == DOMAIN mem
           n == Aligned(len)
<1>1. len \in Nat /\ n \in Nat /\ len <= n
  <2>1. MaxLen \in Nat
    BY PoolAssumption
  <2>2. len \in Nat
    BY <2>1
  <2> QED BY <2>2, AlignedLonger
<1>2. PICK cur \in Fitting(n) :
        LET taken == IF TooSmall(mem[cur].size - n) THEN Whole(Here, cur) ELSE Split(Here, cur, n)
        IN /\ mem' = taken.mem /\ first_free' = taken.first_free
           /\ held' = held \cup {[at |-> cur + HeaderSize, len |-> len]}
  BY DEF Malloc, Here
<1> HIDE DEF n
<1>3. cur \in D /\ mem[cur].alloc = 0 /\ mem[cur].size >= n
  BY <1>1, <1>2, FittingIsFree
<1>4. /\ Here.mem = mem /\ Here.first_free = first_free
      /\ mem \in [D -> Headers] /\ Sound(Here, D) /\ D \subseteq Nat
  BY PoolFacts DEF PoolInv
<1>5. mem[cur].size \in Nat /\ len <= mem[cur].size
  BY <1>1, <1>3, <1>4 DEF Headers
<1>6. CASE TooSmall(mem[cur].size - n)
  <2> DEFINE g == Whole(Here, cur)
  <2>1. mem' = g.mem /\ first_free' = g.first_free
    BY <1>2, <1>6
  <2>2. /\ Sound(g, D)
        /\ \A x \in D : /\ g.mem[x].size = mem[x].size
                        /\ g.mem[x].alloc = IF x = cur THEN 1 ELSE mem[x].alloc
    BY <1>3, <1>4, WholeSound
  <2> HIDE DEF g
  <2>3. Here' = g /\ DOMAIN mem' = D
    BY <2>1, <2>2, StoredHeap DEF Sound
  <2>4. {x \in DOMAIN mem' : mem'[x].alloc = 1} = {x \in D : mem[x].alloc = 1} \cup {cur}
    BY <1>3, <2>1, <2>2, <2>3
  <2>5. HeldSound'
    BY <1>2, <1>3, <1>5, <2>1, <2>2, <2>3, <2>4, GivenHeld
  <2> QED BY <2>2, <2>3, <2>5 DEF PoolInv
<1>7. CASE ~TooSmall(mem[cur].size - n)
  <2> DEFINE g == Split(Here, cur, n)
             b == cur + HeaderSize + n
             E == D \cup {b}
  <2>1. mem' = g.mem /\ first_free' = g.first_free
    BY <1>2, <1>7
  <2>2. HeaderSize < mem[cur].size - n
    <3>1. ALIGN_MULTIPLE \in Nat /\ ALIGN_MULTIPLE > 0
      BY PoolAssumption
    <3> QED BY <1>1, <1>5, <1>7, <3>1, PoolNumbers DEF TooSmall
  <2>3. /\ b \notin D /\ Sound(g, E)
        /\ \A x \in E : /\ x \notin {cur, b} => g.mem[x].size = mem[x].size
                        /\ g.mem[cur].size = n
                        /\ g.mem[x].alloc = IF x = cur THEN 1 ELSE IF x = b THEN 0
                                            ELSE mem[x].alloc
    <3> DEFINE h == Here
    <3>1. Sound(h, D) /\ h.mem[cur].alloc = 0 /\ HeaderSize < h.mem[cur].size - n
      BY <1>3, <1>4, <2>2
    <3> HIDE DEF h, g, b
    <3>2. b = cur + HeaderSize + n
      BY DEF b
    <3>3. SoundSplit(Split(h, cur, n), h, D, cur, b, n)
      BY <1>1, <1>3, <3>1, <3>2, SplitSound
    <3>4. SoundSplit(g, Here, D, cur, b, n)
      BY <3>3 DEF g, h
    <3> QED BY <1>4, <3>4 DEF SoundSplit
  <2> HIDE DEF g, b
  <2>4. Here' = g /\ DOMAIN mem' = E
    BY <2>1, <2>3, StoredHeap DEF Sound
  <2>5. {x \in DOMAIN mem' : mem'[x].alloc = 1} = {x \in D : mem[x].alloc = 1} \cup {cur}
    BY <1>3, <2>1, <2>3, <2>4
  <2>6. /\ len <= mem'[cur].size
        /\ \A x \in D : mem[x].alloc = 1 => mem'[x].size = mem[x].size
    BY <1>1, <1>3, <2>1, <2>3
  <2>7. HeldSound'
    BY <1>2, <1>3, <1>5, <2>5, <2>6, GivenHeld
  <2> QED BY <2>3, <2>4, <2>7 DEF PoolInv
<1> QED BY <1>6, <1>7

\* buffer_alloc_free keeps the invariant.
LEMMA FreePoolInv ==
    ASSUME PoolInv, NEW part \in held, Free(part)
    PROVE  PoolInv'
<1> DEFINE D == DOMAIN mem
           a == part.at - HeaderSize
           g == Freed(a)
<1>1. mem' = g.mem /\ first_free' = g.first_free /\ held' = held \ {part}
  BY DEF Free
<1>2. /\ held \subseteq [at : Addresses, len : 1 .. MaxLen]
      /\ \A p, other \in held : p.at = other.at => p = other
      /\ {p.at - HeaderSize : p \in held} = {x \in D : mem[x].alloc = 1}
      /\ \A p \in held : p.len <= mem[p.at - HeaderSize].size
  BY DEF PoolInv, HeldSound
<1>3. a \in D /\ mem[a].alloc = 1 /\ Sound(Here, D)
  BY <1>2 DEF PoolInv
<1>4. PICK E \in SUBSET D : Sound(Freed(a), E) /\ HeldButFor(Freed(a), E, D, a)
  <2> HIDE DEF a, D
  <2> QED BY <1>3, FreedSound
<1>5. Here' = g /\ DOMAIN mem' = E
  <2> HIDE DEF g
  <2>1. Sound(g, E)
    BY <1>4 DEF g
  <2> QED BY <1>1, <2>1, StoredHeap DEF Sound
<1>6. /\ {x \in E : mem'[x].alloc = 1} = {x \in D : mem[x].alloc = 1} \ {a}
      /\ \A x \in E : mem'[x].alloc = 1 => mem'[x].size = mem[x].size
  BY <1>1, <1>4 DEF HeldButFor
<1> HIDE DEF g
<1>7. \A p \in held : p # part => p.at - HeaderSize # a
  <2>1. \A p \in held : p.at \in Nat
    BY <1>2, PoolNumbers
  <2>2. \A p \in held : p # part => p.at # part.at
    BY <1>2
  <2> QED BY <2>1, <2>2, PoolNumbers
<1> HIDE DEF a
<1>8. {p.at - HeaderSize : p \in held'} = {x \in DOMAIN mem' : mem'[x].alloc = 1}
  <2>1. {p.at - HeaderSize : p \in held'} = {p.at - HeaderSize : p \in held} \ {a}
    BY <1>1, <1>7 DEF a
  <2> QED BY <1>2, <1>5, <1>6, <2>1
<1>9. ASSUME NEW p \in held' PROVE p.len <= mem'[p.at - HeaderSize].size
  <2>1. p \in held /\ p.at - HeaderSize \in {x \in DOMAIN mem' : mem'[x].alloc = 1}
    BY <1>1, <1>8
  <2>2. mem'[p.at - HeaderSize].size = mem[p.at - HeaderSize].size
    BY <1>5, <1>6, <2>1
  <2> QED BY <1>2, <2>1, <2>2
<1>10. HeldSound'
  <2>1. held' \subseteq held
    BY <1>1
  <2> QED BY <1>2, <1>8, <1>9, <2>1 DEF HeldSound
<1> QED BY <1>4, <1>5, <1>10 DEF PoolInv, g

-----------------------------------------------------------------------------
(***************************************************************************)
(* The theorems                                                            *)
(***************************************************************************)
\* The strengthened invariant holds of every reachable state.
LEMMA PoolAlwaysSound == Spec => []PoolInv
<1>1. Init => PoolInv
  BY InitPoolInv
<1>2. PoolInv /\ [Next]_vars => PoolInv'
  <2> SUFFICES ASSUME PoolInv, [Next]_vars PROVE PoolInv'
    OBVIOUS
  <2>1. ASSUME NEW len \in 1 .. MaxLen, Malloc(len) PROVE PoolInv'
    BY <2>1, MallocPoolInv
  <2>2. ASSUME NEW part \in held, Free(part) PROVE PoolInv'
    BY <2>2, FreePoolInv
  <2>3. CASE UNCHANGED vars
    <3>1. mem' = mem /\ first_free' = first_free /\ held' = held
      BY <2>3 DEF vars
    <3> QED BY <3>1 DEF PoolInv, HeldSound, Here
  <2> QED BY <2>1, <2>2, <2>3 DEF Next
<1> QED BY <1>1, <1>2, PTL DEF Spec

\* The headers that the invariant speaks of have their types.
LEMMA PoolTyped ==
    ASSUME PoolInv
    PROVE  TypeOK
<1>1. /\ mem \in [DOMAIN mem -> Headers] /\ Chained(mem, DOMAIN mem)
      /\ DOMAIN mem \in SUBSET Addresses /\ Listed(Here, DOMAIN mem, FreeList)
      /\ Here.first_free = first_free
  BY PoolFacts
<1>2. ASSUME NEW a \in DOMAIN mem
      PROVE  mem[a] \in [size : 0 .. PoolSize, alloc : {0, 1}, prev : Pointers, next : Pointers,
                         prev_free : Pointers, next_free : Pointers]
  <2>1. mem[a] \in Headers
    BY <1>1
  <2>2. mem[a].size \in 0 .. PoolSize
    <3>1. a \in Nat /\ mem[a].size \in Nat /\ a + HeaderSize + mem[a].size <= PoolSize
      BY <1>1, PoolNumbers DEF Chained, Ends
    <3> QED BY <3>1, PoolNumbers
  <2> QED BY <2>1, <2>2 DEF Headers
<1>3. first_free \in DOMAIN mem \cup {NULL}
  <2> DEFINE list == FreeList
  <2>1. list \in Seq(DOMAIN mem) /\ first_free = IF Len(list) = 0 THEN NULL ELSE list[1]
    BY <1>1 DEF Listed, Linked
  <2> HIDE DEF list
  <2>2. Len(list) \in Nat /\ \A i \in 1 .. Len(list) : list[i] \in DOMAIN mem
    BY <2>1, LenProperties
  <2> QED BY <2>1, <2>2
<1>4. first \in DOMAIN mem /\ DOMAIN mem \subseteq Addresses
  BY <1>1 DEF Chained
<1>5. held \subseteq [at : Addresses, len : 1 .. MaxLen]
  BY DEF PoolInv, HeldSound
<1> QED BY <1>2, <1>3, <1>4, <1>5 DEF TypeOK

(* The headers are in the pool and of their types, they and their blocks   *)
(* cover it without a gap, and each is linked to the next and back: what   *)
(* verify_chain would check, for every pool, however often it is used.     *)
THEOREM ChainAlwaysSound == Spec => []ChainSound
<1>1. PoolInv => ChainSound
  <2> SUFFICES ASSUME PoolInv PROVE ChainSound
    OBVIOUS
  <2>1. TypeOK
    BY PoolTyped
  <2>2. Chained(mem, DOMAIN mem)
    BY PoolFacts
  <2>3. \A a \in DOMAIN mem : End(a) = Ends(mem, a)
    BY DEF End, Ends
  <2> QED BY <2>1, <2>2, <2>3 DEF ChainSound, Chained
<1> QED BY <1>1, PoolAlwaysSound, PTL

(* Every block is held by somebody, in full and once, or in the free list, *)
(* once and linked back: buffer_alloc_malloc and buffer_alloc_free lose    *)
(* none and give none out twice, whatever is merged and split.             *)
THEOREM AllAccounted == Spec => []PoolAccounted
<1>1. PoolInv => PoolAccounted
  <2> SUFFICES ASSUME PoolInv PROVE PoolAccounted
    OBVIOUS
  <2>1. Listed(Here, DOMAIN mem, FreeList) /\ Here.mem = mem
    BY PoolFacts
  <2> DEFINE list == FreeList
  <2>2. /\ Distinct(list)
        /\ InList(list) = {a \in DOMAIN mem : mem[a].alloc = 0}
        /\ \A k \in 1 .. Len(list) :
             mem[list[k]].prev_free = IF k = 1 THEN NULL ELSE list[k - 1]
    BY <2>1 DEF Listed, Linked
  <2> HIDE DEF list
  <2>3. /\ {part.at - HeaderSize : part \in held} = {a \in DOMAIN mem : mem[a].alloc = 1}
        /\ \A part \in held : part.len <= mem[part.at - HeaderSize].size
    BY DEF PoolInv, HeldSound
  <2> QED BY <2>2, <2>3 DEF PoolAccounted, list
<1> QED BY <1>1, PoolAlwaysSound, PTL

(* No two neighbours are ever free: buffer_alloc_free merges a block with  *)
(* both, and buffer_alloc_malloc splits only free ones.                    *)
THEOREM AlwaysMerged == Spec => []AllMerged
<1>1. PoolInv => AllMerged
  <2> SUFFICES ASSUME PoolInv PROVE AllMerged
    OBVIOUS
  <2>1. Merged(mem, DOMAIN mem, {})
    BY PoolFacts
  <2> QED BY <2>1 DEF AllMerged, Merged, IsFree
<1> QED BY <1>1, PoolAlwaysSound, PTL

\* What is given out is in the pool and apart from all that is held.
LEMMA MallocKeepsPromise ==
    ASSUME PoolInv, NEW len \in 1 .. MaxLen, Malloc(len)
    PROVE  Promise!Next
<1> DEFINE n == Aligned(len)
<1>1. len \in Nat /\ n \in Nat /\ len <= n
  <2>1. MaxLen \in Nat
    BY PoolAssumption
  <2>2. len \in Nat
    BY <2>1
  <2> QED BY <2>2, AlignedLonger
<1>2. PICK cur \in Fitting(n) : held' = held \cup {[at |-> cur + HeaderSize, len |-> len]}
  BY DEF Malloc
<1> HIDE DEF n
<1> DEFINE at == cur + HeaderSize
           new == [at |-> at, len |-> len]
<1>3. /\ cur \in DOMAIN mem /\ mem[cur].alloc = 0 /\ mem[cur].size >= n
      /\ cur \in Nat /\ mem[cur].size \in Nat
      /\ \A a, b \in DOMAIN mem : a < b => Ends(mem, a) <= b
      /\ DOMAIN mem \subseteq Nat
  BY <1>1, <1>2, FittingIsFree, PoolFacts DEF Chained
<1>4. /\ at \in Addresses /\ at + len <= Ends(mem, cur) /\ Ends(mem, cur) <= PoolSize
      /\ len <= mem[cur].size
  <2>1. len <= mem[cur].size
    BY <1>1, <1>3
  <2> QED BY <1>3, <2>1, PartInBlock
<1>5. ASSUME NEW other \in held PROVE Promise!Apart(new, other)
  <2> DEFINE b == other.at - HeaderSize
  <2>1. b \in DOMAIN mem /\ mem[b].alloc = 1 /\ other.len <= mem[b].size
        /\ other.at \in Nat /\ other.len \in Nat
    <3>1. MaxLen \in Nat
      BY PoolAssumption
    <3>2. /\ other \in [at : Addresses, len : 1 .. MaxLen]
          /\ {part.at - HeaderSize : part \in held} = {x \in DOMAIN mem : mem[x].alloc = 1}
          /\ other.len <= mem[b].size
      BY DEF PoolInv, HeldSound
    <3>3. other.at \in Addresses /\ other.len \in 1 .. MaxLen
      BY <3>2
    <3>4. other.at \in Nat /\ other.len \in Nat
      <4>1. 1 .. MaxLen \subseteq Nat
        BY <3>1
      <4> QED BY <3>3, <4>1, PoolNumbers
    <3>5. b \in DOMAIN mem /\ mem[b].alloc = 1
      BY <3>2
    <3> QED BY <3>2, <3>4, <3>5
  <2>2. b \in Nat /\ other.at = b + HeaderSize /\ mem[b].size \in Nat
    BY <1>3, <2>1, PoolNumbers, PoolFacts DEF Headers
  <2>3. other.at + other.len <= Ends(mem, b) /\ Ends(mem, b) \in Nat /\ Ends(mem, cur) \in Nat
    BY <1>3, <2>1, <2>2, PoolNumbers DEF Ends
  <2> HIDE DEF b
  <2>4. new.at = at /\ new.len = len
    OBVIOUS
  <2>5. CASE cur < b
    <3>1. Ends(mem, cur) <= b
      BY <1>3, <2>1, <2>5
    <3>2. at + len <= other.at
      BY <1>1, <1>3, <1>4, <2>1, <2>2, <2>3, <3>1, PoolNumbers
    <3> QED BY <2>4, <3>2 DEF Promise!Apart
  <2>6. CASE b < cur
    <3>1. Ends(mem, b) <= cur
      BY <1>3, <2>1, <2>6
    <3>2. other.at + other.len <= at
      BY <1>3, <2>1, <2>2, <2>3, <3>1, PoolNumbers
    <3> QED BY <2>4, <3>2 DEF Promise!Apart
  <2>7. b # cur
    BY <1>3, <2>1
  <2> QED BY <1>3, <2>2, <2>5, <2>6, <2>7
<1>6. at + len <= PoolSize
  <2>1. at \in Nat /\ Ends(mem, cur) \in Nat
    BY <1>3, <1>4, PoolNumbers DEF Ends
  <2> QED BY <1>1, <1>4, <2>1, PoolNumbers
<1>7. at \in 0 .. PoolSize - 1
  BY <1>4 DEF Addresses
<1>8. new.at + new.len <= PoolSize /\ held' = held \cup {new}
  BY <1>2, <1>6
<1> HIDE DEF at
<1>9. Promise!Malloc([at |-> at, len |-> len])
  BY <1>5, <1>8 DEF Promise!Malloc
<1> QED BY <1>7, <1>9 DEF Promise!Next

(* Nobody is given memory that another holds or that is not in the pool:   *)
(* the allocator implements Heap.                                          *)
THEOREM PoolIsHeap == Spec => IsHeap
<1>1. Init => Promise!Init
  BY DEF Init, Promise!Init
<1>2. PoolInv /\ [Next]_vars => [Promise!Next]_held
  <2> SUFFICES ASSUME PoolInv, [Next]_vars PROVE Promise!Next \/ UNCHANGED held
    OBVIOUS
  <2>1. ASSUME NEW len \in 1 .. MaxLen, Malloc(len) PROVE Promise!Next
    BY <2>1, MallocKeepsPromise
  <2>2. ASSUME NEW part \in held, Free(part) PROVE Promise!Next
    BY <2>2 DEF Free, Promise!Next, Promise!Free
  <2>3. CASE UNCHANGED vars
    BY <2>3 DEF vars
  <2> QED BY <2>1, <2>2, <2>3 DEF Next
<1> QED BY <1>1, <1>2, PoolAlwaysSound, PTL DEF Spec, IsHeap, Promise!Spec
=============================================================================
