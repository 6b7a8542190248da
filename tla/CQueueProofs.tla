---------------------------- MODULE CQueueProofs ----------------------------
(***************************************************************************)
(* For every size of the buffer, all items and all lengths: CQueue is a    *)
(* first-in first-out queue, which also takes a block in front.            *)
(***************************************************************************)
EXTENDS CQueue, ListLemmas

\* A function on 1 .. n is a sequence of length n.
LEMMA FunctionIsSeq ==
    ASSUME NEW S, NEW n \in Nat, NEW f \in [1 .. n -> S]
    PROVE  f \in Seq(S) /\ Len(f) = n
OBVIOUS

\* The remainder of a number below twice the divisor.
LEMMA RemainderOnce ==
    ASSUME NEW s \in Nat \ {0}, NEW a \in 0 .. 2 * s - 1
    PROVE  a % s = IF a < s THEN a ELSE a - s
<1>1. CASE a < s
  BY <1>1
<1>2. CASE a >= s
  <2>1. /\ a % s \in 0 .. s - 1
        /\ a = s * (a \div s) + (a % s)
        /\ a \div s \in Int
    OBVIOUS
  <2>2. a \div s = 1
    <3>1. CASE a \div s <= 0
      BY <3>1, <2>1, <1>2
    <3>2. CASE a \div s >= 2
      BY <3>2, <2>1, <1>2
    <3> QED BY <3>1, <3>2, <2>1
  <2> QED BY <2>1, <2>2, <1>2
<1> QED BY <1>1, <1>2

\* A function on the first places is a sequence, told by its length and items.
LEMMA WaitingIsSeq ==
    ASSUME TypeOK
    PROVE  /\ waiting \in Seq(Items) /\ Len(waiting) = len
           /\ \A k \in 1 .. len : waiting[k] = base[At(k - 1)]
           /\ \A k \in 0 .. Size - 1 : At(k) \in Index
<1>1. \A k \in 0 .. Size - 1 : At(k) \in Index
  BY SizeAssumption DEF TypeOK, At, Index
<1>2. waiting \in [1 .. len -> Items]
  BY <1>1, SizeAssumption DEF TypeOK, waiting
<1>3. len \in Nat
  BY SizeAssumption DEF TypeOK
<1> QED BY <1>1, <1>2, <1>3, FunctionIsSeq DEF waiting

\* Copying n items of the buffer gives a sequence of that length.
LEMMA CopyIsSeq ==
    ASSUME TypeOK, NEW at \in Index, NEW n \in Nat, at + n <= Size
    PROVE  /\ Copy(at, n) \in Seq(Items) /\ Len(Copy(at, n)) = n
           /\ \A k \in 1 .. n : Copy(at, n)[k] = base[at + k - 1]
<1>1. Copy(at, n) \in [1 .. n -> Items]
  BY SizeAssumption DEF TypeOK, Copy, Index
<1> QED BY <1>1, FunctionIsSeq DEF Copy

\* What the two branches of DeCQueue and the two pieces of PeekCQueue hold are
\* the n oldest items.
LEMMA OldestItems ==
    ASSUME TypeOK, NEW n \in 0 .. len,
           NEW p \in Nat, p <= n, read + p <= Size,
           p = n \/ read + p = Size,
           NEW q, q = Copy(0, n - p) \/ (p = n /\ q = << >>)
    PROVE  /\ Copy(read, p) \o q \in Seq(Items)
           /\ Copy(read, p) \o q = SubSeq(waiting, 1, n)
<1> DEFINE c == Copy(read, p)
           w == waiting
           s == SubSeq(w, 1, n)
<1>0. /\ Size \in Nat /\ Size > 0 /\ len \in Nat /\ len <= Size
      /\ n \in Nat /\ n <= len
      /\ read \in Index /\ read \in Nat /\ read < Size
  BY SizeAssumption DEF TypeOK, Index
<1>1. /\ c \in Seq(Items) /\ Len(c) = p
      /\ \A k \in 1 .. p : c[k] = base[read + k - 1]
  BY <1>0, CopyIsSeq
<1>2. /\ q \in Seq(Items) /\ Len(q) = n - p
      /\ \A k \in 1 .. n - p : q[k] = base[k - 1]
  <2>1. CASE q = Copy(0, n - p)
    <3>1. n - p \in Nat /\ 0 + (n - p) <= Size /\ 0 \in Index
      BY <1>0 DEF Index
    <3>2. /\ Copy(0, n - p) \in Seq(Items) /\ Len(Copy(0, n - p)) = n - p
          /\ \A k \in 1 .. n - p : Copy(0, n - p)[k] = base[0 + k - 1]
      BY <3>1, CopyIsSeq
    <3> QED BY <2>1, <3>1, <3>2
  <2>2. CASE p = n /\ q = << >>
    <3>1. << >> \in Seq(Items) /\ Len(<< >>) = 0
      BY EmptySeq
    <3> QED BY <1>0, <2>2, <3>1
  <2> QED BY <2>1, <2>2
<1>3. /\ w \in Seq(Items) /\ Len(w) = len
      /\ \A k \in 1 .. len : w[k] = base[At(k - 1)]
  BY WaitingIsSeq
<1>4. /\ s \in Seq(Items) /\ Len(s) = n
      /\ \A k \in 1 .. n : s[k] = base[At(k - 1)]
  <2> HIDE DEF w
  <2>1. n \in Nat /\ n <= len /\ len \in Nat
    BY SizeAssumption DEF TypeOK
  <2>2. \A k \in 1 .. n : w[k] \in Items
    BY <1>3, <2>1, ElementOfSeq
  <2>3. /\ SubSeq(w, 1, n) \in Seq(Items)
        /\ Len(SubSeq(w, 1, n)) = IF 1 <= n THEN n - 1 + 1 ELSE 0
        /\ \A k \in 1 .. n - 1 + 1 : SubSeq(w, 1, n)[k] = w[1 + k - 1]
    BY <2>1, <2>2, SubSeqProperties
  <2> QED BY <2>1, <2>3, <1>3
<1> HIDE DEF c, w, s
<1> DEFINE d == c \o q
<1>5. /\ d \in Seq(Items) /\ Len(d) = n
      /\ \A k \in 1 .. n : d[k] = IF k <= p THEN c[k] ELSE q[k - p]
  <2>1. /\ c \o q \in Seq(Items) /\ Len(c \o q) = Len(c) + Len(q)
        /\ \A k \in 1 .. Len(c) + Len(q) :
              (c \o q)[k] = IF k <= Len(c) THEN c[k] ELSE q[k - Len(c)]
    BY <1>1, <1>2, ConcatProperties
  <2>2. Len(c) = p /\ Len(c) + Len(q) = n
    BY <1>0, <1>1, <1>2
  <2> QED BY <2>1, <2>2
<1> HIDE DEF d
<1>6. ASSUME NEW k \in 1 .. n PROVE d[k] = s[k]
  <2>0. k \in Int /\ k >= 1 /\ k <= n
    BY <1>0
  <2>1. CASE k <= p
    <3>1. At(k - 1) = read + k - 1
      BY <1>0, <2>0, <2>1 DEF At
    <3>2. d[k] = c[k] /\ c[k] = base[read + k - 1]
      BY <1>1, <1>5, <2>0, <2>1
    <3> QED BY <3>1, <3>2, <1>4
  <2>2. CASE k > p
    <3>1. read + p = Size /\ k - p \in 1 .. n - p
      BY <1>0, <2>0, <2>2
    <3>2. At(k - 1) = k - p - 1
      BY <1>0, <2>0, <2>2, <3>1 DEF At
    <3>3. d[k] = q[k - p]
      BY <2>0, <2>2, <1>5
    <3>4. q[k - p] = base[(k - p) - 1]
      BY <3>1, <1>2
    <3> QED BY <3>2, <3>3, <3>4, <1>4
  <2> QED BY <2>0, <2>1, <2>2
<1>7. d = s
  BY <1>4, <1>5, <1>6, SeqEqual
<1> QED BY <1>5, <1>7 DEF d, c, s, w

\* Moving read n items on leaves the rest of what waits.
LEMMA RestWaits ==
    ASSUME TypeOK, NEW n \in 0 .. len, TypeOK',
           read' = At(n), len' = len - n, base' = base
    PROVE  waiting' = SubSeq(waiting, n + 1, len)
<1> DEFINE w == waiting
           v == waiting'
           s == SubSeq(w, n + 1, len)
<1>0. /\ Size \in Nat /\ Size > 0 /\ len \in Nat /\ len <= Size
      /\ n \in Nat /\ n <= len
      /\ read \in Nat /\ read < Size
  BY SizeAssumption DEF TypeOK, Index
<1>1. /\ w \in Seq(Items) /\ Len(w) = len
      /\ \A k \in 1 .. len : w[k] = base[At(k - 1)]
  BY WaitingIsSeq
<1>2. /\ v \in Seq(Items) /\ Len(v) = len - n
      /\ \A k \in 1 .. len - n : v[k] = base[At(k - 1)']
  <2>1. (/\ waiting \in Seq(Items) /\ Len(waiting) = len
         /\ \A k \in 1 .. len : waiting[k] = base[At(k - 1)])'
    BY WaitingIsSeq, PTL
  <2> QED BY <2>1
<1> HIDE DEF w, v
<1>3. /\ s \in Seq(Items) /\ Len(s) = len - n
      /\ \A k \in 1 .. len - n : s[k] = w[n + k]
  <2>1. \A k \in n + 1 .. len : w[k] \in Items
    BY <1>0, <1>1, ElementOfSeq
  <2>2. /\ SubSeq(w, n + 1, len) \in Seq(Items)
        /\ Len(SubSeq(w, n + 1, len)) =
              IF n + 1 <= len THEN len - (n + 1) + 1 ELSE 0
        /\ \A k \in 1 .. len - (n + 1) + 1 :
              SubSeq(w, n + 1, len)[k] = w[(n + 1) + k - 1]
    BY <1>0, <2>1, SubSeqProperties
  <2> QED BY <1>0, <2>2
<1> HIDE DEF s
<1>4. ASSUME NEW k \in 1 .. len - n PROVE v[k] = s[k]
  <2>1. k \in Nat /\ k >= 1 /\ n + k \in 1 .. len
    BY <1>0
  <2>2. At(k - 1)' = At((n + k) - 1)
    BY <1>0, <2>1 DEF At
  <2> QED BY <2>1, <2>2, <1>1, <1>2, <1>3
<1>5. v = s
  BY <1>2, <1>3, <1>4, SeqEqual
<1> QED BY <1>5 DEF v, s, w

\* Copying a block changes the places it is copied to and no other.
LEMMA CopiedBlock ==
    ASSUME NEW b \in [Index -> Items], NEW at \in Nat, NEW e \in Seq(Items)
    PROVE  /\ memcpy(b, at, e) \in [Index -> Items]
           /\ \A i \in Index : i \in at .. at + Len(e) - 1
                               => memcpy(b, at, e)[i] = e[i - at + 1]
           /\ \A i \in Index : i \notin at .. at + Len(e) - 1
                               => memcpy(b, at, e)[i] = b[i]
<1>1. Len(e) \in Nat
  BY LenProperties
<1>2. ASSUME NEW i \in Index, i \in at .. at + Len(e) - 1
      PROVE  e[i - at + 1] \in Items
  <2>1. i - at + 1 \in 1 .. Len(e)
    BY <1>1, <1>2, SizeAssumption DEF Index
  <2> QED BY <2>1, ElementOfSeq
<1> QED BY <1>2 DEF memcpy

\* EnCQueue puts the block at the places behind the last item that waits, in
\* either branch, and leaves the items that wait where they are.
LEMMA BlockPlaced ==
    ASSUME TypeOK, WriteBehindRead, NEW e \in Seq(Items), EnCQueue(e)
    PROVE  /\ TypeOK' /\ WriteBehindRead'
           /\ \A k \in 0 .. len - 1 : base'[At(k)] = base[At(k)]
           /\ \A k \in 1 .. Len(e) : base'[At(len + k - 1)] = e[k]
<1> DEFINE L == Len(e)
           r == Size - write
<1>0. /\ Size \in Nat /\ Size > 0 /\ len \in Nat /\ len + L <= Size
      /\ read \in Nat /\ read < Size /\ write \in Nat /\ write < Size
      /\ L \in Nat /\ base \in [Index -> Items]
      /\ r \in Nat /\ r > 0
  BY SizeAssumption, LenProperties DEF TypeOK, Index, EnCQueue, AvailableOfCQueue
<1>1. write = At(len)
  BY DEF WriteBehindRead
<1>2. read' = read /\ block' = e /\ len' = len + L
  BY DEF EnCQueue
<1>3. CASE r > L
  <2>1. base' = memcpy(base, write, e) /\ write' = write + L
    BY <1>3 DEF EnCQueue
  <2>2. /\ base' \in [Index -> Items]
        /\ \A i \in Index : i \in write .. write + L - 1 => base'[i] = e[i - write + 1]
        /\ \A i \in Index : i \notin write .. write + L - 1 => base'[i] = base[i]
    BY <2>1, <1>0, CopiedBlock
  <2>3. TypeOK'
    BY <1>0, <1>2, <1>3, <2>1, <2>2 DEF TypeOK, Index
  <2>4. WriteBehindRead'
    BY <1>0, <1>1, <1>2, <1>3, <2>1 DEF WriteBehindRead, At
  <2>5. ASSUME NEW k \in 0 .. len - 1 PROVE base'[At(k)] = base[At(k)]
    <3>1. At(k) \in Index /\ At(k) \notin write .. write + L - 1
      BY <1>0, <1>1, <1>3 DEF At, Index
    <3> QED BY <2>2, <3>1
  <2>6. ASSUME NEW k \in 1 .. L PROVE base'[At(len + k - 1)] = e[k]
    <3>1. /\ At(len + k - 1) \in Index
          /\ At(len + k - 1) \in write .. write + L - 1
          /\ At(len + k - 1) - write + 1 = k
      BY <1>0, <1>1, <1>3 DEF At, Index
    <3> QED BY <2>2, <3>1
  <2> QED BY <2>3, <2>4, <2>5, <2>6
<1>4. CASE r <= L
  <2> DEFINE e1 == SubSeq(e, 1, r)
             e2 == SubSeq(e, r + 1, L)
             m  == memcpy(base, write, e1)
  <2>1. base' = memcpy(m, 0, e2) /\ write' = L - r
    BY <1>0, <1>4 DEF EnCQueue
  <2>2. /\ e1 \in Seq(Items) /\ Len(e1) = r
        /\ \A i \in 1 .. r : e1[i] = e[i]
    <3>1. \A i \in 1 .. r : e[i] \in Items
      BY <1>0, <1>4, ElementOfSeq
    <3>2. /\ SubSeq(e, 1, r) \in Seq(Items)
          /\ Len(SubSeq(e, 1, r)) = IF 1 <= r THEN r - 1 + 1 ELSE 0
          /\ \A i \in 1 .. r - 1 + 1 : SubSeq(e, 1, r)[i] = e[1 + i - 1]
      BY <1>0, <3>1, SubSeqProperties
    <3> QED BY <1>0, <3>2
  <2>3. /\ e2 \in Seq(Items) /\ Len(e2) = L - r
        /\ \A i \in 1 .. L - r : e2[i] = e[r + i]
    <3>1. \A i \in r + 1 .. L : e[i] \in Items
      BY <1>0, <1>4, ElementOfSeq
    <3>2. /\ SubSeq(e, r + 1, L) \in Seq(Items)
          /\ Len(SubSeq(e, r + 1, L)) =
                IF r + 1 <= L THEN L - (r + 1) + 1 ELSE 0
          /\ \A i \in 1 .. L - (r + 1) + 1 :
                SubSeq(e, r + 1, L)[i] = e[(r + 1) + i - 1]
      BY <1>0, <3>1, SubSeqProperties
    <3> QED BY <1>0, <1>4, <3>2
  <2> HIDE DEF e1, e2
  <2>4. /\ m \in [Index -> Items]
        /\ \A i \in Index : i \in write .. write + r - 1 => m[i] = e1[i - write + 1]
        /\ \A i \in Index : i \notin write .. write + r - 1 => m[i] = base[i]
    <3>1. /\ memcpy(base, write, e1) \in [Index -> Items]
          /\ \A i \in Index : i \in write .. write + Len(e1) - 1
                              => memcpy(base, write, e1)[i] = e1[i - write + 1]
          /\ \A i \in Index : i \notin write .. write + Len(e1) - 1
                              => memcpy(base, write, e1)[i] = base[i]
      BY <1>0, <2>2, CopiedBlock
    <3> QED BY <3>1, <2>2
  <2> HIDE DEF m
  <2>5. /\ base' \in [Index -> Items]
        /\ \A i \in Index : i \in 0 .. 0 + (L - r) - 1 => base'[i] = e2[i - 0 + 1]
        /\ \A i \in Index : i \notin 0 .. 0 + (L - r) - 1 => base'[i] = m[i]
    BY <1>0, <2>1, <2>3, <2>4, CopiedBlock
  <2>6. TypeOK'
    BY <1>0, <1>2, <1>4, <2>1, <2>5, SMTT(30) DEF TypeOK, Index
  <2>7. WriteBehindRead'
    BY <1>0, <1>1, <1>2, <1>4, <2>1 DEF WriteBehindRead, At
  <2>8. ASSUME NEW k \in 0 .. len - 1 PROVE base'[At(k)] = base[At(k)]
    <3>1. /\ At(k) \in Index
          /\ At(k) \notin 0 .. 0 + (L - r) - 1
          /\ At(k) \notin write .. write + r - 1
      BY <1>0, <1>1, <1>4 DEF At, Index
    <3> QED BY <2>4, <2>5, <3>1
  <2>9. ASSUME NEW k \in 1 .. L PROVE base'[At(len + k - 1)] = e[k]
    <3> DEFINE i == At(len + k - 1)
    <3>1. CASE k <= r
      <4>1. /\ i \in Index /\ i \notin 0 .. 0 + (L - r) - 1
            /\ i \in write .. write + r - 1 /\ i - write + 1 = k
        BY <1>0, <1>1, <1>4, <3>1 DEF At, Index
      <4> HIDE DEF i
      <4>2. base'[i] = e1[k]
        BY <4>1, <2>4, <2>5
      <4> QED BY <1>0, <4>2, <3>1, <2>2 DEF i
    <3>2. CASE k > r
      <4>1. /\ i \in Index /\ i \in 0 .. 0 + (L - r) - 1 /\ i - 0 + 1 = k - r
            /\ k - r \in 1 .. L - r /\ r + (k - r) = k
        BY <1>0, <1>1, <1>4, <3>2 DEF At, Index
      <4> HIDE DEF i
      <4>2. base'[i] = e2[k - r]
        BY <4>1, <2>5
      <4>3. e2[k - r] = e[r + (k - r)]
        BY <4>1, <2>3
      <4> QED BY <4>1, <4>2, <4>3 DEF i
    <3> QED BY <1>0, <3>1, <3>2
  <2> QED BY <2>6, <2>7, <2>8, <2>9
<1> QED BY <1>0, <1>3, <1>4

\* EnCQueue puts the block behind everything that waits.
LEMMA BlockWaits ==
    ASSUME TypeOK, WriteBehindRead, NEW e \in Seq(Items), EnCQueue(e)
    PROVE  TypeOK' /\ WriteBehindRead' /\ waiting' = waiting \o e
<1> DEFINE w == waiting
           v == waiting'
           d == w \o e
<1>0. /\ Size \in Nat /\ len \in Nat /\ len <= Size
      /\ Len(e) \in Nat /\ len' = len + Len(e) /\ read' = read
  BY SizeAssumption, LenProperties DEF TypeOK, EnCQueue
<1>1. /\ TypeOK' /\ WriteBehindRead'
      /\ \A k \in 0 .. len - 1 : base'[At(k)] = base[At(k)]
      /\ \A k \in 1 .. Len(e) : base'[At(len + k - 1)] = e[k]
  BY BlockPlaced
<1>2. /\ w \in Seq(Items) /\ Len(w) = len
      /\ \A k \in 1 .. len : w[k] = base[At(k - 1)]
  BY WaitingIsSeq
<1>3. /\ v \in Seq(Items) /\ Len(v) = len + Len(e)
      /\ \A k \in 1 .. len + Len(e) : v[k] = base'[At(k - 1)]
  <2>1. (/\ waiting \in Seq(Items) /\ Len(waiting) = len
         /\ \A k \in 1 .. len : waiting[k] = base[At(k - 1)])'
    BY <1>1, WaitingIsSeq, PTL
  <2>2. \A k : At(k)' = At(k)
    BY <1>0 DEF At
  <2> QED BY <1>0, <2>1, <2>2
<1> HIDE DEF w, v
<1>4. /\ d \in Seq(Items) /\ Len(d) = len + Len(e)
      /\ \A k \in 1 .. len + Len(e) : d[k] = IF k <= len THEN w[k] ELSE e[k - len]
  <2>1. /\ w \o e \in Seq(Items) /\ Len(w \o e) = Len(w) + Len(e)
        /\ \A k \in 1 .. Len(w) + Len(e) :
              (w \o e)[k] = IF k <= Len(w) THEN w[k] ELSE e[k - Len(w)]
    BY <1>2, ConcatProperties
  <2> QED BY <1>2, <2>1
<1> HIDE DEF d
<1>5. ASSUME NEW k \in 1 .. len + Len(e) PROVE v[k] = d[k]
  <2>0. k \in Nat /\ k >= 1 /\ k <= len + Len(e)
    BY <1>0
  <2>1. CASE k <= len
    <3>1. k - 1 \in 0 .. len - 1 /\ k \in 1 .. len
      BY <1>0, <2>0, <2>1
    <3> QED BY <3>1, <2>1, <1>1, <1>2, <1>3, <1>4
  <2>2. CASE k > len
    <3>1. k - len \in 1 .. Len(e) /\ len + (k - len) - 1 = k - 1 /\ ~(k <= len)
      BY <1>0, <2>0, <2>2
    <3>2. base'[At(k - 1)] = e[k - len]
      BY <3>1, <1>1
    <3> QED BY <3>1, <3>2, <1>3, <1>4
  <2> QED BY <1>0, <2>0, <2>1, <2>2
<1>6. v = d
  BY <1>3, <1>4, <1>5, SeqEqual
<1> QED BY <1>1, <1>6 DEF v, d, w

\* The place k places in front of read, for up to a whole round.
Back(k) == IF k <= read THEN read - k ELSE read - k + Size

\* The buffer after k rounds of the loop of EnCQueueFront: the last k items of
\* the block are the last k places in front of read.
Walked(b, k, e) ==
    /\ b \in [Index -> Items]
    /\ \A j \in 1 .. k : b[Back(j)] = e[Len(e) - j + 1]
    /\ \A i \in Index : (\A j \in 1 .. k : i # Back(j)) => b[i] = base[i]

\* The places in front of read are all different, for up to a whole round.
LEMMA BackPlaces ==
    ASSUME TypeOK
    PROVE  /\ \A k \in 0 .. Size : Back(k) \in Index
           /\ \A j, k \in 1 .. Size : Back(j) = Back(k) => j = k
           /\ \A k \in 0 .. Size - 1 : Before(Back(k)) = Back(k + 1)
           /\ \A k \in 0 .. Size : After(Before(Back(k))) = Back(k)
<1> USE SizeAssumption DEF TypeOK, Index, Back, Before, After
<1>1. \A k \in 0 .. Size : Back(k) \in Index
  OBVIOUS
<1>2. \A j, k \in 1 .. Size : Back(j) = Back(k) => j = k
  OBVIOUS
<1>3. \A k \in 0 .. Size - 1 : Before(Back(k)) = Back(k + 1)
  OBVIOUS
<1>4. \A k \in 0 .. Size : After(Before(Back(k))) = Back(k)
  OBVIOUS
<1> QED BY <1>1, <1>2, <1>3, <1>4

\* One round of the loop: a place is written, and the index goes one back.
LEMMA OneBack ==
    ASSUME TypeOK, NEW e \in Seq(Items), NEW k \in 1 .. Len(e), Len(e) <= Size,
           NEW b, Walked(b, k - 1, e)
    PROVE  Walked([b EXCEPT ![Back(k)] = e[Len(e) - k + 1]], k, e)
<1> DEFINE L == Len(e)
           c == [b EXCEPT ![Back(k)] = e[Len(e) - k + 1]]
<1>0. L \in Nat /\ Size \in Nat /\ L <= Size /\ k \in Nat /\ 1 <= k /\ k <= L
  BY SizeAssumption, LenProperties
<1>1. Back(k) \in Index /\ k \in 1 .. Size
  BY <1>0, BackPlaces
<1>2. e[L - k + 1] \in Items
  <2>1. L - k + 1 \in 1 .. L
    BY <1>0
  <2> QED BY <2>1, ElementOfSeq
<1>3. /\ b \in [Index -> Items]
      /\ \A j \in 1 .. k - 1 : b[Back(j)] = e[L - j + 1]
      /\ \A i \in Index : (\A j \in 1 .. k - 1 : i # Back(j)) => b[i] = base[i]
  BY DEF Walked
<1>4. /\ c \in [Index -> Items] /\ c[Back(k)] = e[L - k + 1]
      /\ \A i \in Index : i # Back(k) => c[i] = b[i]
  BY <1>1, <1>2, <1>3
<1> HIDE DEF c
<1>5. ASSUME NEW j \in 1 .. k PROVE c[Back(j)] = e[L - j + 1]
  <2>1. CASE j = k
    BY <1>4, <2>1
  <2>2. CASE j # k
    <3>1. j \in 1 .. k - 1 /\ j \in 1 .. Size
      BY <1>0, <2>2
    <3>2. Back(j) \in Index /\ Back(j) # Back(k)
      BY <1>0, <1>1, <2>2, <3>1, BackPlaces
    <3> QED BY <1>3, <1>4, <3>1, <3>2
  <2> QED BY <2>1, <2>2
<1>6. ASSUME NEW i \in Index, \A j \in 1 .. k : i # Back(j) PROVE c[i] = base[i]
  <2>1. k \in 1 .. k /\ \A j \in 1 .. k - 1 : j \in 1 .. k
    BY <1>0
  <2> QED BY <1>3, <1>4, <1>6, <2>1
<1>7. Walked(c, k, e)
  BY <1>4, <1>5, <1>6 DEF Walked
<1> QED BY <1>7 DEF c

\* A round of the loop for every item, the last one first.
Loops(f, e, n) ==
    /\ f[0] = [base |-> base, at |-> Before(read)]
    /\ \A i \in 1 .. n : f[i] = PutBefore(f[i - 1], e[Len(e) - i + 1])

LEMMA WalkParts ==
    ASSUME NEW e \in Seq(Items)
    PROVE  Loops(Walk(e), e, Len(e))
<1> DEFINE L == Len(e)
           first == [base |-> base, at |-> Before(read)]
           T == {m \in Nat : m <= L => \E g : DOMAIN g = 0 .. m /\ Loops(g, e, m)}
<1>1. L \in Nat
  BY LenProperties
<1> HIDE DEF L
<1>2. 0 \in T
  <2> DEFINE g == [i \in 0 .. 0 |-> first]
  <2>1. DOMAIN g = 0 .. 0 /\ g[0] = first
    OBVIOUS
  <2> HIDE DEF g
  <2>2. Loops(g, e, 0)
    BY <2>1 DEF Loops
  <2> QED BY <2>1, <2>2
<1>3. ASSUME NEW m \in Nat, m \in T PROVE m + 1 \in T
  <2> SUFFICES ASSUME m + 1 <= L PROVE \E g : DOMAIN g = 0 .. m + 1 /\ Loops(g, e, m + 1)
    OBVIOUS
  <2>1. PICK g : DOMAIN g = 0 .. m /\ Loops(g, e, m)
    BY <1>1, <1>3
  <2> DEFINE z == PutBefore(g[m], e[L - (m + 1) + 1])
             h == [i \in 0 .. m + 1 |-> IF i <= m THEN g[i] ELSE z]
  <2> HIDE DEF z
  <2>2. DOMAIN h = 0 .. m + 1 /\ h[m + 1] = z /\ \A i \in 0 .. m : h[i] = g[i]
    OBVIOUS
  <2> HIDE DEF h
  <2>3. ASSUME NEW i \in 1 .. m + 1 PROVE h[i] = PutBefore(h[i - 1], e[L - i + 1])
    <3>1. CASE i <= m
      <4>1. i \in 1 .. m /\ i \in 0 .. m /\ i - 1 \in 0 .. m
        BY <3>1
      <4>2. h[i] = g[i] /\ h[i - 1] = g[i - 1]
        BY <2>2, <4>1
      <4> QED BY <2>1, <4>1, <4>2 DEF Loops, L
    <3>2. CASE i = m + 1
      <4>1. i - 1 = m /\ m \in 0 .. m
        BY <3>2
      <4>2. h[i] = z /\ h[i - 1] = g[m]
        BY <2>2, <3>2, <4>1
      <4> QED BY <3>2, <4>2 DEF z
    <3> QED BY <3>1, <3>2
  <2>4. h[0] = first
    BY <2>1, <2>2 DEF Loops
  <2> QED BY <2>2, <2>3, <2>4 DEF Loops, L
<1> HIDE DEF T
<1>4. L \in T
  BY <1>1, <1>2, <1>3, AllNumbers
<1>5. PICK g : DOMAIN g = 0 .. L /\ Loops(g, e, L)
  BY <1>1, <1>4 DEF T
<1> DEFINE Rounds(f) == [n \in 0 .. L |-> IF n = 0 THEN first
                                         ELSE PutBefore(f[n - 1], e[L - n + 1])]
           k == Rounds(g)
           Is(f) == f = Rounds(f)
           w == CHOOSE f : Is(f)
<1>6. Is(k)
  <2>1. \A n \in 0 .. L : k[n] = g[n]
    BY <1>1, <1>5 DEF Loops, L
  <2> DEFINE l == Rounds(k)
  <2>2. \A n \in 0 .. L : n # 0 => k[n - 1] = g[n - 1]
    <3> HIDE DEF k
    <3>1. \A n \in 0 .. L : n # 0 => n - 1 \in 0 .. L
      BY <1>1
    <3> QED BY <2>1, <3>1
  <2>3. \A n \in 0 .. L : l[n] = k[n]
    BY <2>2
  <2>4. l = k
    BY <2>3
  <2> QED BY <2>4
<1>7. Is(w)
  <2> HIDE DEF Is, k
  <2> QED BY <1>6
<1>8. Walk(e) = w
  BY DEF Walk, L
<1> HIDE DEF w
<1>9. Loops(w, e, L)
  BY <1>1, <1>7 DEF Loops, L
<1> QED BY <1>8, <1>9 DEF L

\* The whole loop: every place is written that it should, and the index ends
\* one place in front of the block.
LEMMA WalkEnds ==
    ASSUME TypeOK, NEW e \in Seq(Items), Len(e) <= Size
    PROVE  /\ Walked(Walk(e)[Len(e)].base, Len(e), e)
           /\ Walk(e)[Len(e)].at = Before(Back(Len(e)))
<1> DEFINE L == Len(e)
           w == Walk(e)
           T == {k \in Nat : k <= L => Walked(w[k].base, k, e) /\ w[k].at = Before(Back(k))}
<1>0. L \in Nat /\ Size \in Nat /\ L <= Size /\ read \in Nat
  BY SizeAssumption, LenProperties DEF TypeOK, Index
<1>1. Loops(w, e, L)
  BY WalkParts
<1> HIDE DEF w, L
<1>2. 0 \in T
  <2>1. Back(0) = read
    BY <1>0 DEF Back
  <2>2. w[0].base = base /\ w[0].at = Before(read)
    BY <1>1 DEF Loops
  <2>3. Walked(base, 0, e)
    BY DEF Walked, TypeOK
  <2> QED BY <2>1, <2>2, <2>3
<1>3. ASSUME NEW m \in Nat, m \in T PROVE m + 1 \in T
  <2> SUFFICES ASSUME m + 1 <= L
               PROVE  Walked(w[m + 1].base, m + 1, e) /\ w[m + 1].at = Before(Back(m + 1))
    OBVIOUS
  <2> DEFINE k == m + 1
  <2>1. k \in 1 .. L /\ k - 1 = m /\ k - 1 \in 0 .. Size - 1
    BY <1>0
  <2>2. Walked(w[m].base, m, e) /\ w[m].at = Back(k)
    BY <1>0, <1>3, <2>1, BackPlaces
  <2>3. w[k] = PutBefore(w[m], e[L - k + 1])
    BY <1>1, <2>1 DEF Loops, L
  <2> HIDE DEF k
  <2>4. w[k].base = [w[m].base EXCEPT ![Back(k)] = e[L - k + 1]] /\ w[k].at = Before(Back(k))
    BY <2>2, <2>3 DEF PutBefore
  <2>5. Walked([w[m].base EXCEPT ![Back(k)] = e[L - k + 1]], k, e)
    BY <1>0, <2>1, <2>2, OneBack DEF L
  <2> QED BY <2>4, <2>5 DEF k
<1> HIDE DEF T
<1>4. L \in T
  BY <1>0, <1>2, <1>3, AllNumbers
<1> QED BY <1>4 DEF T, w, L

\* EnCQueueFront puts the block in front of everything that waits.
LEMMA BlockInFront ==
    ASSUME TypeOK, WriteBehindRead, NEW e \in Seq(Items), EnCQueueFront(e)
    PROVE  /\ TypeOK' /\ WriteBehindRead'
           /\ waiting' = e \o waiting
<1> DEFINE L == Len(e)
           v == waiting'
           u == waiting
           d == e \o u
<1>0. /\ Size \in Nat /\ Size > 0 /\ len \in Nat /\ L \in Nat /\ len + L <= Size
      /\ read \in Nat /\ read < Size /\ L <= Size
  BY SizeAssumption, LenProperties DEF TypeOK, Index, EnCQueueFront, AvailableOfCQueue
<1>1. Walked(base', L, e) /\ read' = Back(L) /\ read' \in Index
  <2>1. Walked(Walk(e)[L].base, L, e) /\ Walk(e)[L].at = Before(Back(L))
    BY <1>0, WalkEnds
  <2>2. base' = Walk(e)[L].base /\ read' = After(Walk(e)[L].at)
    BY DEF EnCQueueFront
  <2> QED BY <1>0, <2>1, <2>2, BackPlaces
<1>2. len' = len + L /\ block' = e /\ write' = write
  BY DEF EnCQueueFront
<1>3. TypeOK'
  BY <1>0, <1>1, <1>2 DEF TypeOK, Walked
<1>4. WriteBehindRead'
  <2> HIDE DEF L
  <2>1. write = IF read + len < Size THEN read + len ELSE read + len - Size
    BY DEF WriteBehindRead, At
  <2>2. read' = IF L <= read THEN read - L ELSE read - L + Size
    BY <1>1 DEF Back
  <2>3. write' = IF read' + len' < Size THEN read' + len' ELSE read' + len' - Size
    BY <1>0, <1>2, <2>1, <2>2
  <2> QED BY <2>3 DEF WriteBehindRead, At
<1>5. /\ u \in Seq(Items) /\ Len(u) = len
      /\ \A k \in 1 .. len : u[k] = base[At(k - 1)]
  BY WaitingIsSeq
<1>6. /\ v \in Seq(Items) /\ Len(v) = len + L
      /\ \A k \in 1 .. len + L : v[k] = base'[At(k - 1)']
  <2>1. (/\ waiting \in Seq(Items) /\ Len(waiting) = len
         /\ \A k \in 1 .. len : waiting[k] = base[At(k - 1)])'
    BY <1>3, WaitingIsSeq, PTL
  <2> QED BY <1>2, <2>1
<1> HIDE DEF u, v
<1>7. /\ d \in Seq(Items) /\ Len(d) = len + L
      /\ \A k \in 1 .. len + L : d[k] = IF k <= L THEN e[k] ELSE u[k - L]
  <2>1. /\ e \o u \in Seq(Items) /\ Len(e \o u) = L + Len(u)
        /\ \A k \in 1 .. L + Len(u) : (e \o u)[k] = IF k <= L THEN e[k] ELSE u[k - L]
    BY <1>5, ConcatProperties
  <2> QED BY <1>0, <1>5, <2>1
<1> HIDE DEF d
<1>8. ASSUME NEW k \in 1 .. len + L PROVE v[k] = d[k]
  <2>0. k \in Nat /\ 1 <= k /\ k <= len + L
    BY <1>0
  <2>1. CASE k <= L
    <3> DEFINE j == L - k + 1
    <3>1. j \in 1 .. L /\ L - j + 1 = k
      BY <1>0, <2>0, <2>1
    <3>2. At(k - 1)' = Back(j)
      BY <1>0, <1>1, <2>0, <2>1 DEF At, Back
    <3> HIDE DEF j
    <3>3. base'[Back(j)] = e[k]
      BY <1>1, <3>1 DEF Walked
    <3> QED BY <1>6, <1>7, <2>1, <3>2, <3>3
  <2>2. CASE k > L
    <3> DEFINE i == At(k - L - 1)
    <3>1. k - L \in 1 .. len
      BY <1>0, <2>0, <2>2
    <3>2. At(k - 1)' = i
      BY <1>0, <1>1, <2>0, <2>2 DEF At, Back
    <3>3. i \in Index /\ \A j \in 1 .. L : i # Back(j)
      BY <1>0, <2>0, <2>2 DEF At, Back, Index
    <3> HIDE DEF i
    <3>4. base'[i] = base[i]
      BY <1>1, <3>3 DEF Walked
    <3>5. u[k - L] = base[i]
      BY <1>5, <3>1 DEF i
    <3> QED BY <1>0, <1>6, <1>7, <2>0, <2>2, <3>2, <3>4, <3>5
  <2> QED BY <1>0, <2>0, <2>1, <2>2
<1>9. v = d
  BY <1>6, <1>7, <1>8, SeqEqual
<1> QED BY <1>3, <1>4, <1>9 DEF v, d, u

\* The two ways to read and drop n items.
LEMMA ReadMoved ==
    ASSUME TypeOK, NEW n \in 0 .. len
    PROVE  /\ At(n) \in Index
           /\ At(n) = IF Size - read > n THEN read + n ELSE n - (Size - read)
           /\ (read + n) % Size = At(n)
           /\ \A a \in 0 .. n :
                 ((((read + a) % Size) + (n - a)) % Size) = At(n)
<1>0. /\ Size \in Nat /\ Size > 0 /\ len \in Nat /\ len <= Size
      /\ read \in Nat /\ read < Size /\ n \in Nat /\ n <= len
  BY SizeAssumption DEF TypeOK, Index
<1>1. At(n) \in Index /\ At(n) = IF Size - read > n THEN read + n ELSE n - (Size - read)
  BY <1>0 DEF At, Index
<1>2. ASSUME NEW a \in 0 .. n
      PROVE  /\ (read + a) % Size = IF read + a < Size THEN read + a ELSE read + a - Size
             /\ ((((read + a) % Size) + (n - a)) % Size) = At(n)
  <2> DEFINE x == (read + a) % Size
             y == x + (n - a)
  <2>1. read + a \in 0 .. 2 * Size - 1 /\ a \in Nat /\ a <= n
    BY <1>0
  <2>2. x = IF read + a < Size THEN read + a ELSE read + a - Size
    BY <1>0, <2>1, RemainderOnce
  <2> HIDE DEF x
  <2>3. y \in 0 .. 2 * Size - 1
    BY <1>0, <2>1, <2>2
  <2>4. y % Size = IF y < Size THEN y ELSE y - Size
    BY <1>0, <2>3, RemainderOnce
  <2>5. y % Size = At(n)
    BY <1>0, <2>1, <2>2, <2>4 DEF At
  <2> QED BY <2>2, <2>5 DEF x
<1>3. (read + n) % Size = At(n)
  <2>1. n \in 0 .. n
    BY <1>0
  <2>2. (read + n) % Size = IF read + n < Size THEN read + n ELSE read + n - Size
    BY <1>2, <2>1
  <2> QED BY <2>2 DEF At
<1> QED BY <1>1, <1>2, <1>3

-----------------------------------------------------------------------------
\* What holds at every step, and is inductive: write cannot be checked alone,
\* since a step moves it relative to where read and len say it is.
IInv == TypeOK /\ WriteBehindRead

LEMMA InitHolds == Init => IInv /\ Promise!Init
<1> SUFFICES ASSUME Init PROVE IInv /\ Promise!Init
  OBVIOUS
<1>1. TypeOK
  <2>1. << >> \in Seq(Items)
    OBVIOUS
  <2> QED BY <2>1, SizeAssumption DEF Init, TypeOK, Index
<1>2. WriteBehindRead
  BY SizeAssumption DEF Init, WriteBehindRead, At
<1>3. waiting \in Seq(Items) /\ Len(waiting) = 0
  BY <1>1, WaitingIsSeq DEF Init
<1>4. waiting = << >>
  BY <1>3, EmptySeq
<1> QED BY <1>1, <1>2, <1>4 DEF IInv, Init, Promise!Init

\* Dropping n items: what it keeps, and what it leaves waiting.
LEMMA DropImplements ==
    ASSUME IInv, NEW n \in Nat, n <= len,
           len' = len - n, read' = At(n), base' = base, write' = write,
           block' \in Seq(Items)
    PROVE  IInv' /\ Promise!Drop(n)
<1>0. n \in 0 .. len /\ len \in Nat /\ len <= Size /\ Size \in Nat /\ TypeOK
  BY SizeAssumption DEF IInv, TypeOK
<1>1. At(n) \in Index
  BY <1>0, ReadMoved
<1>2. TypeOK'
  BY <1>0, <1>1 DEF TypeOK
<1>3. WriteBehindRead'
  BY <1>0, SizeAssumption DEF IInv, WriteBehindRead, TypeOK, At, Index
<1>4. waiting' = SubSeq(waiting, n + 1, len)
  BY <1>0, <1>2, RestWaits
<1>5. Len(waiting) = len
  BY <1>0, WaitingIsSeq
<1> QED BY <1>0, <1>2, <1>3, <1>4, <1>5 DEF IInv, Promise!Drop

LEMMA StepImplements == IInv /\ [Next]_vars => IInv' /\ [Promise!Next]_<<waiting, block>>
<1> SUFFICES ASSUME IInv, [Next]_vars
             PROVE  IInv' /\ [Promise!Next]_<<waiting, block>>
  OBVIOUS
<1>0. TypeOK /\ WriteBehindRead /\ len \in Nat /\ Len(waiting) = len
  BY SizeAssumption, WaitingIsSeq DEF IInv, TypeOK
<1>1. ASSUME NEW e \in Blocks, EnCQueue(e)
      PROVE  IInv' /\ [Promise!Next]_<<waiting, block>>
  <2>1. e \in Seq(Items)
    BY CallsAssumption
  <2>2. IInv' /\ waiting' = waiting \o e
    BY <1>0, <1>1, <2>1, BlockWaits DEF IInv
  <2>3. Len(waiting) + Len(e) <= Size /\ block' = e
    <3>1. Len(e) \in Nat
      BY <2>1, LenProperties
    <3> QED BY <1>0, <1>1, <3>1, SizeAssumption DEF EnCQueue, AvailableOfCQueue
  <2>4. Promise!Put(e)
    BY <2>2, <2>3 DEF Promise!Put, Promise!Fits
  <2> QED BY <2>2, <2>4 DEF Promise!Next
<1>2. ASSUME NEW n \in Lengths, DeCQueue(n)
      PROVE  IInv' /\ [Promise!Next]_<<waiting, block>>
  <2> DEFINE p == IF Size - read > n THEN n ELSE Size - read
             q == IF Size - read > n THEN << >> ELSE Copy(0, n - p)
  <2>0. /\ n \in Nat /\ n <= len /\ n \in 0 .. len
        /\ len' = len - n /\ base' = base /\ write' = write
    BY <1>0, <1>2, CallsAssumption DEF DeCQueue
  <2>1. read' = At(n)
    BY <1>0, <1>2, <2>0, ReadMoved DEF DeCQueue
  <2>2. block' = Copy(read, p) \o q
    <3>1. CASE Size - read > n
      <4>1. Copy(read, n) \in Seq(Items)
        <5>1. read + n <= Size /\ read \in Index
          BY <1>0, <2>0, <3>1, SizeAssumption DEF TypeOK, Index
        <5> QED BY <1>0, <2>0, <5>1, CopyIsSeq
      <4>2. Copy(read, n) \o << >> = Copy(read, n)
        BY <4>1, ConcatEmptySeq
      <4> QED BY <1>2, <3>1, <4>2 DEF DeCQueue
    <3>2. CASE ~(Size - read > n)
      BY <1>2, <3>2 DEF DeCQueue
    <3> QED BY <3>1, <3>2
  <2>3. /\ p \in Nat /\ p <= n /\ read + p <= Size /\ (p = n \/ read + p = Size)
        /\ q = Copy(0, n - p) \/ (p = n /\ q = << >>)
    BY <1>0, <2>0, SizeAssumption DEF TypeOK, Index
  <2> HIDE DEF p, q
  <2>4. block' \in Seq(Items) /\ block' = SubSeq(waiting, 1, n)
    BY <1>0, <2>0, <2>2, <2>3, OldestItems
  <2>5. IInv' /\ Promise!Drop(n)
    BY <2>0, <2>1, <2>4, DropImplements
  <2>6. Promise!Get(n)
    BY <2>4, <2>5 DEF Promise!Get
  <2> QED BY <2>5, <2>6 DEF Promise!Next
<1>3. ASSUME NEW n \in Lengths, DeCQueueNull(n)
      PROVE  IInv' /\ [Promise!Next]_<<waiting, block>>
  <2>0. /\ n \in Nat /\ n <= len /\ n \in 0 .. len
        /\ len' = len - n /\ base' = base /\ write' = write /\ block' = block
    BY <1>0, <1>3, CallsAssumption DEF DeCQueueNull
  <2>1. read' = At(n)
    BY <1>0, <1>3, <2>0, ReadMoved DEF DeCQueueNull
  <2>2. block' \in Seq(Items)
    BY <1>0, <2>0 DEF TypeOK
  <2>3. IInv' /\ Promise!Drop(n)
    BY <2>0, <2>1, <2>2, DropImplements
  <2>4. Promise!Discard(n)
    BY <2>0, <2>3 DEF Promise!Discard
  <2> QED BY <2>3, <2>4 DEF Promise!Next
<1>4. ASSUME NEW n \in Lengths, app_audio_pcmbuff_get(n)
      PROVE  IInv' /\ [Promise!Next]_<<waiting, block>>
  <2> DEFINE one == write > read \/ Size - read > n
             p == IF one THEN n ELSE Size - read
             q == IF one THEN << >> ELSE Copy(0, n - p)
  <2>0. n \in Nat /\ n <= len /\ n \in 0 .. len /\ base' = base /\ write' = write
    BY <1>0, <1>4, CallsAssumption DEF app_audio_pcmbuff_get
  <2>1. PeekCQueue(n)[1] = Copy(read, p) /\ PeekCQueue(n)[2] = q
    <3>1. n - (Size - read) = n - p \/ one
      OBVIOUS
    <3> QED BY <3>1 DEF PeekCQueue
  <2>2. /\ p \in Nat /\ p <= n /\ read + p <= Size /\ (p = n \/ read + p = Size)
        /\ n - p \in Nat
    BY <1>0, <2>0, SizeAssumption DEF TypeOK, WriteBehindRead, At, Index
  <2>3. q = Copy(0, n - p) \/ (p = n /\ q = << >>)
    OBVIOUS
  <2>4. Len(Copy(read, p)) = p /\ Len(q) = n - p
    <3>1. Len(Copy(read, p)) = p
      BY <1>0, <2>2, CopyIsSeq DEF TypeOK
    <3>2. Len(Copy(0, n - p)) = n - p
      <4>1. 0 \in Index /\ 0 + (n - p) <= Size
        BY <1>0, <2>0, <2>2, SizeAssumption DEF TypeOK, Index
      <4> HIDE DEF p, q
      <4> QED BY <1>0, <2>2, <4>1, CopyIsSeq
    <3>3. p = n => n - p = 0
      BY <2>0
    <3> HIDE DEF p, q
    <3>4. Len(<< >>) = 0
      BY EmptySeq
    <3> QED BY <2>3, <3>1, <3>2, <3>3, <3>4
  <2> HIDE DEF p, q
  <2>5. block' \in Seq(Items) /\ block' = SubSeq(waiting, 1, n)
    <3>1. block' = Copy(read, p) \o q
      BY <1>4, <2>1 DEF app_audio_pcmbuff_get
    <3> QED BY <1>0, <2>0, <2>2, <2>3, <3>1, OldestItems
  <2>6. read' = At(n) /\ len' = len - n
    <3>1. /\ read' = (((read + p) % Size) + (n - p)) % Size
          /\ len' = (len - p) - (n - p)
      BY <1>4, <2>1, <2>4 DEF app_audio_pcmbuff_get
    <3>2. p \in 0 .. n
      BY <2>0, <2>2
    <3>3. read' = At(n)
      BY <1>0, <2>0, <3>1, <3>2, ReadMoved
    <3> QED BY <1>0, <2>0, <2>2, <3>1, <3>3
  <2>7. IInv' /\ Promise!Drop(n)
    BY <2>0, <2>5, <2>6, DropImplements
  <2>8. Promise!Get(n)
    BY <2>5, <2>7 DEF Promise!Get
  <2> QED BY <2>7, <2>8 DEF Promise!Next
<1>5. ASSUME NEW e \in Blocks, EnCQueueFront(e)
      PROVE  IInv' /\ [Promise!Next]_<<waiting, block>>
  <2>1. e \in Seq(Items)
    BY CallsAssumption
  <2>2. IInv' /\ waiting' = e \o waiting
    BY <1>0, <1>5, <2>1, BlockInFront DEF IInv
  <2>3. Len(waiting) + Len(e) <= Size /\ block' = e
    <3>1. Len(e) \in Nat
      BY <2>1, LenProperties
    <3> QED BY <1>0, <1>5, <3>1, SizeAssumption DEF EnCQueueFront, AvailableOfCQueue
  <2>4. Promise!PutFront(e)
    BY <2>2, <2>3 DEF Promise!PutFront, Promise!Fits
  <2> QED BY <2>2, <2>4 DEF Promise!Next
<1>6. ASSUME UNCHANGED vars
      PROVE  IInv' /\ [Promise!Next]_<<waiting, block>>
  BY <1>6 DEF IInv, vars, TypeOK, WriteBehindRead, At, Index, waiting
<1> QED BY <1>1, <1>2, <1>3, <1>4, <1>5, <1>6 DEF Next

\* For every size, the place to write to is len places behind the place to
\* read from: the three indexes of a CQueue never disagree.
THEOREM IndexesAgree == Spec => [](TypeOK /\ WriteBehindRead)
<1>1. Init => IInv
  BY InitHolds
<1>2. IInv /\ [Next]_vars => IInv'
  BY StepImplements
<1> QED BY <1>1, <1>2, PTL DEF Spec, IInv

\* For every size, all items, blocks and lengths, the ring of bytes and the
\* PCM buffer on top of it implement a FIFO that takes a block whole or not.
THEOREM QueueIsFifo == Spec => IsFifo
<1>1. Init => IInv /\ Promise!Init
  BY InitHolds
<1>2. IInv /\ [Next]_vars => IInv' /\ [Promise!Next]_<<waiting, block>>
  BY StepImplements
<1> QED BY <1>1, <1>2, PTL DEF Spec, IsFifo, Promise!Spec
=============================================================================
