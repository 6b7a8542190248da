--------------------------- MODULE IntersysProofs ---------------------------
(***************************************************************************)
(* Proofs about IntersysSend: for any channels, records and messages, the  *)
(* records are accounted for, the wake lock is held exactly while a        *)
(* channel has a message under way, and every channel is a MessageChannel. *)
(* And about IntersysHci: for any packets, the parser stays in step, each  *)
(* packet reaches the stack whole and in order, and BesbtThread uses its   *)
(* channel so that the above still holds.                                  *)
(***************************************************************************)
EXTENDS IntersysHci, ListLemmas, FiniteSetTheorems

(***************************************************************************)
(* Sequences                                                               *)
(***************************************************************************)
\* x holds the messages of list s from behind the n-th on, and then of list p.
Elements(x, d, s, n, p) ==
    /\ x \in Seq(Messages) /\ Len(x) = Len(s) - n + Len(p)
    /\ \A k \in 1 .. Len(s) - n : x[k] = d[s[n + k]]
    /\ \A k \in 1 .. Len(p) : x[Len(s) - n + k] = d[p[k]]

\* What is left of two lists, element by element.
LEMMA LeftElements ==
    ASSUME NEW d \in [Records -> Messages], NEW s \in Seq(Records), NEW p \in Seq(Records),
           NEW n \in 0 .. Len(s)
    PROVE  Elements(Left(d, s, n, p), d, s, n, p)
<1> DEFINE q == SubSeq(s, n + 1, Len(s))
           a == Contents(d, q)
           b == Contents(d, p)
<1>1. /\ Len(s) \in Nat /\ Len(p) \in Nat /\ n \in Nat /\ n <= Len(s)
      /\ \A k \in 1 .. Len(s) : s[k] \in Records
      /\ \A k \in 1 .. Len(p) : p[k] \in Records
  BY LenProperties
<1>2. /\ q \in Seq(Records) /\ Len(q) = Len(s) - n
      /\ \A k \in 1 .. Len(s) - n : q[k] = s[n + k]
  <2>1. /\ SubSeq(s, n + 1, Len(s)) \in Seq(Records)
        /\ Len(SubSeq(s, n + 1, Len(s))) = IF n + 1 <= Len(s) THEN Len(s) - (n + 1) + 1 ELSE 0
        /\ \A i \in 1 .. Len(s) - (n + 1) + 1 : SubSeq(s, n + 1, Len(s))[i] = s[n + 1 + i - 1]
    BY <1>1, SubSeqProperties
  <2> QED BY <2>1, <1>1
<1> HIDE DEF q
<1>3. /\ a \in Seq(Messages) /\ Len(a) = Len(s) - n
      /\ \A k \in 1 .. Len(s) - n : a[k] = d[q[k]]
  <2>1. \A k \in 1 .. Len(q) : q[k] \in Records
    BY <1>2, LenProperties
  <2>2. a = [k \in 1 .. Len(q) |-> d[q[k]]]
    BY DEF Contents
  <2>3. Len(q) \in Nat
    BY <1>1, <1>2
  <2> HIDE DEF a
  <2>4. a \in Seq(Messages) /\ Len(a) = Len(q)
    BY <2>1, <2>2, <2>3
  <2> QED BY <1>2, <2>2, <2>4
<1>4. /\ b \in Seq(Messages) /\ Len(b) = Len(p)
      /\ \A k \in 1 .. Len(p) : b[k] = d[p[k]]
  <2>1. b = [k \in 1 .. Len(p) |-> d[p[k]]]
    BY DEF Contents
  <2> HIDE DEF b
  <2>2. b \in Seq(Messages) /\ Len(b) = Len(p)
    BY <1>1, <2>1
  <2> QED BY <2>1, <2>2
<1>5. Left(d, s, n, p) = a \o b
  BY DEF Left, q
<1> HIDE DEF a, b
<1>6. /\ a \o b \in Seq(Messages) /\ Len(a \o b) = Len(a) + Len(b)
      /\ \A k \in 1 .. Len(a) + Len(b) : (a \o b)[k] = IF k <= Len(a) THEN a[k] ELSE b[k - Len(a)]
  <2>1. a \in Seq(Messages) /\ b \in Seq(Messages)
    BY <1>3, <1>4
  <2> QED BY <2>1, ConcatProperties
<1>7. ASSUME NEW k \in 1 .. Len(s) - n PROVE (a \o b)[k] = d[s[n + k]]
  BY <1>1, <1>2, <1>3, <1>4, <1>6
<1>8. ASSUME NEW k \in 1 .. Len(p) PROVE (a \o b)[Len(s) - n + k] = d[p[k]]
  <2>1. Len(s) - n + k \in 1 .. Len(a) + Len(b) /\ ~(Len(s) - n + k <= Len(a))
    BY <1>1, <1>3, <1>4
  <2>2. (Len(s) - n + k) - Len(a) = k
    BY <1>1, <1>3
  <2> QED BY <1>4, <1>6, <2>1, <2>2
<1>9. a \o b \in Seq(Messages) /\ Len(a \o b) = Len(s) - n + Len(p)
  BY <1>3, <1>4, <1>6
<1>10. Elements(a \o b, d, s, n, p)
  BY <1>7, <1>8, <1>9 DEF Elements
<1> QED BY <1>5, <1>10

LEMMA LeftLength ==
    ASSUME NEW d \in [Records -> Messages], NEW s \in Seq(Records), NEW p \in Seq(Records),
           NEW n \in 0 .. Len(s)
    PROVE  Left(d, s, n, p) \in Seq(Messages) /\ Len(Left(d, s, n, p)) = Len(s) - n + Len(p)
BY LeftElements DEF Elements

\* Linking a record to the second list appends its message.
LEMMA LeftAppend ==
    ASSUME NEW d \in [Records -> Messages], NEW e \in [Records -> Messages],
           NEW s \in Seq(Records), NEW p \in Seq(Records), NEW n \in 0 .. Len(s),
           NEW r \in Records,
           \A k \in 1 .. Len(s) : e[s[k]] = d[s[k]],
           \A k \in 1 .. Len(p) : e[p[k]] = d[p[k]]
    PROVE  Left(e, s, n, Append(p, r)) = Append(Left(d, s, n, p), e[r])
<1> DEFINE t == Append(p, r)
           x == Left(d, s, n, p)
           y == Left(e, s, n, t)
           l == Len(s) - n
<1>1. /\ Len(s) \in Nat /\ Len(p) \in Nat /\ l \in Nat /\ n \in Nat /\ n + l = Len(s)
      /\ t \in Seq(Records) /\ Len(t) = Len(p) + 1
      /\ \A k \in 1 .. Len(p) : t[k] = p[k]
      /\ t[Len(p) + 1] = r
  BY LenProperties, AppendProperties
<1> HIDE DEF t
<1>2. /\ x \in Seq(Messages) /\ Len(x) = l + Len(p)
      /\ \A k \in 1 .. l : x[k] = d[s[n + k]]
      /\ \A k \in 1 .. Len(p) : x[l + k] = d[p[k]]
  <2>1. Elements(x, d, s, n, p)
    BY LeftElements
  <2> QED BY <2>1 DEF Elements
<1>3. /\ y \in Seq(Messages) /\ Len(y) = l + Len(t)
      /\ \A k \in 1 .. l : y[k] = e[s[n + k]]
      /\ \A k \in 1 .. Len(t) : y[l + k] = e[t[k]]
  <2>1. t \in Seq(Records)
    BY <1>1
  <2>2. Elements(y, e, s, n, t)
    BY <2>1, LeftElements
  <2> QED BY <2>2 DEF Elements
<1> HIDE DEF x, y, l
<1> DEFINE z == Append(x, e[r])
<1>4. /\ z \in Seq(Messages) /\ Len(z) = Len(x) + 1
      /\ \A k \in 1 .. Len(x) : z[k] = x[k]
      /\ z[Len(x) + 1] = e[r]
  BY <1>2, AppendProperties
<1> HIDE DEF z
<1>5. ASSUME NEW k \in 1 .. Len(y) PROVE y[k] = z[k]
  <2>0. k \in Nat /\ k >= 1 /\ k <= l + Len(p) + 1
    BY <1>1, <1>3
  <2>1. CASE k <= l
    <3>1. k \in 1 .. l /\ n + k \in 1 .. Len(s) /\ k \in 1 .. Len(x)
      BY <1>1, <1>2, <2>0, <2>1
    <3> QED BY <1>2, <1>3, <1>4, <3>1, ZenonT(60)
  <2>2. CASE k > l /\ k <= l + Len(p)
    <3>1. k - l \in 1 .. Len(p) /\ k - l \in 1 .. Len(t) /\ l + (k - l) = k /\ k \in 1 .. Len(x)
      BY <1>1, <1>2, <2>0, <2>2
    <3>2. y[k] = e[t[k - l]] /\ x[k] = d[p[k - l]] /\ z[k] = x[k] /\ t[k - l] = p[k - l]
      BY <1>1, <1>2, <1>3, <1>4, <3>1, ZenonT(60)
    <3> QED BY <3>1, <3>2
  <2>3. CASE k = l + Len(p) + 1
    <3>1. Len(t) \in 1 .. Len(t) /\ l + Len(t) = k /\ Len(x) + 1 = k
      <4>1. Len(t) = Len(p) + 1 /\ Len(x) = l + Len(p) /\ l \in Nat /\ Len(p) \in Nat
        BY <1>1, <1>2
      <4> QED BY <4>1, <2>3
    <3>2. y[k] = e[t[Len(t)]] /\ t[Len(t)] = r
      BY <1>1, <1>3, <3>1
    <3> QED BY <1>4, <3>1, <3>2
  <2> QED BY <1>1, <2>0, <2>1, <2>2, <2>3
<1>6. Len(y) = Len(z)
  BY <1>1, <1>2, <1>3, <1>4
<1>7. y = z
  BY <1>3, <1>4, <1>5, <1>6, SeqEqual
<1> QED BY <1>7 DEF x, y, z, t

\* Reading one more takes the first of what is left.
LEMMA LeftTail ==
    ASSUME NEW d \in [Records -> Messages], NEW s \in Seq(Records), NEW p \in Seq(Records),
           NEW n \in 0 .. Len(s), n < Len(s)
    PROVE  /\ Left(d, s, n, p) # << >>
           /\ Head(Left(d, s, n, p)) = d[s[n + 1]]
           /\ Tail(Left(d, s, n, p)) = Left(d, s, n + 1, p)
<1> DEFINE x == Left(d, s, n, p)
           y == Left(d, s, n + 1, p)
           l == Len(s) - n
<1>1. /\ Len(s) \in Nat /\ Len(p) \in Nat /\ l \in Nat /\ l >= 1 /\ n \in Nat /\ n + l = Len(s)
      /\ n + 1 \in 0 .. Len(s) /\ Len(s) - (n + 1) = l - 1
  BY LenProperties
<1>2. /\ x \in Seq(Messages) /\ Len(x) = l + Len(p)
      /\ \A k \in 1 .. l : x[k] = d[s[n + k]]
      /\ \A k \in 1 .. Len(p) : x[l + k] = d[p[k]]
  <2>1. Elements(x, d, s, n, p)
    BY LeftElements
  <2> QED BY <2>1 DEF Elements
<1>3. /\ y \in Seq(Messages) /\ Len(y) = (l - 1) + Len(p)
      /\ \A k \in 1 .. l - 1 : y[k] = d[s[(n + 1) + k]]
      /\ \A k \in 1 .. Len(p) : y[(l - 1) + k] = d[p[k]]
  <2>1. /\ y \in Seq(Messages) /\ Len(y) = Len(s) - (n + 1) + Len(p)
        /\ \A k \in 1 .. Len(s) - (n + 1) : y[k] = d[s[(n + 1) + k]]
        /\ \A k \in 1 .. Len(p) : y[Len(s) - (n + 1) + k] = d[p[k]]
    <3>1. n + 1 \in 0 .. Len(s)
      BY <1>1
    <3>2. Elements(y, d, s, n + 1, p)
      BY <3>1, LeftElements
    <3> QED BY <3>2 DEF Elements
  <2> QED BY <1>1, <2>1
<1> HIDE DEF x, y, l
<1>4. x # << >>
  BY <1>1, <1>2, EmptySeq
<1>5. /\ Head(x) = x[1] /\ Tail(x) \in Seq(Messages) /\ Len(Tail(x)) = Len(x) - 1
      /\ \A k \in 1 .. Len(Tail(x)) : Tail(x)[k] = x[k + 1]
  BY <1>2, <1>4, HeadTailProperties
<1>6. Head(x) = d[s[n + 1]]
  BY <1>1, <1>2, <1>5
<1>7. ASSUME NEW k \in 1 .. Len(y) PROVE Tail(x)[k] = y[k]
  <2>0. k \in Nat /\ k >= 1 /\ k <= (l - 1) + Len(p) /\ Tail(x)[k] = x[k + 1]
    BY <1>1, <1>2, <1>3, <1>5
  <2>1. CASE k <= l - 1
    <3>1. k \in 1 .. l - 1 /\ k + 1 \in 1 .. l /\ n + (k + 1) = (n + 1) + k
      BY <1>1, <2>0, <2>1
    <3> QED BY <1>2, <1>3, <2>0, <3>1, ZenonT(60)
  <2>2. CASE k > l - 1
    <3> DEFINE i == k - (l - 1)
    <3>1. i \in 1 .. Len(p) /\ l + i = k + 1 /\ (l - 1) + i = k
      <4>1. k \in Nat /\ l \in Nat /\ Len(p) \in Nat /\ k <= (l - 1) + Len(p)
        BY <1>1, <2>0
      <4> QED BY <4>1, <2>2
    <3>2. x[l + i] = d[p[i]] /\ y[(l - 1) + i] = d[p[i]]
      BY <1>2, <1>3, <3>1
    <3> QED BY <2>0, <3>1, <3>2
  <2>3. k <= l - 1 \/ k > l - 1
    <3>1. k \in Nat /\ l \in Nat
      BY <1>1, <2>0
    <3> QED BY <3>1
  <2> QED BY <2>1, <2>2, <2>3
<1>8. Tail(x) = y
  <2>1. Len(Tail(x)) = Len(y)
    BY <1>1, <1>2, <1>3, <1>5
  <2> QED BY <1>3, <1>5, <1>7, <2>1, SeqEqual
<1> QED BY <1>4, <1>6, <1>8 DEF x, y

\* With the first list read, the second takes its place.
LEMMA LeftSwitch ==
    ASSUME NEW d \in [Records -> Messages], NEW s \in Seq(Records), NEW p \in Seq(Records)
    PROVE  Left(d, s, Len(s), p) = Left(d, p, 0, << >>)
<1> DEFINE x == Left(d, s, Len(s), p)
           y == Left(d, p, 0, << >>)
<1>1. /\ Len(s) \in Nat /\ Len(p) \in Nat /\ Len(s) \in 0 .. Len(s) /\ 0 \in 0 .. Len(p)
      /\ << >> \in Seq(Records) /\ Len(<< >>) = 0
  BY LenProperties, EmptySeq
<1>2. /\ x \in Seq(Messages) /\ Len(x) = Len(s) - Len(s) + Len(p)
      /\ \A k \in 1 .. Len(p) : x[Len(s) - Len(s) + k] = d[p[k]]
  <2>1. Elements(x, d, s, Len(s), p)
    BY <1>1, LeftElements
  <2> QED BY <2>1 DEF Elements
<1>3. /\ y \in Seq(Messages) /\ Len(y) = Len(p) - 0 + Len(<< >>)
      /\ \A k \in 1 .. Len(p) - 0 : y[k] = d[p[0 + k]]
  <2> DEFINE t == << >>
             n == 0
  <2>1. t \in Seq(Records) /\ n \in 0 .. Len(p)
    BY <1>1
  <2> HIDE DEF t, n
  <2>2. /\ Left(d, p, n, t) \in Seq(Messages) /\ Len(Left(d, p, n, t)) = Len(p) - n + Len(t)
        /\ \A k \in 1 .. Len(p) - n : Left(d, p, n, t)[k] = d[p[n + k]]
    <3>1. Elements(Left(d, p, n, t), d, p, n, t)
      BY <2>1, LeftElements
    <3> QED BY <3>1 DEF Elements
  <2> QED BY <2>2 DEF t, n
<1> HIDE DEF x, y
<1>4. \A k \in 1 .. Len(p) : x[k] = d[p[k]] /\ y[k] = d[p[k]]
  BY <1>1, <1>2, <1>3
<1>5. Len(x) = Len(p) /\ Len(y) = Len(p)
  BY <1>1, <1>2, <1>3
<1>6. x = y
  BY <1>2, <1>3, <1>4, <1>5, SeqEqual
<1> QED BY <1>6 DEF x, y

\* Two lists without a common record make one in which nothing is twice.
LEMMA TwoLists ==
    ASSUME NEW S, NEW s \in Seq(S), NEW p \in Seq(S), Distinct(s), Distinct(p),
           InList(s) \cap InList(p) = {}
    PROVE  /\ s \o p \in Seq(S) /\ Len(s \o p) = Len(s) + Len(p)
           /\ Distinct(s \o p)
           /\ InList(s \o p) = InList(s) \cup InList(p)
<1> DEFINE q == s \o p
<1>1. /\ Len(s) \in Nat /\ Len(p) \in Nat
      /\ q \in Seq(S) /\ Len(q) = Len(s) + Len(p)
      /\ \A k \in 1 .. Len(s) + Len(p) : q[k] = IF k <= Len(s) THEN s[k] ELSE p[k - Len(s)]
  BY LenProperties, ConcatProperties
<1> HIDE DEF q
<1>2. ASSUME NEW k \in 1 .. Len(q)
      PROVE  \/ k \in 1 .. Len(s) /\ q[k] = s[k]
             \/ k - Len(s) \in 1 .. Len(p) /\ q[k] = p[k - Len(s)]
  BY <1>1
<1>3. \A k \in 1 .. Len(s) : k \in 1 .. Len(q) /\ q[k] = s[k]
  BY <1>1
<1>4. ASSUME NEW k \in 1 .. Len(p) PROVE k + Len(s) \in 1 .. Len(q) /\ q[k + Len(s)] = p[k]
  <2>1. k + Len(s) \in 1 .. Len(q) /\ ~(k + Len(s) <= Len(s)) /\ (k + Len(s)) - Len(s) = k
    BY <1>1
  <2> QED BY <1>1, <2>1
<1>5. ASSUME NEW i \in 1 .. Len(q), NEW j \in 1 .. Len(q), q[i] = q[j] PROVE i = j
  <2>1. CASE i \in 1 .. Len(s) /\ q[i] = s[i] /\ j \in 1 .. Len(s) /\ q[j] = s[j]
    BY <1>5, <2>1 DEF Distinct
  <2>2. CASE /\ i - Len(s) \in 1 .. Len(p) /\ q[i] = p[i - Len(s)]
             /\ j - Len(s) \in 1 .. Len(p) /\ q[j] = p[j - Len(s)]
    <3>1. i - Len(s) = j - Len(s)
      BY <1>5, <2>2 DEF Distinct
    <3> QED BY <1>1, <3>1
  <2>3. CASE i \in 1 .. Len(s) /\ q[i] = s[i] /\ j - Len(s) \in 1 .. Len(p) /\ q[j] = p[j - Len(s)]
    BY <1>5, <2>3 DEF InList
  <2>4. CASE j \in 1 .. Len(s) /\ q[j] = s[j] /\ i - Len(s) \in 1 .. Len(p) /\ q[i] = p[i - Len(s)]
    BY <1>5, <2>4 DEF InList
  <2> QED BY <1>2, <2>1, <2>2, <2>3, <2>4
<1>6. Distinct(q)
  BY <1>5 DEF Distinct
<1>7. InList(q) = InList(s) \cup InList(p)
  <2>1. ASSUME NEW x \in InList(q) PROVE x \in InList(s) \cup InList(p)
    BY <1>2 DEF InList
  <2>2. ASSUME NEW x \in InList(s) PROVE x \in InList(q)
    BY <1>3 DEF InList
  <2>3. ASSUME NEW x \in InList(p) PROVE x \in InList(q)
    BY <1>4 DEF InList
  <2> QED BY <2>1, <2>2, <2>3
<1> QED BY <1>1, <1>6, <1>7 DEF q

\* A list in which no record is twice is no longer than there are records.
LEMMA DistinctFits ==
    ASSUME NEW q \in Seq(Records), Distinct(q)
    PROVE  Len(q) <= MAX_SEND_RECORD_COUNT
<1>1. /\ Len(q) \in Nat
      /\ q \in [1 .. Len(q) -> Records]
  BY LenProperties
<1>2. q \in Injection(1 .. Len(q), Records)
  BY <1>1 DEF Injection, IsInjective, Distinct
<1>3. /\ IsFiniteSet(Records)
      /\ Cardinality(Records) = MAX_SEND_RECORD_COUNT
      /\ Cardinality(1 .. Len(q)) = Len(q)
  <2>1. /\ IsFiniteSet(1 .. MAX_SEND_RECORD_COUNT)
        /\ Cardinality(1 .. MAX_SEND_RECORD_COUNT) =
              IF 1 > MAX_SEND_RECORD_COUNT THEN 0 ELSE MAX_SEND_RECORD_COUNT - 1 + 1
    BY SendAssumption, FS_Interval
  <2>2. Cardinality(1 .. Len(q)) = IF 1 > Len(q) THEN 0 ELSE Len(q) - 1 + 1
    <3>1. 1 \in Int /\ Len(q) \in Int
      BY <1>1
    <3> QED BY <3>1, FS_Interval, Zenon
  <2> QED BY <1>1, <2>1, <2>2, SendAssumption DEF Records
<1>4. Cardinality(1 .. Len(q)) <= Cardinality(Records)
  BY <1>2, <1>3, FS_Injection
<1> QED BY <1>3, <1>4

(***************************************************************************)
(* The invariant                                                           *)
(***************************************************************************)
\* The records of a channel, its two lists apart
Accounted(id) ==
    /\ Distinct(send_msg_list[id]) /\ Distinct(send_pending_list[id])
    /\ InList(send_msg_list[id]) \cap InList(send_pending_list[id]) = {}
    /\ \A r \in Records :
         in_use[id][r] <=> r \in InList(send_msg_list[id]) \cup InList(send_pending_list[id])

\* A list goes from the MCU to the core and back, and is at one place at a time.
Phases(id) ==
    /\ chan_busy[id] <=> send_msg_list[id] # << >>
    /\ send_msg_list[id] # << >> <=> ind[id] \/ reading[id] \/ done[id]
    /\ ~(ind[id] /\ reading[id]) /\ ~(ind[id] /\ done[id]) /\ ~(reading[id] /\ done[id])
    /\ send_pending_list[id] # << >> => send_msg_list[id] # << >>
    /\ ind[id] \/ send_msg_list[id] = << >> => got[id] = << >>
    /\ Len(got[id]) <= Len(send_msg_list[id])
    /\ done[id] => Len(got[id]) = Len(send_msg_list[id])

LockHeld == busy_now <=> \E id \in Ids : chan_busy[id]

IInv == TypeOK /\ (\A id \in Ids : Accounted(id) /\ Phases(id)) /\ LockHeld

\* What a step of one channel leaves alone
Elsewhere(a) ==
    \A id \in Ids \ {a} :
        /\ in_use'[id] = in_use[id] /\ data'[id] = data[id]
        /\ send_msg_list'[id] = send_msg_list[id] /\ send_pending_list'[id] = send_pending_list[id]
        /\ chan_busy'[id] = chan_busy[id]
        /\ ind'[id] = ind[id] /\ done'[id] = done[id]
        /\ reading'[id] = reading[id] /\ got'[id] = got[id]

\* The other channels keep what they are, and what is unread on them.
LEMMA OthersKept ==
    ASSUME IInv, NEW a \in Ids, Elsewhere(a), TypeOK', Accounted(a)', Phases(a)', LockHeld'
    PROVE  /\ IInv'
           /\ \A id \in Ids \ {a} : Unread(id)' = Unread(id) /\ got'[id] = got[id]
<1>1. ASSUME NEW id \in Ids PROVE Accounted(id)' /\ Phases(id)'
  <2>1. CASE id = a
    BY <2>1
  <2>2. CASE id # a
    <3>1. Accounted(id) /\ Phases(id)
      BY DEF IInv
    <3>2. /\ in_use'[id] = in_use[id] /\ data'[id] = data[id]
          /\ send_msg_list'[id] = send_msg_list[id] /\ send_pending_list'[id] = send_pending_list[id]
          /\ chan_busy'[id] = chan_busy[id]
          /\ ind'[id] = ind[id] /\ done'[id] = done[id]
          /\ reading'[id] = reading[id] /\ got'[id] = got[id]
      BY <2>2 DEF Elsewhere
    <3>3. Accounted(id)'
      BY <3>1, <3>2 DEF Accounted
    <3>4. Phases(id)'
      BY <3>1, <3>2, Zenon DEF Phases
    <3> QED BY <3>3, <3>4
  <2> QED BY <2>1, <2>2
<1>2. ASSUME NEW id \in Ids \ {a} PROVE Unread(id)' = Unread(id) /\ got'[id] = got[id]
  BY DEF Elsewhere, Unread
<1> QED BY <1>1, <1>2 DEF IInv

LEMMA QuietHolds ==
    ASSUME Quiet, chan_opened \in [Ids -> BOOLEAN]
    PROVE  IInv /\ \A id \in Ids : Promise(id)!Init
<1> USE DEF Quiet
<1>1. TypeOK
  <2>1. data \in [Ids -> [Records -> Messages]]
    <3>1. \A m \in Messages : [r \in Records |-> m] \in [Records -> Messages]
      OBVIOUS
    <3>2. {[r \in Records |-> m] : m \in Messages} \subseteq [Records -> Messages]
      BY <3>1, Zenon
    <3> QED BY <3>2
  <2>2. /\ in_use \in [Ids -> [Records -> BOOLEAN]]
        /\ chan_opened \in [Ids -> BOOLEAN] /\ chan_busy \in [Ids -> BOOLEAN] /\ busy_now \in BOOLEAN
        /\ ind \in [Ids -> BOOLEAN] /\ done \in [Ids -> BOOLEAN] /\ reading \in [Ids -> BOOLEAN]
    OBVIOUS
  <2>3. /\ send_msg_list \in [Ids -> Seq(Records)] /\ send_pending_list \in [Ids -> Seq(Records)]
        /\ got \in [Ids -> Seq(Messages)]
    OBVIOUS
  <2> QED BY <2>1, <2>2, <2>3 DEF TypeOK
<1>2. ASSUME NEW id \in Ids PROVE Accounted(id) /\ Phases(id)
  BY DEF Accounted, Phases, Distinct, InList
<1>3. LockHeld
  BY DEF LockHeld
<1>4. ASSUME NEW id \in Ids PROVE Promise(id)!Init
  <2>1. data[id] \in [Records -> Messages]
    BY <1>1 DEF TypeOK
  <2>2. << >> \in Seq(Records) /\ 0 \in 0 .. Len(<< >>) /\ Len(<< >>) = 0
    BY EmptySeq
  <2>3. /\ Left(data[id], << >>, 0, << >>) \in Seq(Messages)
        /\ Len(Left(data[id], << >>, 0, << >>)) = Len(<< >>) - 0 + Len(<< >>)
    BY <2>1, <2>2, LeftLength
  <2>4. Unread(id) = << >> /\ got[id] = << >>
    BY <2>2, <2>3, EmptySeq DEF Unread
  <2> QED BY <2>4 DEF Promise!Init
<1> QED BY <1>1, <1>2, <1>3, <1>4 DEF IInv

LEMMA InitHolds == SendInit => IInv /\ \A id \in Ids : Promise(id)!Init
BY QuietHolds DEF SendInit

\* hal_intersys_busy keeps the lock in step with the channels.
LEMMA BusyKeeps ==
    ASSUME TypeOK, NEW id \in Ids, NEW b \in BOOLEAN, Busy(id, b)
    PROVE  /\ LockHeld'
           /\ chan_busy' \in [Ids -> BOOLEAN] /\ busy_now' \in BOOLEAN
           /\ chan_busy'[id] = b
           /\ \A i \in Ids \ {id} : chan_busy'[i] = chan_busy[i]
BY DEF TypeOK, Busy, LockHeld

(***************************************************************************)
(* The steps                                                               *)
(***************************************************************************)
\* A message that is sent waits behind those that wait.
LEMMA SendStep ==
    ASSUME IInv, NEW a \in Ids, NEW m \in Messages, Send(a, m)
    PROVE  /\ IInv' /\ Promise(a)!Send(m)
           /\ \A id \in Ids \ {a} : Unread(id)' = Unread(id) /\ got'[id] = got[id]
<1> DEFINE s == send_msg_list[a]
           p == send_pending_list[a]
<1>0. TypeOK /\ Accounted(a) /\ Phases(a)
  BY DEF IInv
<1>1. /\ s \in Seq(Records) /\ p \in Seq(Records) /\ got[a] \in Seq(Messages)
      /\ data[a] \in [Records -> Messages]
      /\ Len(s) \in Nat /\ Len(p) \in Nat /\ Len(got[a]) \in Nat
      /\ \A k \in 1 .. Len(s) : s[k] \in Records
      /\ \A k \in 1 .. Len(p) : p[k] \in Records
  BY <1>0, LenProperties DEF TypeOK
<1>2. PICK r \in FirstFree(a) :
        /\ in_use' = [in_use EXCEPT ![a][r] = TRUE]
        /\ data' = [data EXCEPT ![a][r] = m]
        /\ Link(a, r)
  BY DEF Send
<1>3. r \in Records /\ ~in_use[a][r]
  BY <1>2 DEF FirstFree
<1>4. r \notin InList(s) /\ r \notin InList(p)
  BY <1>0, <1>3 DEF Accounted
<1>5. /\ LockHeld' /\ chan_busy' \in [Ids -> BOOLEAN] /\ busy_now' \in BOOLEAN
      /\ chan_busy'[a] = TRUE
      /\ \A i \in Ids \ {a} : chan_busy'[i] = chan_busy[i]
  BY <1>0, BusyKeeps DEF Send
<1>6. /\ in_use' \in [Ids -> [Records -> BOOLEAN]]
      /\ \A x \in Records : in_use'[a][x] <=> in_use[a][x] \/ x = r
      /\ data' \in [Ids -> [Records -> Messages]]
      /\ data'[a][r] = m
      /\ \A x \in Records \ {r} : data'[a][x] = data[a][x]
      /\ \A i \in Ids \ {a} : in_use'[i] = in_use[i] /\ data'[i] = data[i]
  BY <1>0, <1>2, <1>3 DEF TypeOK
<1>7. /\ chan_opened' = chan_opened /\ done' = done /\ reading' = reading /\ got' = got
  BY DEF Send, core
<1>8. /\ \A k \in 1 .. Len(s) : data'[a][s[k]] = data[a][s[k]]
      /\ \A k \in 1 .. Len(p) : data'[a][p[k]] = data[a][p[k]]
      /\ data'[a] \in [Records -> Messages]
  BY <1>1, <1>4, <1>6 DEF InList
<1>9. Len(s) + Len(p) + 1 <= MAX_SEND_RECORD_COUNT
  <2>1. /\ s \o p \in Seq(Records) /\ Len(s \o p) = Len(s) + Len(p)
        /\ Distinct(s \o p) /\ InList(s \o p) = InList(s) \cup InList(p)
    BY <1>0, <1>1, TwoLists DEF Accounted
  <2>2. /\ Append(s \o p, r) \in Seq(Records) /\ Distinct(Append(s \o p, r))
        /\ Len(Append(s \o p, r)) = Len(s \o p) + 1
    BY <2>1, <1>3, <1>4, AppendKeeps
  <2>3. Len(Append(s \o p, r)) <= MAX_SEND_RECORD_COUNT
    BY <2>2, DistinctFits
  <2> QED BY <1>1, <2>1, <2>2, <2>3
<1> HIDE DEF s, p
<1>10. CASE s = << >>
  <2>1. p = << >> /\ got[a] = << >> /\ ~reading[a] /\ ~done[a]
    BY <1>0, <1>10 DEF Phases, s, p
  <2>2. /\ send_msg_list' = [send_msg_list EXCEPT ![a] = <<r>>]
        /\ ind' = [ind EXCEPT ![a] = TRUE]
        /\ send_pending_list' = send_pending_list
    BY <1>2, <1>10 DEF Link, s
  <2>3. /\ <<r>> \in Seq(Records) /\ Len(<<r>>) = 1 /\ <<r>> # << >> /\ <<r>>[1] = r
        /\ << >> \in Seq(Records) /\ Len(<< >>) = 0
    BY <1>3
  <2>4. /\ send_msg_list'[a] = <<r>> /\ send_pending_list'[a] = << >> /\ got'[a] = << >>
        /\ ind'[a] = TRUE /\ done'[a] = FALSE /\ reading'[a] = FALSE
    BY <1>0, <1>7, <2>1, <2>2 DEF TypeOK, p
  <2>5. TypeOK'
    BY <1>0, <1>5, <1>6, <1>7, <2>2, <2>3 DEF TypeOK
  <2>6. Elsewhere(a)
    BY <1>0, <1>5, <1>6, <1>7, <2>2 DEF Elsewhere, TypeOK
  <2>7. Accounted(a)'
    <3>1. InList(<<r>>) = {r} /\ InList(<< >>) = {} /\ Distinct(<<r>>) /\ Distinct(<< >>)
      BY <2>3 DEF InList, Distinct
    <3>2. \A x \in Records : ~in_use[a][x]
      <4>1. InList(s) = {} /\ InList(p) = {}
        BY <1>10, <2>1, <2>3 DEF InList
      <4> QED BY <1>0, <4>1 DEF Accounted, s, p
    <3> QED BY <1>6, <2>4, <3>1, <3>2 DEF Accounted
  <2>8. Phases(a)'
    BY <1>5, <2>3, <2>4 DEF Phases
  <2>9. 0 \in 0 .. Len(s) /\ Len(s) = 0 /\ Len(p) = 0
    BY <1>1, <1>10, <2>1, <2>3
  <2>10. Unread(a)' = Append(Unread(a), m)
    <3>1. Left(data'[a], s, 0, Append(p, r)) = Append(Left(data[a], s, 0, p), data'[a][r])
      BY <1>1, <1>3, <1>8, <2>9, LeftAppend, ZenonT(60)
    <3>2. Left(data'[a], s, Len(s), <<r>>) = Left(data'[a], <<r>>, 0, << >>)
      BY <1>1, <1>8, <2>3, LeftSwitch
    <3>3. Append(p, r) = <<r>>
      BY <1>3, <2>1
    <3>4. Unread(a)' = Left(data'[a], <<r>>, 0, << >>)
      BY <2>3, <2>4 DEF Unread
    <3>5. Unread(a) = Left(data[a], s, 0, p)
      BY <1>10, <2>1, <2>3 DEF Unread, s, p
    <3> QED BY <1>6, <2>9, <3>1, <3>2, <3>3, <3>4, <3>5
  <2>11. Len(Unread(a)) + Len(got[a]) < MAX_SEND_RECORD_COUNT
    <3>1. Len(Left(data[a], s, 0, p)) = Len(s) - 0 + Len(p)
      BY <1>1, <2>9, LeftLength
    <3>2. Unread(a) = Left(data[a], s, 0, p)
      BY <1>10, <2>1, <2>3 DEF Unread, s, p
    <3>3. Len(Unread(a)) = 0 /\ Len(got[a]) = 0
      BY <2>1, <2>3, <2>9, <3>1, <3>2
    <3> QED BY <3>3, SendAssumption
  <2>12. Promise(a)!Send(m)
    BY <1>7, <2>10, <2>11 DEF Promise!Send
  <2> QED BY <1>5, <2>5, <2>6, <2>7, <2>8, <2>12, OthersKept
<1>11. CASE s # << >>
  <2>1. /\ send_pending_list' = [send_pending_list EXCEPT ![a] = Append(p, r)]
        /\ send_msg_list' = send_msg_list /\ ind' = ind
    BY <1>2, <1>11 DEF Link, s, p
  <2>2. /\ Append(p, r) \in Seq(Records) /\ Distinct(Append(p, r))
        /\ InList(Append(p, r)) = InList(p) \cup {r}
    BY <1>0, <1>1, <1>3, <1>4, AppendKeeps DEF Accounted, p
  <2>3. send_msg_list'[a] = s /\ send_pending_list'[a] = Append(p, r) /\ got'[a] = got[a]
    BY <1>0, <1>7, <2>1 DEF TypeOK, s
  <2>4. TypeOK'
    BY <1>0, <1>5, <1>6, <1>7, <2>1, <2>2 DEF TypeOK
  <2>5. Elsewhere(a)
    BY <1>0, <1>5, <1>6, <1>7, <2>1 DEF Elsewhere, TypeOK
  <2>6. Accounted(a)'
    BY <1>0, <1>3, <1>4, <1>6, <2>2, <2>3 DEF Accounted, s, p
  <2>7. Phases(a)'
    <3>1. /\ s # << >> => ind[a] \/ reading[a] \/ done[a]
          /\ ~(ind[a] /\ reading[a]) /\ ~(ind[a] /\ done[a]) /\ ~(reading[a] /\ done[a])
          /\ ind[a] => got[a] = << >>
          /\ Len(got[a]) <= Len(s)
          /\ done[a] => Len(got[a]) = Len(s)
      BY <1>0, Zenon DEF Phases, s
    <3> QED BY <1>5, <1>7, <1>11, <2>1, <2>3, <3>1 DEF Phases
  <2>8. Len(got[a]) \in 0 .. Len(s)
    BY <1>0, <1>1 DEF Phases, s
  <2>9. Unread(a)' = Append(Unread(a), m)
    <3>1. Left(data'[a], s, Len(got[a]), Append(p, r)) = Append(Left(data[a], s, Len(got[a]), p), data'[a][r])
      <4> DEFINE d == data[a]
                 e == data'[a]
                 n == Len(got[a])
      <4>1. /\ d \in [Records -> Messages] /\ e \in [Records -> Messages]
            /\ n \in 0 .. Len(s) /\ s \in Seq(Records) /\ p \in Seq(Records) /\ r \in Records
            /\ \A k \in 1 .. Len(s) : e[s[k]] = d[s[k]]
            /\ \A k \in 1 .. Len(p) : e[p[k]] = d[p[k]]
        BY <1>1, <1>3, <1>8, <2>8
      <4> HIDE DEF d, e, n
      <4>2. Left(e, s, n, Append(p, r)) = Append(Left(d, s, n, p), e[r])
        BY <4>1, LeftAppend, ZenonT(60)
      <4> QED BY <4>2 DEF d, e, n
    <3>2. /\ Unread(a)' = Left(data'[a], s, Len(got[a]), Append(p, r))
          /\ Unread(a) = Left(data[a], s, Len(got[a]), p)
      BY <2>3 DEF Unread, s, p
    <3> QED BY <1>6, <3>1, <3>2
  <2>10. Len(Unread(a)) + Len(got[a]) < MAX_SEND_RECORD_COUNT
    <3>1. Len(Left(data[a], s, Len(got[a]), p)) = Len(s) - Len(got[a]) + Len(p)
      BY <1>1, <2>8, LeftLength
    <3>2. Unread(a) = Left(data[a], s, Len(got[a]), p)
      BY DEF Unread, s, p
    <3>3. Len(Unread(a)) = Len(s) - Len(got[a]) + Len(p)
      BY <3>1, <3>2
    <3> HIDE DEF s, p
    <3> QED BY <1>1, <1>9, <3>3, SendAssumption
  <2>11. Promise(a)!Send(m)
    BY <1>7, <2>9, <2>10 DEF Promise!Send
  <2> QED BY <1>5, <2>4, <2>5, <2>6, <2>7, <2>11, OthersKept
<1> QED BY <1>10, <1>11

\* The core takes a list it was shown: nothing is read yet.
LEMMA CoreStartStep ==
    ASSUME IInv, NEW a \in Ids, CoreStart(a)
    PROVE  IInv' /\ \A id \in Ids : Unread(id)' = Unread(id) /\ got'[id] = got[id]
<1>0. TypeOK /\ Accounted(a) /\ Phases(a)
  BY DEF IInv
<1> USE DEF CoreStart, records, lists, busy
<1>1. TypeOK'
  BY <1>0 DEF TypeOK
<1>2. Elsewhere(a)
  BY <1>0 DEF Elsewhere, TypeOK
<1>3. Accounted(a)' /\ LockHeld'
  BY <1>0 DEF Accounted, LockHeld, IInv
<1>4. Phases(a)'
  <2>1. /\ ind'[a] = FALSE /\ reading'[a] = TRUE /\ done'[a] = done[a] /\ got'[a] = got[a]
        /\ send_msg_list'[a] = send_msg_list[a] /\ send_pending_list'[a] = send_pending_list[a]
        /\ chan_busy'[a] = chan_busy[a] /\ ind[a]
    BY <1>0 DEF TypeOK
  <2> QED BY <1>0, <2>1 DEF Phases
<1>5. Unread(a)' = Unread(a) /\ got'[a] = got[a]
  BY DEF Unread
<1> QED BY <1>1, <1>2, <1>3, <1>4, <1>5, OthersKept

\* The core reads the first of what is left.
LEMMA CoreReadStep ==
    ASSUME IInv, NEW a \in Ids, CoreRead(a)
    PROVE  /\ IInv' /\ Promise(a)!Read
           /\ \A id \in Ids \ {a} : Unread(id)' = Unread(id) /\ got'[id] = got[id]
<1> DEFINE s == send_msg_list[a]
           p == send_pending_list[a]
           n == Len(got[a])
           x == data[a][s[n + 1]]
<1>0. TypeOK /\ Accounted(a) /\ Phases(a)
  BY DEF IInv
<1>1. /\ s \in Seq(Records) /\ p \in Seq(Records) /\ got[a] \in Seq(Messages)
      /\ data[a] \in [Records -> Messages]
      /\ Len(s) \in Nat /\ n \in Nat /\ n < Len(s)
      /\ \A k \in 1 .. Len(s) : s[k] \in Records
  BY <1>0, LenProperties DEF TypeOK, CoreRead
<1>2. n + 1 \in 1 .. Len(s) /\ n \in 0 .. Len(s) /\ x \in Messages
  BY <1>1
<1>3. /\ got' = [got EXCEPT ![a] = Append(got[a], x)]
      /\ chan_opened' = chan_opened /\ in_use' = in_use /\ data' = data
      /\ send_msg_list' = send_msg_list /\ send_pending_list' = send_pending_list
      /\ chan_busy' = chan_busy /\ busy_now' = busy_now
      /\ ind' = ind /\ done' = done /\ reading' = reading /\ reading[a]
  BY DEF CoreRead, records, lists, busy
<1>4. got'[a] = Append(got[a], x) /\ Len(got'[a]) = n + 1 /\ Append(got[a], x) \in Seq(Messages)
  <2>1. got'[a] = Append(got[a], x)
    BY <1>0, <1>3 DEF TypeOK
  <2> HIDE DEF x
  <2>2. Len(Append(got[a], x)) = n + 1 /\ Append(got[a], x) \in Seq(Messages)
    BY <1>1, <1>2, AppendProperties
  <2> QED BY <2>1, <2>2
<1> HIDE DEF x
<1>5. TypeOK'
  BY <1>0, <1>3, <1>4 DEF TypeOK
<1>6. Elsewhere(a)
  BY <1>0, <1>3 DEF Elsewhere, TypeOK
<1>7. Accounted(a)' /\ LockHeld'
  BY <1>0, <1>3 DEF Accounted, LockHeld, IInv
<1>8. Phases(a)'
  <2>1. Len(got'[a]) <= Len(s)
    <3> HIDE DEF s, n
    <3> QED BY <1>1, <1>4
  <2>2. ~ind[a] /\ ~done[a] /\ s # << >>
    BY <1>0, <1>3 DEF Phases
  <2> QED BY <1>0, <1>3, <2>1, <2>2 DEF Phases
<1>9. Promise(a)!Read
  <2>1. /\ Left(data[a], s, n, p) # << >>
        /\ Head(Left(data[a], s, n, p)) = x
        /\ Tail(Left(data[a], s, n, p)) = Left(data[a], s, n + 1, p)
    BY <1>1, <1>2, LeftTail DEF x
  <2>2. Unread(a) = Left(data[a], s, n, p)
    BY DEF Unread
  <2>3. Unread(a)' = Left(data[a], s, n + 1, p)
    BY <1>3, <1>4 DEF Unread
  <2> QED BY <1>4, <2>1, <2>2, <2>3 DEF Promise!Read
<1> QED BY <1>5, <1>6, <1>7, <1>8, <1>9, OthersKept

\* The core has read the list and says so.
LEMMA CoreDoneStep ==
    ASSUME IInv, NEW a \in Ids, CoreDone(a)
    PROVE  IInv' /\ \A id \in Ids : Unread(id)' = Unread(id) /\ got'[id] = got[id]
<1>0. TypeOK /\ Accounted(a) /\ Phases(a)
  BY DEF IInv
<1> USE DEF CoreDone, records, lists, busy
<1>1. TypeOK'
  BY <1>0 DEF TypeOK
<1>2. Elsewhere(a)
  BY <1>0 DEF Elsewhere, TypeOK
<1>3. Accounted(a)' /\ LockHeld'
  BY <1>0 DEF Accounted, LockHeld, IInv
<1>4. Phases(a)'
  <2>1. /\ ind'[a] = ind[a] /\ reading'[a] = FALSE /\ done'[a] = TRUE /\ got'[a] = got[a]
        /\ send_msg_list'[a] = send_msg_list[a] /\ send_pending_list'[a] = send_pending_list[a]
        /\ chan_busy'[a] = chan_busy[a] /\ reading[a]
    BY <1>0 DEF TypeOK
  <2>2. Len(got[a]) = Len(send_msg_list[a])
    <3>1. Len(got[a]) \in Nat /\ Len(send_msg_list[a]) \in Nat
      BY <1>0, LenProperties DEF TypeOK
    <3>2. Len(got[a]) >= Len(send_msg_list[a]) /\ Len(got[a]) <= Len(send_msg_list[a])
      BY <1>0 DEF Phases
    <3> QED BY <3>1, <3>2
  <2>3. ~ind[a] /\ send_msg_list[a] # << >>
    BY <1>0, <2>1 DEF Phases
  <2> QED BY <1>0, <2>1, <2>2, <2>3 DEF Phases
<1>5. Unread(a)' = Unread(a) /\ got'[a] = got[a]
  BY DEF Unread
<1> QED BY <1>1, <1>2, <1>3, <1>4, <1>5, OthersKept

\* A list that was read is given back, and the messages that wait become the list.
LEMMA TxIrqStep ==
    ASSUME IInv, NEW a \in Ids, TxIrq(a)
    PROVE  /\ IInv' /\ Promise(a)!GiveBack
           /\ \A id \in Ids \ {a} : Unread(id)' = Unread(id) /\ got'[id] = got[id]
<1> DEFINE s == send_msg_list[a]
           p == send_pending_list[a]
<1>0. TypeOK /\ Accounted(a) /\ Phases(a)
  BY DEF IInv
<1>1. /\ s \in Seq(Records) /\ p \in Seq(Records) /\ got[a] \in Seq(Messages)
      /\ data[a] \in [Records -> Messages] /\ Len(s) \in Nat
  BY <1>0, LenProperties DEF TypeOK
<1>2. /\ done[a] /\ ~ind[a] /\ ~reading[a] /\ s # << >> /\ Len(got[a]) = Len(s)
  BY <1>0 DEF TxIrq, Phases
<1>3. /\ done' = [done EXCEPT ![a] = FALSE]
      /\ in_use' = [in_use EXCEPT ![a] = Release(a)]
      /\ send_msg_list' = [send_msg_list EXCEPT ![a] = p]
      /\ send_pending_list' = [send_pending_list EXCEPT ![a] = << >>]
      /\ got' = [got EXCEPT ![a] = << >>]
      /\ chan_opened' = chan_opened /\ data' = data /\ reading' = reading
  BY DEF TxIrq
<1>4. /\ LockHeld' /\ chan_busy' \in [Ids -> BOOLEAN] /\ busy_now' \in BOOLEAN
      /\ chan_busy'[a] <=> p # << >>
      /\ \A i \in Ids \ {a} : chan_busy'[i] = chan_busy[i]
      /\ ind' \in [Ids -> BOOLEAN]
      /\ ind'[a] <=> p # << >>
      /\ \A i \in Ids \ {a} : ind'[i] = ind[i]
  <2>1. CASE p # << >>
    <3>1. chan_busy' = chan_busy /\ busy_now' = busy_now /\ ind' = [ind EXCEPT ![a] = TRUE]
      BY <2>1 DEF TxIrq, Show, busy
    <3>2. chan_busy[a] /\ LockHeld
      BY <1>0, <1>2 DEF Phases, IInv
    <3> QED BY <1>0, <2>1, <3>1, <3>2 DEF TypeOK, LockHeld
  <2>2. CASE p = << >>
    <3>1. Busy(a, FALSE) /\ ind' = ind
      BY <2>2 DEF TxIrq
    <3>2. LockHeld' /\ chan_busy' \in [Ids -> BOOLEAN] /\ busy_now' \in BOOLEAN
          /\ chan_busy'[a] = FALSE
          /\ \A i \in Ids \ {a} : chan_busy'[i] = chan_busy[i]
      BY <1>0, <3>1, BusyKeeps
    <3> QED BY <1>0, <1>2, <2>2, <3>1, <3>2 DEF TypeOK
  <2> QED BY <2>1, <2>2
<1>5. /\ send_msg_list'[a] = p /\ send_pending_list'[a] = << >> /\ got'[a] = << >>
      /\ done'[a] = FALSE /\ reading'[a] = FALSE /\ data'[a] = data[a]
      /\ \A r \in Records : in_use'[a][r] <=> in_use[a][r] /\ r \notin InList(s)
  BY <1>0, <1>2, <1>3 DEF TypeOK, Release
<1>6. << >> \in Seq(Records) /\ << >> \in Seq(Messages) /\ Len(<< >>) = 0
  BY EmptySeq
<1>7. TypeOK'
  <2>1. Release(a) \in [Records -> BOOLEAN]
    BY DEF Release
  <2> QED BY <1>0, <1>1, <1>3, <1>4, <1>6, <2>1 DEF TypeOK
<1>8. Elsewhere(a)
  BY <1>0, <1>3, <1>4 DEF Elsewhere, TypeOK
<1>9. Accounted(a)'
  <2>1. InList(<< >>) = {} /\ Distinct(<< >>)
    BY <1>6 DEF InList, Distinct
  <2>2. /\ Distinct(p) /\ InList(s) \cap InList(p) = {}
        /\ \A r \in Records : in_use[a][r] <=> r \in InList(s) \cup InList(p)
    BY <1>0 DEF Accounted
  <2> QED BY <1>5, <2>1, <2>2 DEF Accounted
<1>10. Phases(a)'
  <2>1. Len(p) \in Nat
    BY <1>1, LenProperties
  <2> QED BY <1>4, <1>5, <1>6, <2>1 DEF Phases
<1>11. Promise(a)!GiveBack
  <2>1. got[a] # << >>
    <3>1. Len(s) # 0
      BY <1>1, <1>2, EmptySeq
    <3> QED BY <1>2, <1>6, <3>1
  <2>2. Left(data[a], s, Len(s), p) = Left(data[a], p, 0, << >>)
    BY <1>1, LeftSwitch
  <2>3. Unread(a) = Left(data[a], s, Len(s), p) /\ Unread(a)' = Left(data[a], p, 0, << >>)
    BY <1>2, <1>5, <1>6 DEF Unread
  <2> QED BY <1>5, <2>1, <2>2, <2>3 DEF Promise!GiveBack
<1> QED BY <1>4, <1>7, <1>8, <1>9, <1>10, <1>11, OthersKept

\* Every step keeps the invariant, and is a step of each channel's promise or none.
LEMMA StepImplements ==
    IInv /\ [SendNext]_sendVars
      => /\ IInv'
         /\ [\A id \in Ids : Promise(id)!Next \/ UNCHANGED <<Unread(id), got[id]>>]_sendVars
<1> SUFFICES ASSUME IInv, [SendNext]_sendVars
             PROVE  IInv' /\ \A id \in Ids : Promise(id)!Next \/ UNCHANGED <<Unread(id), got[id]>>
  OBVIOUS
<1>1. ASSUME NEW a \in Ids, Open(a) \/ Close(a)
      PROVE  IInv' /\ \A id \in Ids : UNCHANGED <<Unread(id), got[id]>>
  <2>1. /\ chan_opened' \in [Ids -> BOOLEAN]
        /\ in_use' = in_use /\ data' = data
        /\ send_msg_list' = send_msg_list /\ send_pending_list' = send_pending_list
        /\ chan_busy' = chan_busy /\ busy_now' = busy_now
        /\ ind' = ind /\ done' = done /\ reading' = reading /\ got' = got
    BY <1>1 DEF Open, Close, records, lists, busy, core, IInv, TypeOK
  <2> QED BY <2>1 DEF IInv, TypeOK, Accounted, Phases, LockHeld, Unread
<1>2. ASSUME NEW a \in Ids, NEW m \in Messages, Send(a, m)
      PROVE  IInv' /\ \A id \in Ids : Promise(id)!Next \/ UNCHANGED <<Unread(id), got[id]>>
  BY <1>2, SendStep DEF Promise!Next
<1>3. ASSUME NEW a \in Ids, TxIrq(a)
      PROVE  IInv' /\ \A id \in Ids : Promise(id)!Next \/ UNCHANGED <<Unread(id), got[id]>>
  BY <1>3, TxIrqStep DEF Promise!Next
<1>4. ASSUME NEW a \in Ids, CoreStart(a) \/ CoreDone(a)
      PROVE  IInv' /\ \A id \in Ids : UNCHANGED <<Unread(id), got[id]>>
  BY <1>4, CoreStartStep, CoreDoneStep
<1>5. ASSUME NEW a \in Ids, CoreRead(a)
      PROVE  IInv' /\ \A id \in Ids : Promise(id)!Next \/ UNCHANGED <<Unread(id), got[id]>>
  BY <1>5, CoreReadStep DEF Promise!Next
<1>6. CASE UNCHANGED sendVars
  <2>1. /\ chan_opened' = chan_opened /\ in_use' = in_use /\ data' = data
        /\ send_msg_list' = send_msg_list /\ send_pending_list' = send_pending_list
        /\ chan_busy' = chan_busy /\ busy_now' = busy_now
        /\ ind' = ind /\ done' = done /\ reading' = reading /\ got' = got
    BY <1>6 DEF sendVars, records, lists, busy, core
  <2> QED BY <2>1 DEF IInv, TypeOK, Accounted, Phases, LockHeld, Unread
<1> QED BY <1>1, <1>2, <1>3, <1>4, <1>5, <1>6 DEF SendNext

(***************************************************************************)
(* The theorems                                                            *)
(***************************************************************************)
LEMMA Invariance == SendSpec => []IInv
<1>1. SendInit => IInv
  BY InitHolds
<1>2. IInv /\ [SendNext]_sendVars => IInv'
  BY StepImplements
<1> QED BY <1>1, <1>2, PTL DEF SendSpec

\* Every variable of hal_intersys.c keeps its type.
THEOREM TypeCorrect == SendSpec => []TypeOK
<1>1. IInv => TypeOK
  BY DEF IInv
<1> QED BY <1>1, Invariance, PTL

\* What the invariant says of the records and of the lock.
LEMMA AccountedHolds == IInv => RecordsAccounted
<1> SUFFICES ASSUME IInv, NEW id \in Ids
             PROVE  LET all == send_msg_list[id] \o send_pending_list[id]
                    IN Distinct(all) /\ \A r \in Records : in_use[id][r] <=> r \in InList(all)
  BY DEF RecordsAccounted
<1>1. /\ Accounted(id)
      /\ send_msg_list[id] \in Seq(Records) /\ send_pending_list[id] \in Seq(Records)
  BY DEF IInv, TypeOK
<1>2. /\ Distinct(send_msg_list[id] \o send_pending_list[id])
      /\ InList(send_msg_list[id] \o send_pending_list[id])
           = InList(send_msg_list[id]) \cup InList(send_pending_list[id])
  BY <1>1, TwoLists DEF Accounted
<1> QED BY <1>1, <1>2 DEF Accounted

LEMMA LockHolds == IInv => AwakeWhileSending
BY DEF IInv, LockHeld, Phases, AwakeWhileSending

\* For any number of channels and records, no record leaks and none is linked twice.
THEOREM NoneLeaks == SendSpec => []RecordsAccounted
BY Invariance, AccountedHolds, PTL

\* The system can sleep exactly when no channel has a message under way.
THEOREM SleepProhibited == SendSpec => []AwakeWhileSending
BY Invariance, LockHolds, PTL

\* Every channel implements the promise, whatever is sent and however slowly
\* the core reads: each message once, in order, as it was sent.
THEOREM ChannelsImplement == SendSpec => ChannelsKept
<1>1. SendInit => IInv /\ \A id \in Ids : Promise(id)!Init
  BY InitHolds
<1>2. IInv /\ [SendNext]_sendVars
        => IInv' /\ [\A id \in Ids : Promise(id)!Next \/ UNCHANGED <<Unread(id), got[id]>>]_sendVars
  BY StepImplements
<1> QED BY <1>1, <1>2, PTL DEF SendSpec, ChannelsKept

(***************************************************************************)
(* The parser                                                              *)
(***************************************************************************)
Bytes == 0 .. 255

Preamble(p) == hci_preamble_table[p[1]]

\* What PacketsAssumption says of a packet
WellFormed(p) ==
    /\ p \in Seq(Bytes) /\ Len(p) > 0
    /\ p[1] \in {HCI_ACL_DATA_PACKET, HCI_SCO_DATA_PACKET, HCI_EVENT_PACKET}
    /\ Len(p) > Preamble(p)
    /\ Len(p) = Preamble(p) + 1 + MsgLen(p[1], SubSeq(p, 2, Preamble(p) + 1))

LEMMA PacketsWellFormed == \A p \in Packets : WellFormed(p)
BY PacketsAssumption DEF WellFormed, Preamble, Bytes

\* How a packet may end: at the stack, or ignored
Arrives(x, p) == x = p \/ (x = << >> /\ p[1] = HCI_SCO_DATA_PACKET)

PcbType == [state : {"MSGTYPE", "LEN", "DATA", "IGNORE"}, type : Bytes, left : Int, bytes : Seq(Bytes)]

Parsing == [pcb : PcbType, ended : Seq(Seq(Bytes)), wrong : {FALSE}]

\* The bytes of a packet behind its type, one more of them at a time.
LEMMA BehindType ==
    ASSUME NEW p \in Seq(Bytes), NEW n \in 1 .. Len(p)
    PROVE  /\ SubSeq(p, 2, n) \in Seq(Bytes) /\ Len(SubSeq(p, 2, n)) = n - 1
           /\ n < Len(p) => SubSeq(p, 2, n + 1) = Append(SubSeq(p, 2, n), p[n + 1])
           /\ SubSeq(p, 2, 1) = << >>
           /\ <<p[1]>> \o SubSeq(p, 2, Len(p)) = p
<1>1. /\ Len(p) \in Nat /\ n \in Nat
      /\ \A i \in 1 .. Len(p) : p[i] \in Bytes
  BY LenProperties
<1>2. /\ SubSeq(p, 2, n) \in Seq(Bytes)
      /\ Len(SubSeq(p, 2, n)) = IF 2 <= n THEN n - 2 + 1 ELSE 0
  <2>1. \A i \in 2 .. n : p[i] \in Bytes
    BY <1>1
  <2> QED BY <1>1, <2>1, SubSeqProperties
<1>3. Len(SubSeq(p, 2, n)) = n - 1
  BY <1>1, <1>2
<1>4. ASSUME n < Len(p)
      PROVE  SubSeq(p, 2, n + 1) = Append(SubSeq(p, 2, n), p[n + 1])
  <2>1. 2 \in 1 .. Len(p) /\ n + 1 \in 2 .. Len(p) /\ n + 1 - 1 = n
    BY <1>1, <1>4
  <2>2. SubSeq(p, 2, n + 1) = SubSeq(p, 2, n + 1 - 1) \o <<p[n + 1]>>
    BY <2>1, SubSeqRecursiveSecond
  <2>3. p[n + 1] \in Bytes
    BY <1>1, <2>1
  <2> QED BY <1>2, <2>1, <2>2, <2>3, AppendIsConcat
<1>5. SubSeq(p, 2, 1) = << >>
  BY SubSeqEmpty
<1>6. <<p[1]>> \o SubSeq(p, 2, Len(p)) = p
  <2>1. 1 \in 1 .. Len(p) /\ Len(p) \in 1 .. Len(p) /\ 1 + 1 = 2
    BY <1>1
  <2>2. SubSeq(p, 1, Len(p)) = <<p[1]>> \o SubSeq(p, 1 + 1, Len(p))
    BY <2>1, SubSeqRecursiveFirst
  <2> QED BY <2>1, <2>2, SubSeqFull
<1> QED BY <1>2, <1>3, <1>4, <1>5, <1>6

\* The types of the core have a header of two to four bytes.
LEMMA PacketShape ==
    ASSUME NEW p, WellFormed(p)
    PROVE  /\ p \in Seq(Bytes) /\ Len(p) \in Nat
           /\ \A i \in 1 .. Len(p) : p[i] \in Bytes
           /\ p[1] \in 2 .. 4 /\ Preamble(p) \in 2 .. 4 /\ Preamble(p) < Len(p)
<1>1. p \in Seq(Bytes) /\ Len(p) > 0
  BY DEF WellFormed
<1>2. /\ Len(p) \in Nat
      /\ \A i \in 1 .. Len(p) : p[i] \in Bytes
  BY <1>1, LenProperties
<1>3. p[1] \in 2 .. 4
  BY DEF WellFormed, HCI_ACL_DATA_PACKET, HCI_SCO_DATA_PACKET, HCI_EVENT_PACKET
<1>4. Preamble(p) \in 2 .. 4
  BY <1>3 DEF Preamble, hci_preamble_table
<1> QED BY <1>1, <1>2, <1>3, <1>4 DEF WellFormed

\* Where the parser is in a packet, by the parts of its state.
LEMMA Fitting ==
    ASSUME NEW p, WellFormed(p), NEW n \in 0 .. Len(p) - 1,
           NEW state, NEW type, NEW left, NEW bytes
    PROVE  PlaceFits(Pcb(state, type, left, bytes), p, n) <=>
             \/ n = 0 /\ state = "MSGTYPE"
             \/ /\ n >= 1 /\ type = p[1]
                /\ \/ /\ n <= Preamble(p) /\ state = "LEN"
                      /\ left = Preamble(p) + 1 - n /\ bytes = SubSeq(p, 2, n)
                   \/ /\ n > Preamble(p) /\ left = Len(p) - n
                      /\ \/ state = "DATA" /\ bytes = SubSeq(p, 2, n)
                         \/ state = "IGNORE" /\ p[1] = HCI_SCO_DATA_PACKET
<1> DEFINE h == Preamble(p)
           c == Pcb(state, type, left, bytes)
           y == SubSeq(p, 2, n)
<1>1. Len(p) \in Nat /\ n \in Nat /\ h \in 2 .. 4
  BY PacketShape
<1>2. c.state = state /\ c.type = type /\ c.left = left /\ c.bytes = bytes
  BY DEF Pcb
<1>3. Place(p, n) = IF n = 0 THEN [state |-> "MSGTYPE", left |-> 0]
                    ELSE IF n <= h THEN [state |-> "LEN", left |-> h + 1 - n]
                    ELSE [state |-> "DATA", left |-> Len(p) - n]
  <2> HIDE DEF h
  <2>1. hci_preamble_table[p[1]] = h
    BY DEF h, Preamble
  <2>2. n \in 1 .. h <=> n # 0 /\ n <= h
    BY <1>1
  <2> QED BY <1>1, <2>1, <2>2 DEF Place
<1> HIDE DEF h, c, y
<1>4. PlaceFits(c, p, n) <=>
        /\ state = Place(p, n).state \/ (state = "IGNORE" /\ Place(p, n).state = "DATA"
                                         /\ p[1] = HCI_SCO_DATA_PACKET)
        /\ n > 0 => type = p[1] /\ left = Place(p, n).left
        /\ n > 0 /\ state # "IGNORE" => bytes = y
  BY <1>2 DEF PlaceFits, y
<1>5. CASE n = 0
  <2>1. Place(p, n).state = "MSGTYPE"
    BY <1>3, <1>5
  <2> QED BY <1>1, <1>4, <1>5, <2>1 DEF h, c, y
<1>6. CASE n >= 1 /\ n <= h
  <2>1. Place(p, n).state = "LEN" /\ Place(p, n).left = h + 1 - n
    BY <1>1, <1>3, <1>6
  <2>2. PlaceFits(c, p, n) <=> state = "LEN" /\ type = p[1] /\ left = h + 1 - n /\ bytes = y
    BY <1>1, <1>4, <1>6, <2>1
  <2>3. n # 0 /\ n >= 1 /\ n <= h /\ ~(n > h)
    BY <1>1, <1>6
  <2> QED BY <2>2, <2>3 DEF h, c, y
<1>7. CASE n > h
  <2>1. Place(p, n).state = "DATA" /\ Place(p, n).left = Len(p) - n
    BY <1>1, <1>3, <1>7
  <2>2. PlaceFits(c, p, n) <=>
          /\ \/ state = "DATA" /\ bytes = y
             \/ state = "IGNORE" /\ p[1] = HCI_SCO_DATA_PACKET
          /\ type = p[1] /\ left = Len(p) - n
    BY <1>1, <1>4, <1>7, <2>1
  <2>3. n # 0 /\ n >= 1 /\ n > h /\ ~(n <= h)
    BY <1>1, <1>7
  <2> QED BY <2>2, <2>3 DEF h, c, y
<1> QED BY <1>1, <1>5, <1>6, <1>7

\* One round, by the parts of the parser's state.
LEMMA RoundParts ==
    ASSUME NEW state, NEW type, NEW left \in Int, NEW bytes, NEW e, NEW b, NEW scoBuffer,
           state = "MSGTYPE" => b \in 2 .. 4
    PROVE  LET s == Upto(Pcb(state, type, left, bytes), e)
               t == Upto(Pcb(state, type, left - 1, Append(bytes, b)), e)
               r == Round(s, b, scoBuffer)
           IN /\ state = "MSGTYPE" => r = Upto(Pcb("LEN", b, hci_preamble_table[b], << >>), e)
              /\ state = "LEN" /\ left > 1 => r = t
              /\ state = "LEN" /\ left <= 1
                   => r = WithLength(t, type # HCI_SCO_DATA_PACKET \/ scoBuffer)
              /\ state = "DATA" /\ left > 1 => r = t
              /\ state = "DATA" /\ left <= 1
                   => r = Upto(H4Start, Append(e, <<type>> \o Append(bytes, b)))
              /\ state = "IGNORE" /\ left > 1 => r = Upto(Pcb(state, type, left - 1, bytes), e)
              /\ state = "IGNORE" /\ left <= 1 => r = Upto(H4Start, Append(e, << >>))
<1> DEFINE s == Upto(Pcb(state, type, left, bytes), e)
           t == Upto(Pcb(state, type, left - 1, Append(bytes, b)), e)
           r == Round(s, b, scoBuffer)
<1>1. /\ s.wrong = FALSE /\ s.ended = e /\ s.pcb.state = state /\ s.pcb.type = type
      /\ s.pcb.left = left /\ s.pcb.bytes = bytes
  BY DEF Upto, Pcb
<1>2. t.pcb.left = left - 1 /\ t.ended = e /\ t.pcb.type = type /\ t.pcb.bytes = Append(bytes, b)
  BY DEF Upto, Pcb
<1>3. r = OneByte(s, b, scoBuffer)
  BY <1>1 DEF Round
<1>4. t = Upto(Pcb(s.pcb.state, s.pcb.type, s.pcb.left - 1, Append(s.pcb.bytes, b)), s.ended)
  BY <1>1
<1> HIDE DEF s, t, r
<1>5. r = CASE state = "MSGTYPE" -> Upto(Pcb("LEN", b, hci_preamble_table[b], << >>), e)
            [] state = "LEN" -> IF t.pcb.left > 0 THEN t
                                ELSE WithLength(t, type # HCI_SCO_DATA_PACKET \/ scoBuffer)
            [] state = "DATA" -> IF t.pcb.left > 0 THEN t ELSE End(t, TRUE)
            [] state = "IGNORE" -> IF t.pcb.left > 0 THEN Upto(Pcb(state, type, left - 1, bytes), e)
                                   ELSE End(s, FALSE)
  BY <1>1, <1>3, <1>4 DEF OneByte
<1>6. t.pcb.left > 0 <=> left > 1
  BY <1>2
<1>7. End(t, TRUE) = Upto(H4Start, Append(e, <<type>> \o Append(bytes, b)))
  BY <1>2 DEF End
<1>8. End(s, FALSE) = Upto(H4Start, Append(e, << >>))
  BY <1>1 DEF End
<1>9. left > 1 <=> ~(left <= 1)
  OBVIOUS
<1> HIDE DEF End
<1>10. /\ state = "MSGTYPE" => r = Upto(Pcb("LEN", b, hci_preamble_table[b], << >>), e)
       /\ state = "LEN" /\ left > 1 => r = t
       /\ state = "LEN" /\ left <= 1 => r = WithLength(t, type # HCI_SCO_DATA_PACKET \/ scoBuffer)
       /\ state = "DATA" /\ left > 1 => r = t
       /\ state = "DATA" /\ left <= 1 => r = End(t, TRUE)
       /\ state = "IGNORE" /\ left > 1 => r = Upto(Pcb(state, type, left - 1, bytes), e)
       /\ state = "IGNORE" /\ left <= 1 => r = End(s, FALSE)
  BY <1>5, <1>6, <1>9
<1> QED BY <1>7, <1>8, <1>10 DEF r, s, t
\* A byte of a packet moves the parser one place on; the last one ends the packet.
LEMMA ByteStep ==
    ASSUME NEW p, WellFormed(p), NEW s \in Parsing, NEW n \in 0 .. Len(p) - 1,
           PlaceFits(s.pcb, p, n), NEW scoBuffer \in BOOLEAN
    PROVE  LET t == Round(s, p[n + 1], scoBuffer)
           IN /\ t \in Parsing
              /\ n + 1 < Len(p) => t.ended = s.ended /\ PlaceFits(t.pcb, p, n + 1)
              /\ n + 1 = Len(p) =>
                   /\ t.pcb = H4Start
                   /\ \E x \in Seq(Bytes) : t.ended = Append(s.ended, x) /\ Arrives(x, p)
<1> DEFINE h == Preamble(p)
           b == p[n + 1]
           t == Round(s, b, scoBuffer)
<1> HIDE DEF h, b, t
<1>1. /\ p \in Seq(Bytes) /\ Len(p) \in Nat /\ n \in Nat /\ n + 1 \in 1 .. Len(p)
      /\ n + 1 <= Len(p) /\ b \in Bytes /\ h \in 2 .. 4 /\ h < Len(p) /\ p[1] \in 2 .. 4
  BY PacketShape DEF h, b
<1>2. PICK state \in {"MSGTYPE", "LEN", "DATA", "IGNORE"}, type \in Bytes, left \in Int,
           bytes \in Seq(Bytes), e \in Seq(Seq(Bytes)) : s = Upto(Pcb(state, type, left, bytes), e)
  <2>1. /\ s.pcb.state \in {"MSGTYPE", "LEN", "DATA", "IGNORE"} /\ s.pcb.type \in Bytes
        /\ s.pcb.left \in Int /\ s.pcb.bytes \in Seq(Bytes) /\ s.ended \in Seq(Seq(Bytes))
        /\ s = Upto(Pcb(s.pcb.state, s.pcb.type, s.pcb.left, s.pcb.bytes), s.ended)
    BY DEF Parsing, PcbType, Upto, Pcb
  <2> QED BY <2>1
<1>3. s.pcb = Pcb(state, type, left, bytes) /\ s.ended = e
  BY <1>2 DEF Upto
<1> DEFINE y == SubSeq(p, 2, n)
           z == SubSeq(p, 2, n + 1)
<1> HIDE DEF y, z
<1>4. \/ n = 0 /\ state = "MSGTYPE"
      \/ /\ n >= 1 /\ type = p[1]
         /\ \/ n <= h /\ state = "LEN" /\ left = h + 1 - n /\ bytes = y
            \/ /\ n > h /\ left = Len(p) - n
               /\ \/ state = "DATA" /\ bytes = y
                  \/ state = "IGNORE" /\ p[1] = HCI_SCO_DATA_PACKET
  BY <1>3, Fitting DEF h, y
<1>5. \A st \in {"MSGTYPE", "LEN", "DATA", "IGNORE"} : \A ty \in Bytes, le \in Int :
        \A by \in Seq(Bytes), q \in Seq(Seq(Bytes)) :
           /\ Upto(Pcb(st, ty, le, by), q) \in Parsing
           /\ Upto(Pcb(st, ty, le, by), q).pcb = Pcb(st, ty, le, by)
           /\ Upto(Pcb(st, ty, le, by), q).ended = q
  BY DEF Parsing, PcbType, Upto, Pcb
<1>6. << >> \in Seq(Bytes) /\ 0 \in Bytes
  BY EmptySeq DEF Bytes
\* A packet that ends
<1>7. ASSUME NEW x \in Seq(Bytes), t = Upto(H4Start, Append(e, x)), Arrives(x, p), n + 1 = Len(p)
      PROVE  /\ t \in Parsing /\ t.pcb = H4Start
             /\ \E w \in Seq(Bytes) : t.ended = Append(s.ended, w) /\ Arrives(w, p)
  <2>1. Append(e, x) \in Seq(Seq(Bytes))
    BY AppendProperties
  <2>2. \A q \in Seq(Seq(Bytes)) : /\ Upto(H4Start, q) \in Parsing
                                   /\ Upto(H4Start, q).pcb = H4Start /\ Upto(H4Start, q).ended = q
    <3>1. H4Start \in PcbType
      BY <1>6 DEF H4Start, Pcb, PcbType
    <3>2. \A c \in PcbType, q \in Seq(Seq(Bytes)) :
            Upto(c, q) \in Parsing /\ Upto(c, q).pcb = c /\ Upto(c, q).ended = q
      BY DEF Upto, Parsing
    <3> QED BY <3>1, <3>2
  <2>3. t \in Parsing /\ t.pcb = H4Start /\ t.ended = Append(e, x)
    BY <1>7, <2>1, <2>2
  <2> QED BY <1>3, <1>7, <2>3
\* A packet that goes on
<1>8. ASSUME n + 1 < Len(p), NEW st \in {"LEN", "DATA", "IGNORE"}, NEW le \in Int,
             NEW by \in Seq(Bytes), t = Upto(Pcb(st, p[1], le, by), e),
             \/ n + 1 <= h /\ st = "LEN" /\ le = h + 1 - (n + 1) /\ by = z
             \/ /\ n + 1 > h /\ le = Len(p) - (n + 1)
                /\ \/ st = "DATA" /\ by = z
                   \/ st = "IGNORE" /\ p[1] = HCI_SCO_DATA_PACKET
      PROVE  t \in Parsing /\ t.ended = s.ended /\ PlaceFits(t.pcb, p, n + 1)
  <2>1. p[1] \in Bytes
    BY <1>1 DEF Bytes
  <2>2. t \in Parsing /\ t.pcb = Pcb(st, p[1], le, by) /\ t.ended = e
    BY <1>5, <1>8, <2>1
  <2>3. n + 1 \in 0 .. Len(p) - 1 /\ n + 1 >= 1
    BY <1>1, <1>8
  <2>4. PlaceFits(Pcb(st, p[1], le, by), p, n + 1)
    BY <1>8, <2>3, Fitting DEF h, z
  <2> QED BY <1>3, <2>2, <2>4
<1>9. ASSUME n >= 1
      PROVE  /\ y \in Seq(Bytes) /\ z \in Seq(Bytes) /\ z = Append(y, b)
             /\ n + 1 = Len(p) => <<p[1]>> \o z = p
  <2>1. n \in 1 .. Len(p) /\ n < Len(p)
    BY <1>1, <1>9
  <2> QED BY <1>1, <2>1, BehindType DEF y, z, b
<1> DEFINE more == Upto(Pcb(state, type, left - 1, Append(bytes, b)), e)
<1> HIDE DEF more
<1>10. /\ state = "MSGTYPE" => t = Upto(Pcb("LEN", b, hci_preamble_table[b], << >>), e)
       /\ state = "LEN" /\ left > 1 => t = more
       /\ state = "LEN" /\ left <= 1
            => t = WithLength(more, type # HCI_SCO_DATA_PACKET \/ scoBuffer)
       /\ state = "DATA" /\ left > 1 => t = more
       /\ state = "DATA" /\ left <= 1
            => t = Upto(H4Start, Append(e, <<type>> \o Append(bytes, b)))
       /\ state = "IGNORE" /\ left > 1 => t = Upto(Pcb(state, type, left - 1, bytes), e)
       /\ state = "IGNORE" /\ left <= 1 => t = Upto(H4Start, Append(e, << >>))
  <2>1. state = "MSGTYPE" => b \in 2 .. 4
    BY <1>1, <1>4 DEF b
  <2> QED BY <1>2, <2>1, RoundParts DEF t, more
<1> DEFINE Goal == /\ t \in Parsing
                   /\ n + 1 < Len(p) => t.ended = s.ended /\ PlaceFits(t.pcb, p, n + 1)
                   /\ n + 1 = Len(p) =>
                        /\ t.pcb = H4Start
                        /\ \E x \in Seq(Bytes) : t.ended = Append(s.ended, x) /\ Arrives(x, p)
<1> SUFFICES Goal
  BY DEF t, b
<1>11. CASE state = "MSGTYPE"
  <2>1. n = 0
    BY <1>4, <1>11
  <2>2. b = p[1] /\ hci_preamble_table[b] = h
    BY <2>1 DEF Preamble, h, b
  <2>3. z = << >>
    BY <2>1, SubSeqEmpty DEF z
  <2>4. t = Upto(Pcb("LEN", p[1], h, z), e)
    BY <1>10, <1>11, <2>2, <2>3
  <2>5. n + 1 < Len(p) /\ n + 1 <= h /\ h = h + 1 - (n + 1) /\ h \in Int
    BY <1>1, <2>1
  <2>6. t \in Parsing /\ t.ended = s.ended /\ PlaceFits(t.pcb, p, n + 1)
    BY <1>6, <1>8, <2>3, <2>4, <2>5
  <2> QED BY <1>1, <2>5, <2>6
<1>12. CASE state = "LEN"
  <2>1. n >= 1 /\ n <= h /\ left = h + 1 - n /\ bytes = y /\ type = p[1]
    BY <1>4, <1>12
  <2>2. Append(bytes, b) = z /\ z \in Seq(Bytes)
    BY <1>9, <2>1
  <2>3. more = Upto(Pcb("LEN", p[1], left - 1, z), e)
    BY <1>12, <2>1, <2>2 DEF more
  <2>4. CASE n < h
    <3>1. left > 1 /\ n + 1 < Len(p) /\ n + 1 <= h /\ left - 1 = h + 1 - (n + 1) /\ left - 1 \in Int
      BY <1>1, <2>1, <2>4
    <3>2. t = Upto(Pcb("LEN", p[1], left - 1, z), e)
      BY <1>10, <1>12, <2>3, <3>1
    <3>3. t \in Parsing /\ t.ended = s.ended /\ PlaceFits(t.pcb, p, n + 1)
      BY <1>8, <2>2, <3>1, <3>2
    <3> QED BY <1>1, <3>1, <3>3
  <2>5. CASE n = h
    <3> DEFINE rest == Len(p) - (n + 1)
               buffer == p[1] # HCI_SCO_DATA_PACKET \/ scoBuffer
    <3> HIDE DEF rest, buffer
    <3>1. MsgLen(p[1], z) = rest
      <4>1. z \in Seq(Bytes) /\ Len(z) = h
        BY <1>1, <2>5, BehindType DEF z
      <4>2. \A i \in 1 .. h : z[i] \in Nat
        <5>1. \A i \in 1 .. h : z[i] \in Bytes
          BY <4>1, ElementOfSeq
        <5>2. \A x \in Bytes : x \in Nat
          BY DEF Bytes
        <5> QED BY <5>1, <5>2
      <4>3. p[1] = HCI_ACL_DATA_PACKET => h = 4
        BY DEF Preamble, hci_preamble_table, HCI_ACL_DATA_PACKET, h
      <4>4. MsgLen(p[1], z) \in Int
        BY <1>1, <4>1, <4>2, <4>3 DEF MsgLen
      <4>5. Len(p) = h + 1 + MsgLen(p[1], z)
        BY <2>5 DEF WellFormed, h, z
      <4> QED BY <1>1, <2>5, <4>4, <4>5 DEF rest
    <3>2. rest \in Nat /\ (rest = 0 <=> n + 1 = Len(p)) /\ (rest # 0 <=> n + 1 < Len(p))
      BY <1>1 DEF rest
    <3>3. t = WithLength(more, buffer)
      <4>1. left <= 1
        BY <1>1, <2>1, <2>5
      <4> QED BY <1>10, <1>12, <2>1, <4>1 DEF buffer
    <3>4. more.pcb.type = p[1] /\ more.pcb.bytes = z /\ more.ended = e
      BY <2>3 DEF Upto, Pcb
    <3>5. t = IF rest = 0 THEN End(more, buffer)
              ELSE Upto(Pcb(IF buffer THEN "DATA" ELSE "IGNORE", p[1], rest, z), e)
      BY <3>1, <3>3, <3>4 DEF WithLength
    <3>6. CASE rest = 0
      <4> DEFINE x == IF buffer THEN p ELSE << >>
      <4>1. <<p[1]>> \o z = p
        BY <1>9, <2>1, <3>2, <3>6
      <4>2. t = Upto(H4Start, Append(e, x))
        BY <3>4, <3>5, <3>6, <4>1 DEF End
      <4>3. x \in Seq(Bytes) /\ Arrives(x, p)
        BY <1>1, <1>6 DEF Arrives, buffer
      <4> HIDE DEF x
      <4> QED BY <1>7, <3>2, <3>6, <4>2, <4>3
    <3>7. CASE rest # 0
      <4> DEFINE st == IF buffer THEN "DATA" ELSE "IGNORE"
      <4>1. t = Upto(Pcb(st, p[1], rest, z), e)
        BY <3>5, <3>7
      <4>2. st \in {"LEN", "DATA", "IGNORE"} /\ (st = "DATA" \/ (st = "IGNORE" /\ p[1] = HCI_SCO_DATA_PACKET))
        BY DEF buffer
      <4>3. n + 1 < Len(p) /\ n + 1 > h /\ rest = Len(p) - (n + 1) /\ rest \in Int
        BY <1>1, <2>5, <3>2, <3>7 DEF rest
      <4> HIDE DEF st
      <4>4. t \in Parsing /\ t.ended = s.ended /\ PlaceFits(t.pcb, p, n + 1)
        BY <1>8, <2>2, <4>1, <4>2, <4>3
      <4> QED BY <1>1, <4>3, <4>4
    <3> QED BY <3>6, <3>7
  <2> QED BY <1>1, <2>1, <2>4, <2>5
<1>13. CASE state = "DATA"
  <2>1. n > h /\ n >= 1 /\ left = Len(p) - n /\ bytes = y /\ type = p[1]
    BY <1>4, <1>13
  <2>2. Append(bytes, b) = z /\ z \in Seq(Bytes)
    BY <1>9, <2>1
  <2>3. CASE n + 1 < Len(p)
    <3>1. left > 1 /\ n + 1 > h /\ left - 1 = Len(p) - (n + 1) /\ left - 1 \in Int
      BY <1>1, <2>1, <2>3
    <3>2. t = Upto(Pcb("DATA", p[1], left - 1, z), e)
      BY <1>10, <1>13, <2>1, <2>2, <3>1 DEF more
    <3>3. t \in Parsing /\ t.ended = s.ended /\ PlaceFits(t.pcb, p, n + 1)
      BY <1>8, <2>2, <2>3, <3>1, <3>2
    <3> QED BY <1>1, <2>3, <3>3
  <2>4. CASE n + 1 = Len(p)
    <3>1. left <= 1
      BY <1>1, <2>1, <2>4
    <3>2. t = Upto(H4Start, Append(e, p))
      BY <1>9, <1>10, <1>13, <2>1, <2>2, <2>4, <3>1
    <3> QED BY <1>1, <1>7, <2>4, <3>2 DEF Arrives
  <2> QED BY <1>1, <2>3, <2>4
<1>14. CASE state = "IGNORE"
  <2>1. n > h /\ n >= 1 /\ left = Len(p) - n /\ type = p[1] /\ p[1] = HCI_SCO_DATA_PACKET
    BY <1>4, <1>14
  <2>2. CASE n + 1 < Len(p)
    <3>1. left > 1 /\ n + 1 > h /\ left - 1 = Len(p) - (n + 1) /\ left - 1 \in Int
      BY <1>1, <2>1, <2>2
    <3>2. t = Upto(Pcb("IGNORE", p[1], left - 1, bytes), e)
      BY <1>10, <1>14, <2>1, <3>1
    <3>3. t \in Parsing /\ t.ended = s.ended /\ PlaceFits(t.pcb, p, n + 1)
      BY <1>8, <2>1, <2>2, <3>1, <3>2
    <3> QED BY <1>1, <2>2, <3>3
  <2>3. CASE n + 1 = Len(p)
    <3>1. left <= 1
      BY <1>1, <2>1, <2>3
    <3>2. t = Upto(H4Start, Append(e, << >>))
      BY <1>10, <1>14, <3>1
    <3>3. Arrives(<< >>, p)
      BY <2>1 DEF Arrives
    <3>4. /\ t \in Parsing /\ t.pcb = H4Start
          /\ \E w \in Seq(Bytes) : t.ended = Append(s.ended, w) /\ Arrives(w, p)
      BY <1>6, <1>7, <2>3, <3>2, <3>3
    <3> QED BY <1>1, <2>3, <3>4
  <2> QED BY <1>1, <2>2, <2>3
<1> QED BY <1>11, <1>12, <1>13, <1>14

(***************************************************************************)
(* The bytes of some packets                                               *)
(***************************************************************************)
\* One behind the other; a name of its own keeps the steps below small.
Plus(x, y) == x \o y

\* f joins the first n packets of q.
Joins(f, q, n) == f[0] = << >> /\ \A i \in 1 .. n : f[i] = Plus(f[i - 1], q[i])

LEMMA PlusProperties ==
    /\ \A x, y \in Seq(Bytes) : Plus(x, y) \in Seq(Bytes)
    /\ \A x, y, z \in Seq(Bytes) : Plus(Plus(x, y), z) = Plus(x, Plus(y, z))
    /\ \A x \in Seq(Bytes) : Plus(<< >>, x) = x /\ Plus(x, << >>) = x
<1>1. \A x, y \in Seq(Bytes) : x \o y \in Seq(Bytes)
  BY ConcatProperties
<1>2. \A x, y, z \in Seq(Bytes) : (x \o y) \o z = x \o (y \o z)
  BY ConcatAssociative
<1>3. \A x \in Seq(Bytes) : << >> \o x = x /\ x \o << >> = x
  BY ConcatEmptySeq
<1> QED BY <1>1, <1>2, <1>3, Zenon DEF Plus

\* What Joined adds up, packet by packet.
LEMMA JoinedParts ==
    ASSUME NEW q \in Seq(Seq(Bytes))
    PROVE  \E f \in [0 .. Len(q) -> Seq(Bytes)] :
             Joined(q) = f[Len(q)] /\ Joins(f, q, Len(q))
<1> DEFINE T == {m \in Nat : m <= Len(q) => \E g \in [0 .. m -> Seq(Bytes)] :
                    Joins(g, q, m)}
<1>1. Len(q) \in Nat /\ \A i \in 1 .. Len(q) : q[i] \in Seq(Bytes)
  BY LenProperties
<1>2. 0 \in T
  <2> DEFINE g == [i \in 0 .. 0 |-> << >>]
  <2>1. << >> \in Seq(Bytes)
    BY EmptySeq
  <2>2. g \in [0 .. 0 -> Seq(Bytes)] /\ g[0] = << >>
    BY <2>1
  <2> HIDE DEF g
  <2>3. \A i \in 1 .. 0 : g[i] = Plus(g[i - 1], q[i])
    OBVIOUS
  <2> QED BY <2>2, <2>3 DEF Joins
<1>3. ASSUME NEW m \in Nat, m \in T PROVE m + 1 \in T
  <2> SUFFICES ASSUME m + 1 <= Len(q)
               PROVE  \E g \in [0 .. m + 1 -> Seq(Bytes)] :
                        Joins(g, q, m + 1)
    OBVIOUS
  <2>1. PICK g \in [0 .. m -> Seq(Bytes)] : Joins(g, q, m)
    BY <1>1, <1>3
  <2> DEFINE z == Plus(g[m], q[m + 1])
             h == [i \in 0 .. m + 1 |-> IF i <= m THEN g[i] ELSE z]
  <2>2. z \in Seq(Bytes)
    <3>1. g[m] \in Seq(Bytes) /\ q[m + 1] \in Seq(Bytes)
      BY <1>1
    <3> QED BY <3>1, PlusProperties
  <2> HIDE DEF z
  <2>3. h \in [0 .. m + 1 -> Seq(Bytes)] /\ h[m + 1] = z /\ \A i \in 0 .. m : h[i] = g[i]
    BY <2>2
  <2> HIDE DEF h
  <2>4. ASSUME NEW i \in 1 .. m + 1 PROVE h[i] = Plus(h[i - 1], q[i])
    <3>1. CASE i <= m
      <4>1. i \in 1 .. m /\ i \in 0 .. m /\ i - 1 \in 0 .. m
        BY <3>1
      <4>2. h[i] = g[i] /\ h[i - 1] = g[i - 1]
        BY <2>3, <4>1
      <4> QED BY <2>1, <4>1, <4>2 DEF Joins
    <3>2. CASE i = m + 1
      <4>1. i - 1 = m /\ m \in 0 .. m
        BY <3>2
      <4>2. h[i] = z /\ h[i - 1] = g[m]
        BY <2>3, <3>2, <4>1
      <4> QED BY <3>2, <4>2 DEF z
    <3> QED BY <3>1, <3>2
  <2>5. h[0] = << >>
    BY <2>1, <2>3 DEF Joins
  <2> QED BY <2>3, <2>4, <2>5 DEF Joins
<1> HIDE DEF T
<1>4. Len(q) \in T
  BY <1>1, <1>2, <1>3, AllNumbers
<1>5. PICK g \in [0 .. Len(q) -> Seq(Bytes)] : Joins(g, q, Len(q))
  BY <1>1, <1>4 DEF T
<1> DEFINE Is(f) == f = [n \in 0 .. Len(q) |-> IF n = 0 THEN << >> ELSE Plus(f[n - 1], q[n])]
           first == CHOOSE f : Is(f)
<1>6. Is(g)
  BY <1>1, <1>5 DEF Joins
<1>7. Is(first)
  <2> HIDE DEF Is
  <2> QED BY <1>6
<1>8. Joined(q) = first[Len(q)]
  BY DEF Joined, Plus
<1> HIDE DEF first
<1>9. first[0] = << >> /\ \A i \in 1 .. Len(q) : first[i] = Plus(first[i - 1], q[i])
  BY <1>1, <1>7
<1> DEFINE U == {m \in Nat : m <= Len(q) => first[m] \in Seq(Bytes)}
<1>10. 0 \in U
  BY <1>9, EmptySeq
<1>11. ASSUME NEW m \in Nat, m \in U PROVE m + 1 \in U
  <2> SUFFICES ASSUME m + 1 <= Len(q) PROVE first[m + 1] \in Seq(Bytes)
    OBVIOUS
  <2>1. m + 1 \in 1 .. Len(q) /\ m + 1 - 1 = m /\ first[m] \in Seq(Bytes)
    BY <1>1, <1>11
  <2>2. first[m + 1] = Plus(first[m], q[m + 1])
    BY <1>9, <2>1
  <2>3. Plus(first[m], q[m + 1]) \in Seq(Bytes)
    BY <1>1, <2>1, PlusProperties
  <2> QED BY <2>2, <2>3
<1> HIDE DEF U
<1>12. \A m \in Nat : m \in U
  BY <1>10, <1>11, AllNumbers
<1>13. first \in [0 .. Len(q) -> Seq(Bytes)]
  <2>1. \A m \in 0 .. Len(q) : first[m] \in Seq(Bytes)
    BY <1>1, <1>12 DEF U
  <2> QED BY <1>7, <2>1
<1> HIDE DEF Is
<1> QED BY <1>8, <1>9, <1>13 DEF Joins

LEMMA JoinedType ==
    ASSUME NEW q \in Seq(Seq(Bytes))
    PROVE  /\ Joined(q) \in Seq(Bytes)
           /\ q = << >> => Joined(q) = << >>
<1>1. PICK f \in [0 .. Len(q) -> Seq(Bytes)] : Joined(q) = f[Len(q)] /\ f[0] = << >>
  BY JoinedParts DEF Joins
<1>2. Len(q) \in Nat /\ (q = << >> => Len(q) = 0)
  BY LenProperties, EmptySeq
<1> QED BY <1>1, <1>2

\* A packet more is joined to the end.
LEMMA JoinedAppend ==
    ASSUME NEW q \in Seq(Seq(Bytes)), NEW p \in Seq(Bytes)
    PROVE  Joined(Append(q, p)) = Plus(Joined(q), p)
<1> DEFINE r == Append(q, p)
<1>1. /\ r \in Seq(Seq(Bytes)) /\ Len(r) = Len(q) + 1 /\ Len(q) \in Nat
      /\ r[Len(q) + 1] = p /\ \A i \in 1 .. Len(q) : r[i] = q[i]
  BY AppendProperties, LenProperties
<1> HIDE DEF r
<1>2. PICK f \in [0 .. Len(r) -> Seq(Bytes)] :
             Joined(r) = f[Len(r)] /\ Joins(f, r, Len(r))
  BY <1>1, JoinedParts
<1>3. PICK g \in [0 .. Len(q) -> Seq(Bytes)] :
             Joined(q) = g[Len(q)] /\ Joins(g, q, Len(q))
  BY JoinedParts
<1> DEFINE T == {m \in Nat : m <= Len(q) => f[m] = g[m]}
<1>4. 0 \in T
  BY <1>2, <1>3 DEF Joins
<1>5. ASSUME NEW m \in Nat, m \in T PROVE m + 1 \in T
  <2> SUFFICES ASSUME m + 1 <= Len(q) PROVE f[m + 1] = g[m + 1]
    OBVIOUS
  <2>1. m + 1 \in 1 .. Len(q) /\ m + 1 \in 1 .. Len(r) /\ m + 1 - 1 = m /\ f[m] = g[m]
    BY <1>1, <1>5
  <2>2. f[m + 1] = Plus(f[m], r[m + 1]) /\ g[m + 1] = Plus(g[m], q[m + 1])
    BY <1>2, <1>3, <2>1 DEF Joins
  <2>3. r[m + 1] = q[m + 1]
    BY <1>1, <2>1
  <2> QED BY <2>1, <2>2, <2>3
<1> HIDE DEF T
<1>6. f[Len(q)] = g[Len(q)]
  <2>1. Len(q) \in T
    BY <1>1, <1>4, <1>5, AllNumbers
  <2> QED BY <1>1, <2>1 DEF T
<1>7. f[Len(q) + 1] = Plus(f[Len(q)], p)
  <2>1. Len(q) + 1 \in 1 .. Len(r) /\ Len(q) + 1 - 1 = Len(q)
    BY <1>1
  <2>2. f[Len(q) + 1] = Plus(f[Len(q) + 1 - 1], r[Len(q) + 1])
    BY <1>2, <2>1 DEF Joins
  <2> QED BY <1>1, <2>1, <2>2
<1> QED BY <1>1, <1>2, <1>3, <1>6, <1>7 DEF r

\* The first packet is in front of the others.
LEMMA JoinedHead ==
    ASSUME NEW q \in Seq(Seq(Bytes)), q # << >>
    PROVE  Joined(q) = Plus(Head(q), Joined(Tail(q)))
<1> DEFINE r == Tail(q)
           p == Head(q)
<1>1. /\ r \in Seq(Seq(Bytes)) /\ p \in Seq(Bytes) /\ p = q[1]
      /\ Len(q) \in Nat /\ Len(r) \in Nat /\ Len(q) = Len(r) + 1
      /\ \A i \in 1 .. Len(r) : r[i] = q[i + 1] /\ r[i] \in Seq(Bytes)
  <2>1. r \in Seq(Seq(Bytes)) /\ p \in Seq(Bytes) /\ Len(r) = Len(q) - 1
        /\ \A i \in 1 .. Len(r) : r[i] = q[i + 1]
    BY HeadTailProperties
  <2>2. Len(q) \in Nat /\ Len(r) \in Nat /\ \A i \in 1 .. Len(r) : r[i] \in Seq(Bytes)
    BY <2>1, LenProperties
  <2>3. p = q[1]
    OBVIOUS
  <2> HIDE DEF r, p
  <2> QED BY <2>1, <2>2, <2>3
<1> HIDE DEF r, p
<1>2. PICK f \in [0 .. Len(q) -> Seq(Bytes)] :
             Joined(q) = f[Len(q)] /\ Joins(f, q, Len(q))
  BY JoinedParts
<1>3. PICK g \in [0 .. Len(r) -> Seq(Bytes)] :
             Joined(r) = g[Len(r)] /\ Joins(g, r, Len(r))
  BY <1>1, JoinedParts
<1> DEFINE T == {m \in Nat : m <= Len(r) => f[m + 1] = Plus(p, g[m])}
<1>4. 0 \in T
  <2>1. 1 \in 1 .. Len(q) /\ 1 - 1 = 0 /\ 0 + 1 = 1
    BY <1>1
  <2>2. f[1] = Plus(<< >>, p)
    BY <1>1, <1>2, <2>1 DEF Joins
  <2>3. Plus(<< >>, p) = p /\ Plus(p, << >>) = p
    BY <1>1, PlusProperties
  <2> QED BY <1>3, <2>1, <2>2, <2>3 DEF Joins
<1>5. ASSUME NEW m \in Nat, m \in T PROVE m + 1 \in T
  <2> SUFFICES ASSUME m + 1 <= Len(r) PROVE f[m + 1 + 1] = Plus(p, g[m + 1])
    OBVIOUS
  <2>0. m \in 0 .. Len(r) /\ m <= Len(r)
    BY <1>1
  <2>1. /\ m + 1 \in 1 .. Len(r) /\ m + 1 + 1 \in 1 .. Len(q) /\ m + 1 - 1 = m /\ m + 1 + 1 - 1 = m + 1
        /\ f[m + 1] = Plus(p, g[m]) /\ g[m] \in Seq(Bytes)
    <3>1. f[m + 1] = Plus(p, g[m])
      BY <1>5, <2>0
    <3>2. g[m] \in Seq(Bytes)
      BY <2>0
    <3> QED BY <1>1, <3>1, <3>2
  <2>2. f[m + 1 + 1] = Plus(f[m + 1], q[m + 1 + 1]) /\ g[m + 1] = Plus(g[m], r[m + 1])
    BY <1>2, <1>3, <2>1 DEF Joins
  <2>3. r[m + 1] = q[m + 1 + 1] /\ r[m + 1] \in Seq(Bytes)
    BY <1>1, <2>1
  <2>4. Plus(Plus(p, g[m]), r[m + 1]) = Plus(p, Plus(g[m], r[m + 1]))
    BY <1>1, <2>1, <2>3, PlusProperties
  <2> QED BY <2>1, <2>2, <2>3, <2>4
<1> HIDE DEF T
<1>6. f[Len(r) + 1] = Plus(p, g[Len(r)])
  <2>1. Len(r) \in T
    BY <1>1, <1>4, <1>5, AllNumbers
  <2> QED BY <1>1, <2>1 DEF T
<1> QED BY <1>1, <1>2, <1>3, <1>6 DEF r, p

(***************************************************************************)
(* A message                                                               *)
(***************************************************************************)
\* A round of the loop for every byte.
Loops(f, pcb, buf, n, scoBuffers) ==
    /\ f[0] = Upto(pcb, << >>)
    /\ \A i \in 1 .. n : f[i] = Round(f[i - 1], buf[i], Finds(f[i - 1], scoBuffers))

LEMMA RoundsParts ==
    ASSUME NEW pcb, NEW buf \in Seq(Bytes), NEW scoBuffers
    PROVE  Loops(Rounds(pcb, buf, scoBuffers), pcb, buf, Len(buf), scoBuffers)
<1> DEFINE T == {m \in Nat : m <= Len(buf) =>
                    \E g : DOMAIN g = 0 .. m /\ Loops(g, pcb, buf, m, scoBuffers)}
<1>1. Len(buf) \in Nat
  BY LenProperties
<1>2. 0 \in T
  <2> DEFINE g == [i \in 0 .. 0 |-> Upto(pcb, << >>)]
  <2>1. DOMAIN g = 0 .. 0 /\ g[0] = Upto(pcb, << >>)
    OBVIOUS
  <2> HIDE DEF g
  <2>2. Loops(g, pcb, buf, 0, scoBuffers)
    BY <2>1 DEF Loops
  <2> QED BY <2>1, <2>2
<1>3. ASSUME NEW m \in Nat, m \in T PROVE m + 1 \in T
  <2> SUFFICES ASSUME m + 1 <= Len(buf)
               PROVE  \E g : DOMAIN g = 0 .. m + 1 /\ Loops(g, pcb, buf, m + 1, scoBuffers)
    OBVIOUS
  <2>1. PICK g : DOMAIN g = 0 .. m /\ Loops(g, pcb, buf, m, scoBuffers)
    BY <1>1, <1>3
  <2> DEFINE z == Round(g[m], buf[m + 1], Finds(g[m], scoBuffers))
             h == [i \in 0 .. m + 1 |-> IF i <= m THEN g[i] ELSE z]
  <2> HIDE DEF z
  <2>2. DOMAIN h = 0 .. m + 1 /\ h[m + 1] = z /\ \A i \in 0 .. m : h[i] = g[i]
    OBVIOUS
  <2> HIDE DEF h
  <2>3. ASSUME NEW i \in 1 .. m + 1 PROVE h[i] = Round(h[i - 1], buf[i], Finds(h[i - 1], scoBuffers))
    <3>1. CASE i <= m
      <4>1. i \in 1 .. m /\ i \in 0 .. m /\ i - 1 \in 0 .. m
        BY <3>1
      <4>2. h[i] = g[i] /\ h[i - 1] = g[i - 1]
        BY <2>2, <4>1
      <4> QED BY <2>1, <4>1, <4>2 DEF Loops
    <3>2. CASE i = m + 1
      <4>1. i - 1 = m /\ m \in 0 .. m
        BY <3>2
      <4>2. h[i] = z /\ h[i - 1] = g[m]
        BY <2>2, <3>2, <4>1
      <4> QED BY <3>2, <4>2 DEF z
    <3> QED BY <3>1, <3>2
  <2>4. h[0] = Upto(pcb, << >>)
    BY <2>1, <2>2 DEF Loops
  <2> QED BY <2>2, <2>3, <2>4 DEF Loops
<1> HIDE DEF T
<1>4. Len(buf) \in T
  BY <1>1, <1>2, <1>3, AllNumbers
<1>5. PICK g : DOMAIN g = 0 .. Len(buf) /\ Loops(g, pcb, buf, Len(buf), scoBuffers)
  BY <1>1, <1>4 DEF T
<1> DEFINE k == [n \in 0 .. Len(buf) |-> IF n = 0 THEN Upto(pcb, << >>)
                                         ELSE Round(g[n - 1], buf[n], Finds(g[n - 1], scoBuffers))]
           Is(f) == f = [n \in 0 .. Len(buf) |-> IF n = 0 THEN Upto(pcb, << >>)
                                                 ELSE Round(f[n - 1], buf[n], Finds(f[n - 1], scoBuffers))]
           after == CHOOSE f : Is(f)
<1>6. Is(k)
  <2>1. \A n \in 0 .. Len(buf) : k[n] = g[n]
    BY <1>1, <1>5 DEF Loops
  <2> DEFINE l == [n \in 0 .. Len(buf) |-> IF n = 0 THEN Upto(pcb, << >>)
                                           ELSE Round(k[n - 1], buf[n], Finds(k[n - 1], scoBuffers))]
  <2>2. \A n \in 0 .. Len(buf) : n # 0 => k[n - 1] = g[n - 1]
    <3> HIDE DEF k
    <3>1. \A n \in 0 .. Len(buf) : n # 0 => n - 1 \in 0 .. Len(buf)
      BY <1>1
    <3> QED BY <2>1, <3>1
  <2>3. \A n \in 0 .. Len(buf) : l[n] = k[n]
    BY <2>2
  <2>4. l = k
    BY <2>3
  <2> QED BY <2>4
<1>7. Is(after)
  <2> HIDE DEF Is, k
  <2> QED BY <1>6
<1>8. Rounds(pcb, buf, scoBuffers) = after
  BY DEF Rounds
<1> HIDE DEF after
<1>9. Loops(after, pcb, buf, Len(buf), scoBuffers)
  BY <1>1, <1>7 DEF Loops
<1> QED BY <1>8, <1>9

\* The parser is inside the first of these packets, or at its start, after bytes u of it.
Fits(pcb, q, u) ==
    IF q = << >> THEN pcb.state = "MSGTYPE" /\ u = << >>
    ELSE Len(u) < Len(Head(q)) /\ PlaceFits(pcb, Head(q), Len(u))

\* r is what is left of these packets, seen from the parser.
Owes(pcb, q, r) == \E u \in Seq(Bytes) : Joined(q) = Plus(u, r) /\ Fits(pcb, q, u)

\* The parser at the start of a packet fits whatever comes.
LEMMA StartFits ==
    ASSUME NEW q \in Seq(Packets), NEW c, c.state = "MSGTYPE"
    PROVE  Fits(c, q, << >>)
<1>1. CASE q = << >>
  BY <1>1 DEF Fits
<1>2. CASE q # << >>
  <2>1. WellFormed(Head(q))
    BY <1>2, HeadTailProperties, PacketsWellFormed
  <2>2. Len(Head(q)) \in Nat /\ Len(Head(q)) > 0
    BY <2>1, PacketShape DEF WellFormed
  <2>3. Len(<< >>) = 0
    BY EmptySeq
  <2>4. Place(Head(q), 0).state = "MSGTYPE"
    BY DEF Place
  <2>5. PlaceFits(c, Head(q), 0)
    BY <2>4 DEF PlaceFits
  <2> QED BY <1>2, <2>2, <2>3, <2>5 DEF Fits
<1> QED BY <1>1, <1>2

LEMMA PacketSeqs == ASSUME NEW q \in Seq(Packets) PROVE q \in Seq(Seq(Bytes))
<1>1. Packets \subseteq Seq(Bytes)
  BY PacketsWellFormed DEF WellFormed
<1> QED BY <1>1, SeqMonotonic

\* The beginnings of a list that has two.
LEMMA Split ==
    ASSUME NEW p \in Seq(Bytes), NEW j \in Seq(Bytes), NEW u \in Seq(Bytes), NEW b \in Bytes,
           NEW r \in Seq(Bytes), Plus(p, j) = Plus(u, Plus(<<b>>, r)), Len(u) < Len(p)
    PROVE  /\ b = p[Len(u) + 1] /\ Append(u, b) \in Seq(Bytes)
           /\ Plus(p, j) = Plus(Append(u, b), r) /\ Len(Append(u, b)) = Len(u) + 1
           /\ Len(u) + 1 = Len(p) => j = r
<1> DEFINE v == Append(u, b)
           a == Plus(p, j)
<1>1. Len(p) \in Nat /\ Len(j) \in Nat /\ Len(u) \in Nat /\ Len(r) \in Nat
  BY LenProperties
<1>2. /\ v \in Seq(Bytes) /\ Len(v) = Len(u) + 1 /\ v[Len(u) + 1] = b /\ v = Plus(u, <<b>>)
  BY AppendProperties, AppendIsConcat DEF Plus
<1>3. <<b>> \in Seq(Bytes)
  OBVIOUS
<1>4. Plus(u, Plus(<<b>>, r)) = Plus(Plus(u, <<b>>), r)
  BY <1>3, PlusProperties, ZenonT(60)
<1>5. a = Plus(v, r)
  BY <1>2, <1>4
<1> HIDE DEF v
<1>6. /\ Len(Plus(v, r)) = Len(v) + Len(r)
      /\ \A i \in 1 .. Len(v) + Len(r) : Plus(v, r)[i] = IF i <= Len(v) THEN v[i] ELSE r[i - Len(v)]
  BY <1>2, ConcatProperties DEF Plus
<1>7. /\ Len(a) = Len(p) + Len(j)
      /\ \A i \in 1 .. Len(p) + Len(j) : a[i] = IF i <= Len(p) THEN p[i] ELSE j[i - Len(p)]
  BY ConcatProperties DEF Plus
<1> HIDE DEF a
<1>8. /\ Len(a) = Len(v) + Len(r)
      /\ \A i \in 1 .. Len(v) + Len(r) : a[i] = IF i <= Len(v) THEN v[i] ELSE r[i - Len(v)]
  BY <1>5, <1>6
<1>9. b = p[Len(u) + 1]
  <2>1. Len(u) + 1 \in 1 .. Len(p) + Len(j) /\ Len(u) + 1 <= Len(p)
    BY <1>1
  <2>2. Len(u) + 1 \in 1 .. Len(v) + Len(r) /\ Len(u) + 1 <= Len(v)
    BY <1>1, <1>2
  <2>3. a[Len(u) + 1] = p[Len(u) + 1]
    BY <1>7, <2>1
  <2>4. a[Len(u) + 1] = v[Len(u) + 1]
    BY <1>8, <2>2
  <2> QED BY <1>2, <2>3, <2>4
<1>10. ASSUME Len(u) + 1 = Len(p) PROVE j = r
  <2>1. Len(j) = Len(r)
    BY <1>1, <1>2, <1>7, <1>8, <1>10
  <2>2. ASSUME NEW i \in 1 .. Len(j) PROVE j[i] = r[i]
    <3>1. /\ i + Len(p) \in 1 .. Len(p) + Len(j) /\ ~(i + Len(p) <= Len(p)) /\ i + Len(p) - Len(p) = i
          /\ i + Len(p) \in 1 .. Len(v) + Len(r) /\ Len(v) = Len(p)
      BY <1>1, <1>2, <1>10, <2>1
    <3>2. a[i + Len(p)] = j[i]
      BY <1>7, <3>1
    <3>3. a[i + Len(p)] = r[i]
      BY <1>8, <3>1
    <3> QED BY <3>2, <3>3
  <2> QED BY <2>1, <2>2, SeqEqual
<1> QED BY <1>2, <1>5, <1>9, <1>10 DEF v, a

\* A byte of what is left is read, and a packet may end with it.
LEMMA OneRound ==
    ASSUME NEW q \in Seq(Packets), NEW s \in Parsing, NEW b \in Bytes, NEW r \in Seq(Bytes),
           NEW scoBuffer \in BOOLEAN, Owes(s.pcb, q, Plus(<<b>>, r))
    PROVE  LET t == Round(s, b, scoBuffer)
           IN /\ t \in Parsing /\ q # << >>
              /\ \/ t.ended = s.ended /\ Owes(t.pcb, q, r)
                 \/ /\ \E x \in Seq(Bytes) : t.ended = Append(s.ended, x) /\ Arrives(x, Head(q))
                    /\ Owes(t.pcb, Tail(q), r)
<1> DEFINE p == Head(q)
           j == Joined(Tail(q))
           t == Round(s, b, scoBuffer)
<1>1. PICK u \in Seq(Bytes) : Joined(q) = Plus(u, Plus(<<b>>, r)) /\ Fits(s.pcb, q, u)
  BY DEF Owes
<1>2. q # << >>
  <2>1. ASSUME q = << >> PROVE FALSE
    <3>1. Joined(q) = << >>
      BY <2>1, PacketSeqs, JoinedType
    <3>2. /\ <<b>> \in Seq(Bytes) /\ Len(<<b>>) = 1
      OBVIOUS
    <3>3. Plus(<<b>>, r) \in Seq(Bytes) /\ Len(Plus(<<b>>, r)) = 1 + Len(r)
      BY <3>2, ConcatProperties DEF Plus
    <3>4. Len(Plus(u, Plus(<<b>>, r))) = Len(u) + Len(Plus(<<b>>, r))
      BY <3>3, ConcatProperties DEF Plus
    <3>5. Len(u) \in Nat /\ Len(r) \in Nat /\ Len(<< >>) = 0
      BY LenProperties, EmptySeq
    <3>6. Len(Joined(q)) = Len(u) + (1 + Len(r))
      BY <1>1, <3>3, <3>4
    <3>7. Len(Joined(q)) = 0
      BY <3>1, <3>5
    <3>8. \A m, n \in Nat : m + (1 + n) # 0
      OBVIOUS
    <3> QED BY <3>5, <3>6, <3>7, <3>8
  <2> QED BY <2>1
<1>3. /\ WellFormed(p) /\ p \in Seq(Bytes) /\ Tail(q) \in Seq(Packets) /\ j \in Seq(Bytes)
      /\ Joined(q) = Plus(p, j)
  <2>1. p \in Packets /\ Tail(q) \in Seq(Packets)
    BY <1>2, HeadTailProperties
  <2>2. q \in Seq(Seq(Bytes)) /\ Tail(q) \in Seq(Seq(Bytes))
    BY <2>1, PacketSeqs
  <2>3. j \in Seq(Bytes)
    BY <2>2, JoinedType
  <2>4. Joined(q) = Plus(p, j)
    BY <1>2, <2>2, JoinedHead
  <2> QED BY <2>1, <2>3, <2>4, PacketsWellFormed DEF WellFormed
<1>4. Len(u) < Len(p) /\ PlaceFits(s.pcb, p, Len(u))
  BY <1>1, <1>2 DEF Fits
<1>5. /\ b = p[Len(u) + 1] /\ Append(u, b) \in Seq(Bytes)
      /\ Plus(p, j) = Plus(Append(u, b), r) /\ Len(Append(u, b)) = Len(u) + 1
      /\ Len(u) + 1 = Len(p) => j = r
  <2> HIDE DEF p, j
  <2>1. Plus(p, j) = Plus(u, Plus(<<b>>, r))
    BY <1>1, <1>3
  <2>2. p \in Seq(Bytes) /\ j \in Seq(Bytes)
    BY <1>3
  <2> QED BY <1>4, <2>1, <2>2, Split
<1> HIDE DEF p, j
<1>6. Len(u) \in 0 .. Len(p) - 1 /\ Len(p) \in Nat
  BY <1>3, <1>4, LenProperties
<1>7. /\ t \in Parsing
      /\ Len(u) + 1 < Len(p) => t.ended = s.ended /\ PlaceFits(t.pcb, p, Len(u) + 1)
      /\ Len(u) + 1 = Len(p) =>
           /\ t.pcb = H4Start
           /\ \E x \in Seq(Bytes) : t.ended = Append(s.ended, x) /\ Arrives(x, p)
  BY <1>3, <1>4, <1>5, <1>6, ByteStep, ZenonT(60)
<1> HIDE DEF t
<1>8. CASE Len(u) + 1 < Len(p)
  <2> DEFINE v == Append(u, b)
  <2>1. v \in Seq(Bytes) /\ Joined(q) = Plus(v, r) /\ Len(v) = Len(u) + 1
    BY <1>3, <1>5
  <2> HIDE DEF v
  <2>2. Fits(t.pcb, q, v)
    BY <1>2, <1>7, <1>8, <2>1 DEF Fits, p
  <2>3. Owes(t.pcb, q, r)
    BY <2>1, <2>2 DEF Owes
  <2> QED BY <1>2, <1>7, <1>8, <2>3 DEF t
<1>9. CASE Len(u) + 1 = Len(p)
  <2>1. Joined(Tail(q)) = Plus(<< >>, r) /\ << >> \in Seq(Bytes)
    BY <1>5, <1>9, PlusProperties, EmptySeq DEF j
  <2>2. t.pcb.state = "MSGTYPE"
    BY <1>7, <1>9 DEF H4Start, Pcb
  <2>3. Fits(t.pcb, Tail(q), << >>)
    BY <1>3, <2>2, StartFits
  <2>4. Owes(t.pcb, Tail(q), r)
    BY <2>1, <2>3 DEF Owes
  <2> QED BY <1>2, <1>7, <1>9, <2>4 DEF t, p
<1> QED BY <1>6, <1>8, <1>9

\* The packets behind the first k.
Rest(q, k) == SubSeq(q, k + 1, Len(q))

LEMMA RestParts ==
    ASSUME NEW q \in Seq(Packets), NEW k \in 0 .. Len(q)
    PROVE  /\ Rest(q, k) \in Seq(Packets)
           /\ k = 0 => Rest(q, k) = q
           /\ Rest(q, k) # << >> => /\ k + 1 \in 1 .. Len(q) /\ Head(Rest(q, k)) = q[k + 1]
                                    /\ Tail(Rest(q, k)) = Rest(q, k + 1)
<1>1. Len(q) \in Nat /\ k \in Nat /\ \A i \in 1 .. Len(q) : q[i] \in Packets
  BY LenProperties
<1>2. Rest(q, k) \in Seq(Packets)
  <2>1. \A i \in k + 1 .. Len(q) : q[i] \in Packets
    BY <1>1
  <2> QED BY <1>1, <2>1, SubSeqProperties DEF Rest
<1>3. k = 0 => Rest(q, k) = q
  BY SubSeqFull DEF Rest
<1>4. ASSUME Rest(q, k) # << >>
      PROVE  /\ k + 1 \in 1 .. Len(q) /\ Head(Rest(q, k)) = q[k + 1]
             /\ Tail(Rest(q, k)) = Rest(q, k + 1)
  <2>1. k # Len(q)
    <3>1. ASSUME k = Len(q) PROVE FALSE
      <4>1. Len(q) < k + 1 /\ k + 1 \in Int /\ Len(q) \in Int
        BY <1>1, <3>1
      <4>2. SubSeq(q, k + 1, Len(q)) = << >>
        BY <4>1, SubSeqEmpty
      <4> QED BY <1>4, <4>2 DEF Rest
    <3> QED BY <3>1
  <2>2. k + 1 \in 1 .. Len(q) /\ Len(q) \in k + 1 .. Len(q)
    BY <1>1, <2>1
  <2>3. Head(SubSeq(q, k + 1, Len(q))) = q[k + 1] /\ Tail(SubSeq(q, k + 1, Len(q))) = SubSeq(q, k + 1 + 1, Len(q))
    BY <2>2, HeadTailOfSubSeq
  <2> QED BY <2>2, <2>3 DEF Rest
<1> QED BY <1>2, <1>3, <1>4

\* The packets that ended are the first of q.
Ended(s, q) ==
    /\ s \in Parsing /\ Len(s.ended) \in 0 .. Len(q)
    /\ \A i \in 1 .. Len(s.ended) : Arrives(s.ended[i], q[i])

\* However a message begins and ends, the parser reads it all, and the packets
\* that end in it are the first that are owed.
LEMMA MessageStep ==
    ASSUME NEW q \in Seq(Packets), NEW pcb \in PcbType, NEW buf \in Seq(Bytes), NEW r \in Seq(Bytes),
           NEW scoBuffers, Owes(pcb, q, Plus(buf, r))
    PROVE  LET res == hci_h4_receive_msg(pcb, buf, scoBuffers)
           IN /\ res.pcb \in PcbType /\ res.used = Len(buf)
              /\ Len(res.ended) \in 0 .. Len(q)
              /\ \A i \in 1 .. Len(res.ended) : Arrives(res.ended[i], q[i])
              /\ Owes(res.pcb, Rest(q, Len(res.ended)), r)
<1> DEFINE f == Rounds(pcb, buf, scoBuffers)
           todo(n) == SubSeq(buf, n + 1, Len(buf))
           T == {n \in Nat : n <= Len(buf) =>
                   /\ Ended(f[n], q)
                   /\ Owes(f[n].pcb, Rest(q, Len(f[n].ended)), Plus(todo(n), r))}
<1>1. Len(buf) \in Nat /\ Len(q) \in Nat /\ \A i \in 1 .. Len(buf) : buf[i] \in Bytes
  BY LenProperties
<1>2. Loops(f, pcb, buf, Len(buf), scoBuffers)
  BY RoundsParts
<1> HIDE DEF f
<1>3. 0 \in T
  <2>1. f[0] = Upto(pcb, << >>)
    BY <1>2 DEF Loops
  <2>2. f[0].pcb = pcb /\ f[0].ended = << >> /\ f[0] \in Parsing
    <3>1. << >> \in Seq(Seq(Bytes))
      BY EmptySeq
    <3> QED BY <2>1, <3>1 DEF Upto, Parsing
  <2>3. Len(<< >>) = 0
    BY EmptySeq
  <2>4. Ended(f[0], q)
    BY <1>1, <2>2, <2>3 DEF Ended
  <2>5. Rest(q, 0) = q
    BY <1>1, RestParts
  <2>6. todo(0) = buf
    BY SubSeqFull
  <2> HIDE DEF todo
  <2> QED BY <2>2, <2>3, <2>4, <2>5, <2>6
<1>4. ASSUME NEW n \in Nat, n \in T PROVE n + 1 \in T
  <2> SUFFICES ASSUME n + 1 <= Len(buf)
               PROVE  /\ Ended(f[n + 1], q)
                      /\ Owes(f[n + 1].pcb, Rest(q, Len(f[n + 1].ended)), Plus(todo(n + 1), r))
    OBVIOUS
  <2> DEFINE s == f[n]
             t == f[n + 1]
             b == buf[n + 1]
             k == Len(s.ended)
             w == Rest(q, k)
             x == Plus(todo(n + 1), r)
  <2>1. /\ Ended(s, q) /\ Owes(s.pcb, w, Plus(todo(n), r))
    BY <1>1, <1>4
  <2>2. n + 1 \in 1 .. Len(buf) /\ n + 1 - 1 = n /\ Len(buf) \in n + 1 .. Len(buf) /\ b \in Bytes
    BY <1>1
  <2>3. t = Round(s, b, Finds(s, scoBuffers)) /\ Finds(s, scoBuffers) \in BOOLEAN
    BY <1>2, <2>2 DEF Loops, Finds
  <2>4. todo(n + 1) \in Seq(Bytes)
    <3>1. \A i \in n + 1 + 1 .. Len(buf) : buf[i] \in Bytes
      BY <1>1
    <3> QED BY <1>1, <3>1, SubSeqProperties
  <2>5. todo(n) = Plus(<<b>>, todo(n + 1))
    BY <2>2, SubSeqRecursiveFirst DEF Plus
  <2>6. <<b>> \in Seq(Bytes)
    BY <2>2
  <2> HIDE DEF todo, s, t, b
  <2>7. Plus(todo(n), r) = Plus(<<b>>, x) /\ x \in Seq(Bytes)
    <3> DEFINE one == <<b>>
               rest == todo(n + 1)
    <3>1. one \in Seq(Bytes) /\ rest \in Seq(Bytes) /\ todo(n) = Plus(one, rest) /\ x = Plus(rest, r)
      BY <2>4, <2>5, <2>6
    <3> HIDE DEF one, rest, x
    <3>2. Plus(todo(n), r) = Plus(one, x) /\ x \in Seq(Bytes)
      BY <3>1, PlusProperties
    <3> QED BY <3>2 DEF one
  <2> HIDE DEF x
  <2>8. k \in 0 .. Len(q) /\ s \in Parsing /\ s.ended \in Seq(Seq(Bytes))
    BY <2>1 DEF Ended, Parsing
  <2>9. w \in Seq(Packets) /\ (k = 0 => w = q)
        /\ (w # << >> => k + 1 \in 1 .. Len(q) /\ Head(w) = q[k + 1] /\ Tail(w) = Rest(q, k + 1))
    BY <2>8, RestParts
  <2> HIDE DEF w, k
  <2>10. /\ t \in Parsing /\ w # << >>
         /\ \/ t.ended = s.ended /\ Owes(t.pcb, w, x)
            \/ /\ \E y \in Seq(Bytes) : t.ended = Append(s.ended, y) /\ Arrives(y, Head(w))
               /\ Owes(t.pcb, Tail(w), x)
    <3>1. Owes(s.pcb, w, Plus(<<b>>, x))
      BY <2>1, <2>7
    <3>2. b \in Bytes /\ x \in Seq(Bytes) /\ s \in Parsing /\ w \in Seq(Packets)
      BY <2>2, <2>7, <2>8, <2>9
    <3> QED BY <2>3, <3>1, <3>2, OneRound
  <2>11. CASE t.ended = s.ended /\ Owes(t.pcb, w, x)
    <3>1. Ended(t, q)
      BY <2>1, <2>10, <2>11 DEF Ended
    <3>2. Owes(t.pcb, Rest(q, Len(t.ended)), x)
      BY <2>11 DEF w, k
    <3> QED BY <3>1, <3>2 DEF t, x
  <2>12. CASE /\ \E y \in Seq(Bytes) : t.ended = Append(s.ended, y) /\ Arrives(y, Head(w))
              /\ Owes(t.pcb, Tail(w), x)
    <3>1. PICK y \in Seq(Bytes) : t.ended = Append(s.ended, y) /\ Arrives(y, Head(w))
      BY <2>12
    <3>2. /\ Len(t.ended) = k + 1 /\ t.ended[k + 1] = y
          /\ \A i \in 1 .. k : t.ended[i] = s.ended[i]
      BY <2>8, <3>1, AppendProperties DEF k
    <3>3. k + 1 \in 1 .. Len(q) /\ Head(w) = q[k + 1] /\ Tail(w) = Rest(q, k + 1)
      BY <2>9, <2>10
    <3>4. Arrives(t.ended[k + 1], q[k + 1])
      BY <3>1, <3>2, <3>3
    <3>5. \A i \in 1 .. k : Arrives(t.ended[i], q[i])
      BY <2>1, <3>2 DEF Ended, k
    <3>6. \A i \in 1 .. k + 1 : i = k + 1 \/ i \in 1 .. k
      BY <2>8
    <3>7. \A i \in 1 .. k + 1 : Arrives(t.ended[i], q[i])
      BY <3>4, <3>5, <3>6
    <3>8. Ended(t, q)
      <4>1. k + 1 \in 0 .. Len(q)
        BY <1>1, <3>3
      <4> QED BY <2>10, <3>2, <3>7, <4>1 DEF Ended
    <3>9. Owes(t.pcb, Rest(q, Len(t.ended)), x)
      BY <2>12, <3>2, <3>3
    <3> QED BY <3>8, <3>9 DEF t, x
  <2> QED BY <2>10, <2>11, <2>12
<1>5. Len(buf) \in T
  <2> HIDE DEF T
  <2> QED BY <1>1, <1>3, <1>4, AllNumbers
<1> DEFINE l == f[Len(buf)]
<1>6. Ended(l, q) /\ Owes(l.pcb, Rest(q, Len(l.ended)), r)
  <2>1. Ended(l, q) /\ Owes(l.pcb, Rest(q, Len(l.ended)), Plus(todo(Len(buf)), r))
    BY <1>1, <1>5
  <2>2. todo(Len(buf)) = << >>
    <3>1. Len(buf) < Len(buf) + 1 /\ Len(buf) + 1 \in Int /\ Len(buf) \in Int
      BY <1>1
    <3> QED BY <3>1, SubSeqEmpty
  <2> HIDE DEF todo
  <2>3. Plus(<< >>, r) = r
    BY PlusProperties
  <2> QED BY <2>1, <2>2, <2>3
<1> DEFINE res == hci_h4_receive_msg(pcb, buf, scoBuffers)
<1>7. res = [pcb |-> l.pcb, ended |-> l.ended, used |-> IF l.wrong THEN 0 ELSE Len(buf)]
  BY DEF hci_h4_receive_msg, f
<1> HIDE DEF l, res
<1>8. l.wrong = FALSE /\ l.pcb \in PcbType
  BY <1>6 DEF Ended, Parsing
<1>9. res.pcb = l.pcb /\ res.ended = l.ended /\ res.used = Len(buf)
  BY <1>7, <1>8
<1>10. /\ res.pcb \in PcbType /\ res.used = Len(buf)
       /\ Len(res.ended) \in 0 .. Len(q)
       /\ \A i \in 1 .. Len(res.ended) : Arrives(res.ended[i], q[i])
       /\ Owes(res.pcb, Rest(q, Len(res.ended)), r)
  BY <1>6, <1>8, <1>9 DEF Ended
<1> QED BY <1>10 DEF res

(***************************************************************************)
(* BesbtThread, the interrupt and the core                                 *)
(***************************************************************************)
Finishing == thread \in {"read", "cleared"}

\* A message of the core: none, shown, taken, read by the thread, or cleared.
Stage ==
    \/ /\ ~shown /\ ~rx_ind /\ intersys_rx_queue = 0 /\ ~intersys_rx_buf
       /\ recv_msg_list = << >> /\ ~Finishing
    \/ shown /\ rx_ind /\ intersys_rx_queue = 0 /\ ~intersys_rx_buf /\ ~Finishing
    \/ shown /\ ~rx_ind /\ intersys_rx_queue = 1 /\ intersys_rx_buf /\ ~Finishing
    \/ shown /\ ~rx_ind /\ intersys_rx_queue = 0 /\ intersys_rx_buf /\ thread = "read"
    \/ shown /\ ~rx_ind /\ intersys_rx_queue = 0 /\ ~intersys_rx_buf /\ thread = "cleared"

HciInv ==
    /\ h4_pcb \in PcbType /\ recv_msg_list \in Seq(Bytes) /\ out \in Seq(Bytes) /\ owed \in Seq(Packets)
    /\ used_all /\ Stage /\ Owes(h4_pcb, owed, Remaining)

\* What InOrder says of a step
Whole ==
    /\ used_all'
    /\ thread = "poll" /\ thread' = "read" => \A i \in 1 .. Len(indicated') :
         \/ indicated'[i] = owed[i]
         \/ indicated'[i] = << >> /\ owed[i][1] = HCI_SCO_DATA_PACKET

LEMMA HciInitHolds == Init => HciInv
<1> SUFFICES ASSUME Init PROVE HciInv
  OBVIOUS
<1>1. << >> \in Seq(Bytes) /\ << >> \in Seq(Packets) /\ << >> \in Seq(Seq(Bytes))
  BY EmptySeq
<1>2. H4Start \in PcbType
  BY <1>1 DEF H4Start, Pcb, PcbType, Bytes
<1>3. Stage
  BY DEF Init, Stage, Finishing
<1>4. Remaining = << >>
  BY <1>1, PlusProperties DEF Init, Remaining, Plus
<1>5. Fits(H4Start, << >>, << >>)
  BY DEF Fits, H4Start, Pcb
<1>6. Joined(<< >>) = Plus(<< >>, << >>)
  BY <1>1, JoinedType, PlusProperties
<1> QED BY <1>1, <1>2, <1>3, <1>4, <1>5, <1>6 DEF Init, HciInv, Owes

\* Steps that leave the message, the parser and the core alone.
LEMMA OtherSteps ==
    ASSUME HciInv, UNCHANGED <<recvVars, coreVars>>, thread' = thread \/ (~Finishing /\ ~Finishing')
    PROVE  HciInv' /\ Whole
<1>1. /\ rx_ind' = rx_ind /\ recv_msg_list' = recv_msg_list /\ intersys_rx_queue' = intersys_rx_queue
      /\ intersys_rx_buf' = intersys_rx_buf /\ h4_pcb' = h4_pcb /\ used_all' = used_all
      /\ indicated' = indicated /\ shown' = shown /\ out' = out /\ owed' = owed
  BY DEF recvVars, coreVars
<1>2. Remaining' = Remaining
  BY <1>1 DEF Remaining
<1>3. Owes(h4_pcb, owed, Remaining)'
  BY <1>1, <1>2 DEF HciInv, Owes, Fits
<1>4. Stage'
  BY <1>1 DEF HciInv, Stage, Finishing
<1>5. Whole
  BY <1>1 DEF HciInv, Whole, Finishing
<1> QED BY <1>1, <1>3, <1>4, <1>5 DEF HciInv

\* The thread gives a message to the parser.
LEMMA PollStep ==
    ASSUME HciInv, Poll
    PROVE  HciInv' /\ Whole
<1>1. /\ shown /\ ~rx_ind /\ intersys_rx_queue = 1 /\ intersys_rx_buf
      /\ recv_msg_list \in Seq(Bytes) /\ out \in Seq(Bytes)
  BY DEF HciInv, Stage, Poll, Finishing
<1>2. PICK scoBuffers :
         LET r == hci_h4_receive_msg(h4_pcb, recv_msg_list, scoBuffers)
         IN /\ h4_pcb' = r.pcb /\ indicated' = r.ended
            /\ used_all' = (r.used = Len(recv_msg_list))
            /\ owed' = SubSeq(owed, Len(r.ended) + 1, Len(owed))
  BY <1>1 DEF Poll
<1> DEFINE r == hci_h4_receive_msg(h4_pcb, recv_msg_list, scoBuffers)
<1>3. Owes(h4_pcb, owed, Plus(recv_msg_list, out))
  <2>1. Remaining = Plus(recv_msg_list, out)
    BY <1>1 DEF Remaining, Plus
  <2> QED BY <2>1 DEF HciInv
<1>4. /\ r.pcb \in PcbType /\ r.used = Len(recv_msg_list)
      /\ Len(r.ended) \in 0 .. Len(owed)
      /\ \A i \in 1 .. Len(r.ended) : Arrives(r.ended[i], owed[i])
      /\ Owes(r.pcb, Rest(owed, Len(r.ended)), out)
  BY <1>1, <1>3, MessageStep DEF HciInv
<1> HIDE DEF r
<1>5. /\ h4_pcb' = r.pcb /\ indicated' = r.ended /\ used_all'
      /\ owed' = Rest(owed, Len(r.ended))
  BY <1>2, <1>4 DEF r, Rest
<1>6. /\ thread' = "read" /\ rx_ind' = FALSE /\ recv_msg_list' = recv_msg_list
      /\ intersys_rx_buf' = TRUE /\ intersys_rx_queue' = 0 /\ shown' = TRUE /\ out' = out
  BY <1>1 DEF Poll
<1>7. Remaining' = out
  <2>1. Remaining' = Plus(<< >>, out)
    BY <1>6 DEF Remaining, Plus
  <2> QED BY <1>1, <2>1, PlusProperties
<1>8. owed' \in Seq(Packets)
  BY <1>4, <1>5, RestParts DEF HciInv
<1>9. Owes(h4_pcb, owed, Remaining)'
  <2>1. Owes(h4_pcb', owed', Remaining')
    BY <1>4, <1>5, <1>7
  <2> QED BY <2>1 DEF Owes, Fits
<1>10. Stage'
  BY <1>6 DEF Stage
<1>11. Whole
  BY <1>4, <1>5 DEF Whole, Arrives
<1> QED BY <1>1, <1>4, <1>5, <1>6, <1>8, <1>9, <1>10, <1>11 DEF HciInv

\* The thread ends with a message.
LEMMA PollEndsStep ==
    ASSUME HciInv, PollEnds
    PROVE  HciInv' /\ Whole
<1>1. /\ rx_ind' = rx_ind /\ intersys_rx_queue' = intersys_rx_queue /\ h4_pcb' = h4_pcb
      /\ used_all' = used_all /\ out' = out /\ owed' = owed /\ ~rx_ind /\ intersys_rx_queue = 0
  BY DEF PollEnds, Finish, HciInv, Stage, Finishing
<1>2. recv_msg_list' \in Seq(Bytes)
  BY EmptySeq DEF PollEnds, Finish, Clear, Tell, HciInv
<1>3. Stage' /\ thread' # "read"
  BY DEF PollEnds, Finish, Clear, Tell, HciInv, Stage, Finishing
<1>4. Remaining' = Remaining
  <2>1. ~(rx_ind \/ intersys_rx_queue > 0) /\ ~(rx_ind' \/ intersys_rx_queue' > 0)
    BY <1>1
  <2> QED BY <1>1, <2>1 DEF Remaining
<1>5. Owes(h4_pcb, owed, Remaining)'
  BY <1>1, <1>4 DEF HciInv, Owes, Fits
<1>6. Whole
  BY <1>1, <1>3 DEF HciInv, Whole
<1> QED BY <1>1, <1>2, <1>3, <1>5, <1>6 DEF HciInv

\* bt_rx takes a message.
LEMMA RxIrqStep ==
    ASSUME HciInv, RxIrq
    PROVE  HciInv' /\ Whole
<1>1. /\ rx_ind /\ intersys_rx_queue = 0 /\ shown /\ ~Finishing
  BY DEF RxIrq, HciInv, Stage
<1>2. /\ rx_ind' = FALSE /\ intersys_rx_queue' = 1 /\ intersys_rx_buf' = TRUE
      /\ recv_msg_list' = recv_msg_list /\ h4_pcb' = h4_pcb /\ used_all' = used_all
      /\ shown' = shown /\ out' = out /\ owed' = owed /\ thread' = thread
  BY <1>1 DEF RxIrq, Take, coreVars
<1>3. Stage'
  BY <1>1, <1>2 DEF Stage, Finishing
<1>4. Remaining' = Remaining
  <2>1. (rx_ind \/ intersys_rx_queue > 0) /\ (rx_ind' \/ intersys_rx_queue' > 0)
    BY <1>1, <1>2
  <2> QED BY <1>2, <2>1 DEF Remaining
<1>5. Owes(h4_pcb, owed, Remaining)'
  BY <1>2, <1>4 DEF HciInv, Owes, Fits
<1>6. Whole
  BY <1>1, <1>2 DEF HciInv, Whole, Finishing
<1> QED BY <1>2, <1>3, <1>5, <1>6 DEF HciInv

\* The core shows the first k of the bytes it has.
LEMMA CoreShowsStep ==
    ASSUME HciInv, NEW k \in 1 .. Len(out), CoreShows(k)
    PROVE  HciInv' /\ Whole
<1>1. ~shown /\ ~rx_ind /\ intersys_rx_queue = 0 /\ ~intersys_rx_buf /\ ~Finishing
  BY DEF CoreShows, HciInv, Stage
<1>2. /\ rx_ind' = TRUE /\ shown' = TRUE /\ intersys_rx_queue' = 0 /\ intersys_rx_buf' = FALSE
      /\ recv_msg_list' = SubSeq(out, 1, k) /\ out' = SubSeq(out, k + 1, Len(out))
      /\ h4_pcb' = h4_pcb /\ used_all' = used_all /\ owed' = owed /\ thread' = thread
  BY <1>1 DEF CoreShows, threadVars
<1>3. out \in Seq(Bytes) /\ Len(out) \in Nat /\ \A i \in 1 .. Len(out) : out[i] \in Bytes
  BY LenProperties DEF HciInv
<1>4. SubSeq(out, 1, k) \in Seq(Bytes) /\ SubSeq(out, k + 1, Len(out)) \in Seq(Bytes)
  <2>1. (\A i \in 1 .. k : out[i] \in Bytes) /\ (\A i \in k + 1 .. Len(out) : out[i] \in Bytes)
    BY <1>3
  <2> QED BY <1>3, <2>1, SubSeqProperties
<1>5. Remaining' = Remaining
  <2>1. Remaining = out
    <3>1. Remaining = Plus(<< >>, out)
      BY <1>1 DEF Remaining, Plus
    <3> QED BY <1>3, <3>1, PlusProperties
  <2>2. SubSeq(out, 1, k) \o SubSeq(out, k + 1, Len(out)) = SubSeq(out, 1, Len(out))
    <3>1. 1 \in 1 .. Len(out) + 1 /\ k \in 1 - 1 .. Len(out) /\ Len(out) \in k .. Len(out)
      BY <1>3
    <3> QED BY <1>3, <3>1, ConcatAdjacentSubSeq
  <2>3. SubSeq(out, 1, Len(out)) = out
    BY <1>3, SubSeqFull
  <2>4. Remaining' = recv_msg_list' \o out'
    BY <1>2 DEF Remaining
  <2> QED BY <1>2, <2>1, <2>2, <2>3, <2>4
<1>6. Stage'
  BY <1>1, <1>2 DEF Stage, Finishing
<1>7. Owes(h4_pcb, owed, Remaining)'
  BY <1>2, <1>5 DEF HciInv, Owes, Fits
<1>8. Whole
  BY <1>1, <1>2 DEF HciInv, Whole, Finishing
<1> QED BY <1>2, <1>4, <1>6, <1>7, <1>8 DEF HciInv

\* The core has another packet.
LEMMA CoreSendsStep ==
    ASSUME HciInv, NEW p \in Packets, CoreSends(p)
    PROVE  HciInv' /\ Whole
<1>1. /\ rx_ind' = rx_ind /\ recv_msg_list' = recv_msg_list /\ intersys_rx_queue' = intersys_rx_queue
      /\ intersys_rx_buf' = intersys_rx_buf /\ h4_pcb' = h4_pcb /\ used_all' = used_all
      /\ shown' = shown /\ thread' = thread
      /\ owed' = Append(owed, p) /\ out' = Plus(out, p)
  BY DEF CoreSends, recvVars, threadVars, Plus
<1> DEFINE m == IF rx_ind \/ intersys_rx_queue > 0 THEN recv_msg_list ELSE << >>
           q == Append(owed, p)
<1>2. /\ out \in Seq(Bytes) /\ p \in Seq(Bytes) /\ m \in Seq(Bytes)
      /\ owed \in Seq(Packets) /\ q \in Seq(Packets)
  <2>1. p \in Seq(Bytes)
    BY PacketsWellFormed DEF WellFormed
  <2> QED BY <2>1, EmptySeq, AppendProperties DEF HciInv
<1>3. Remaining = Plus(m, out) /\ Remaining' = Plus(m, Plus(out, p))
  BY <1>1 DEF Remaining, Plus
<1>4. PICK u \in Seq(Bytes) : Joined(owed) = Plus(u, Remaining) /\ Fits(h4_pcb, owed, u)
  BY DEF HciInv, Owes
<1> HIDE DEF m, q
<1>5. Remaining' = Plus(Remaining, p) /\ Remaining \in Seq(Bytes)
  BY <1>2, <1>3, PlusProperties
<1>6. Joined(q) = Plus(u, Plus(Remaining, p))
  <2>1. Joined(q) = Plus(Joined(owed), p)
    BY <1>2, PacketSeqs, JoinedAppend DEF q
  <2>2. Plus(Plus(u, Remaining), p) = Plus(u, Plus(Remaining, p))
    BY <1>2, <1>5, PlusProperties
  <2> QED BY <1>4, <2>1, <2>2
<1>7. Fits(h4_pcb, q, u)
  <2>1. CASE owed = << >>
    <3>1. u = << >> /\ h4_pcb.state = "MSGTYPE"
      BY <1>4, <2>1 DEF Fits
    <3> QED BY <1>2, <3>1, StartFits
  <2>2. CASE owed # << >>
    <3>1. Head(q) = Head(owed) /\ q # << >>
      BY <1>2, <2>2, HeadTailAppend, AppendProperties, SMTT(30) DEF q
    <3> QED BY <1>4, <2>2, <3>1 DEF Fits
  <2> QED BY <2>1, <2>2
<1>8. Owes(h4_pcb, owed, Remaining)'
  <2>1. Owes(h4_pcb, q, Plus(Remaining, p))
    BY <1>6, <1>7 DEF Owes
  <2>2. h4_pcb' = h4_pcb /\ owed' = q /\ Remaining' = Plus(Remaining, p)
    BY <1>1, <1>5 DEF q
  <2> QED BY <2>1, <2>2 DEF Owes, Fits
<1>9. Stage'
  BY <1>1 DEF HciInv, Stage, Finishing
<1>10. Whole
  BY <1>1 DEF HciInv, Whole
<1>11. out' \in Seq(Bytes) /\ owed' \in Seq(Packets)
  BY <1>1, <1>2, PlusProperties DEF q
<1> QED BY <1>1, <1>8, <1>9, <1>10, <1>11 DEF HciInv

LEMMA HciStep == HciInv /\ [Next]_hciVars => HciInv' /\ [Whole]_hciVars
<1> SUFFICES ASSUME HciInv, [Next]_hciVars PROVE HciInv' /\ Whole
  OBVIOUS
<1>1. CASE \/ Notify \/ Wake \/ Sending \/ Sent \/ EvmReturns \/ PollNothing \/ SignalIrq \/ CoreReads
  <2>1. UNCHANGED <<recvVars, coreVars>>
    BY <1>1 DEF Notify, Wake, Sending, Sent, EvmReturns, PollNothing, SignalIrq, CoreReads
  <2>2. thread' = thread \/ (~Finishing /\ ~Finishing')
    BY <1>1 DEF Notify, Wake, Sending, SendData, Sent, EvmReturns, PollNothing, SignalIrq, CoreReads,
                threadVars, Finishing
  <2> QED BY <2>1, <2>2, OtherSteps
<1>2. CASE UNCHANGED hciVars
  <2>1. UNCHANGED <<recvVars, coreVars>> /\ thread' = thread
    BY <1>2 DEF hciVars, threadVars
  <2> QED BY <2>1, OtherSteps
<1> QED BY <1>1, <1>2, PollStep, PollEndsStep, RxIrqStep, CoreSendsStep, CoreShowsStep DEF Next

\* What the invariant says of the bytes is what InStep says.
LEMMA HciInStep == HciInv => InStep
<1> SUFFICES ASSUME HciInv PROVE InStep
  OBVIOUS
<1> DEFINE all == Joined(owed)
           r == Remaining
           n == Len(all) - Len(r)
<1>1. PICK u \in Seq(Bytes) : all = Plus(u, r) /\ Fits(h4_pcb, owed, u)
  BY DEF HciInv, Owes
<1>2. r \in Seq(Bytes)
  BY EmptySeq, ConcatProperties DEF HciInv, Remaining
<1> HIDE DEF r
<1>3. /\ Len(all) = Len(u) + Len(r)
      /\ \A i \in 1 .. Len(u) + Len(r) : all[i] = IF i <= Len(u) THEN u[i] ELSE r[i - Len(u)]
  BY <1>1, <1>2, ConcatProperties DEF Plus
<1>4. Len(u) \in Nat /\ Len(r) \in Nat /\ \A i \in 1 .. Len(r) : r[i] \in Bytes
  BY <1>2, LenProperties
<1> HIDE DEF all
<1>5. n = Len(u) /\ n >= 0
  BY <1>3, <1>4
<1>6. r = SubSeq(all, n + 1, Len(all))
  <2> DEFINE w == SubSeq(all, n + 1, Len(all))
  <2>1. \A i \in n + 1 .. Len(all) : all[i] \in Bytes
    BY <1>3, <1>4, <1>5
  <2>2. /\ w \in Seq(Bytes) /\ Len(w) = IF n + 1 <= Len(all) THEN Len(all) - (n + 1) + 1 ELSE 0
        /\ \A i \in 1 .. Len(all) - (n + 1) + 1 : w[i] = all[n + 1 + i - 1]
    BY <1>3, <1>4, <1>5, <2>1, SubSeqProperties
  <2> HIDE DEF w
  <2>3. Len(w) = Len(r)
    BY <1>3, <1>4, <1>5, <2>2
  <2>4. \A i \in 1 .. Len(r) : r[i] = w[i]
    <3> SUFFICES ASSUME NEW i \in 1 .. Len(r) PROVE r[i] = w[i]
      OBVIOUS
    <3>1. /\ i \in 1 .. Len(all) - (n + 1) + 1 /\ n + 1 + i - 1 = Len(u) + i
          /\ Len(u) + i \in 1 .. Len(u) + Len(r) /\ ~(Len(u) + i <= Len(u)) /\ Len(u) + i - Len(u) = i
      BY <1>3, <1>4, <1>5
    <3>2. w[i] = all[Len(u) + i]
      BY <2>2, <3>1
    <3> QED BY <1>3, <3>1, <3>2
  <2> QED BY <1>2, <2>2, <2>3, <2>4, SeqEqual DEF w
<1>7. IF owed = << >> THEN h4_pcb.state = "MSGTYPE"
      ELSE n < Len(Head(owed)) /\ PlaceFits(h4_pcb, Head(owed), n)
  BY <1>1, <1>5 DEF Fits
<1> QED BY <1>5, <1>6, <1>7 DEF InStep, all, r

\* However the core cuts its packets into messages and whenever its interrupts
\* come, no byte is lost or read twice, and the parser is where it should be.
THEOREM ParserInStep == Spec => []InStep
<1>1. Init => HciInv
  BY HciInitHolds
<1>2. HciInv /\ [Next]_hciVars => HciInv'
  BY HciStep
<1>3. HciInv => InStep
  BY HciInStep
<1> QED BY <1>1, <1>2, <1>3, PTL DEF Spec

\* Every packet reaches the stack, whole and in order, but for SCO data that
\* found no buffer; and the parser leaves nothing of a message.
THEOREM PacketsArrive == Spec => InOrder
<1>1. Init => HciInv
  BY HciInitHolds
<1>2. HciInv /\ [Next]_hciVars => HciInv' /\ [Whole]_hciVars
  BY HciStep
<1>3. Spec => [][Whole]_hciVars
  BY <1>1, <1>2, PTL DEF Spec
<1> QED BY <1>3 DEF InOrder, Whole

(***************************************************************************)
(* The channel as BesbtThread uses it                                      *)
(***************************************************************************)
LEMMA ChannelStep ==
    hci_senddata_buf \in Messages /\ [Next]_hciVars
      => hci_senddata_buf' \in Messages /\ [SendNext]_sendVars
<1> SUFFICES ASSUME hci_senddata_buf \in Messages, [Next]_hciVars
             PROVE  hci_senddata_buf' \in Messages /\ (SendNext \/ UNCHANGED sendVars)
  OBVIOUS
<1>1. ID0 \in Ids
  BY IdsAssumption DEF ID0
<1>2. CASE Sending
  <2>1. hci_senddata_buf' \in Messages
    BY <1>2 DEF Sending, SendData
  <2>2. Send(ID0, hci_senddata_buf) \/ UNCHANGED sendVars
    BY <1>2 DEF Sending, SendData, Transmit
  <2> QED BY <1>1, <2>1, <2>2 DEF SendNext
<1>3. CASE SignalIrq
  BY <1>1, <1>3 DEF SignalIrq, SendNext
<1>4. CASE CoreReads
  BY <1>1, <1>4 DEF CoreReads, Core, SendNext, threadVars
<1>5. CASE Notify \/ Wake \/ Sent \/ EvmReturns \/ PollNothing
  BY <1>5 DEF Notify, Wake, Sent, EvmReturns, PollNothing
<1>6. CASE Poll \/ PollEnds \/ RxIrq
  BY <1>6 DEF Poll, PollEnds, RxIrq
<1>7. CASE (\E p \in Packets : CoreSends(p)) \/ (\E k \in 1 .. Len(out) : CoreShows(k))
  BY <1>7 DEF CoreSends, CoreShows, threadVars
<1>8. CASE UNCHANGED hciVars
  BY <1>8 DEF hciVars, threadVars
<1> QED BY <1>2, <1>3, <1>4, <1>5, <1>6, <1>7, <1>8 DEF Next

\* BesbtThread and the interrupts only use a channel as IntersysSend lets it be
\* used, so that all that is proved of it there holds of it here: each packet of
\* the stack is read by the core once, in order, as it was sent.
THEOREM ChannelUsed ==
    Spec => []RecordsAccounted /\ []AwakeWhileSending /\ ChannelsKept
<1> DEFINE J == IInv /\ hci_senddata_buf \in Messages
<1>1. Init => J /\ \A id \in Ids : Promise(id)!Init
  BY QuietHolds DEF Init
<1>2. J /\ [Next]_hciVars
        => J' /\ [\A id \in Ids : Promise(id)!Next \/ UNCHANGED <<Unread(id), got[id]>>]_sendVars
  BY ChannelStep, StepImplements
<1>3. J => RecordsAccounted /\ AwakeWhileSending
  BY AccountedHolds, LockHolds
<1> QED BY <1>1, <1>2, <1>3, PTL DEF Spec, ChannelsKept
=============================================================================
