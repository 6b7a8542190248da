----------------------------- MODULE ListLemmas -----------------------------
(***************************************************************************)
(* What the operations of Lists do to a list in which nothing is linked    *)
(* twice, and induction over its length.  The library's induction theorems *)
(* take an operator; LeastNumber takes a set, which the provers can        *)
(* instantiate, and the others follow from it.                             *)
(***************************************************************************)
EXTENDS Lists, SequenceTheorems, WellFoundedInduction, TLAPS

\* What is behind the k-th element.
LEMMA RestElements ==
    ASSUME NEW S, NEW s \in Seq(S), NEW k \in 1 .. Len(s)
    PROVE  /\ SubSeq(s, k + 1, Len(s)) \in Seq(S)
           /\ Len(SubSeq(s, k + 1, Len(s))) = Len(s) - k
           /\ \A i \in 1 .. Len(s) - k : SubSeq(s, k + 1, Len(s))[i] = s[k + i]
<1>1. /\ Len(s) \in Nat
      /\ \A i \in 1 .. Len(s) : s[i] \in S
  BY LenProperties
<1>2. /\ SubSeq(s, k + 1, Len(s)) \in Seq(S)
      /\ Len(SubSeq(s, k + 1, Len(s))) =
            IF k + 1 <= Len(s) THEN Len(s) - (k + 1) + 1 ELSE 0
      /\ \A i \in 1 .. Len(s) - (k + 1) + 1 :
            SubSeq(s, k + 1, Len(s))[i] = s[(k + 1) + i - 1]
  BY <1>1, SubSeqProperties
<1> QED BY <1>1, <1>2

\* What is left without the k-th element: those before it, and those behind it
\* one place further forward.
LEMMA WithoutElements ==
    ASSUME NEW S, NEW s \in Seq(S), NEW k \in 1 .. Len(s)
    PROVE  /\ Without(s, k) \in Seq(S) /\ Len(Without(s, k)) = Len(s) - 1
           /\ \A i \in 1 .. Len(s) - 1 :
                 Without(s, k)[i] = IF i < k THEN s[i] ELSE s[i + 1]
<1> DEFINE p == SubSeq(s, 1, k - 1)
           q == SubSeq(s, k + 1, Len(s))
<1>1. /\ Len(s) \in Nat
      /\ \A i \in 1 .. Len(s) : s[i] \in S
  BY LenProperties
<1>2. /\ p \in Seq(S) /\ Len(p) = k - 1
      /\ \A i \in 1 .. k - 1 : p[i] = s[i]
  <2>1. /\ SubSeq(s, 1, k - 1) \in Seq(S)
        /\ Len(SubSeq(s, 1, k - 1)) = IF 1 <= k - 1 THEN (k - 1) - 1 + 1 ELSE 0
        /\ \A i \in 1 .. (k - 1) - 1 + 1 : SubSeq(s, 1, k - 1)[i] = s[1 + i - 1]
    BY <1>1, SubSeqProperties
  <2> QED BY <2>1, <1>1
<1>3. /\ q \in Seq(S) /\ Len(q) = Len(s) - k
      /\ \A i \in 1 .. Len(s) - k : q[i] = s[k + i]
  BY RestElements
<1> DEFINE w == Without(s, k)
<1>4. /\ w \in Seq(S) /\ Len(w) = Len(s) - 1
      /\ \A i \in 1 .. Len(s) - 1 : w[i] = IF i < k THEN s[i] ELSE s[i + 1]
  <2> HIDE DEF w, p, q
  <2>1. /\ p \o q \in Seq(S) /\ Len(p \o q) = Len(p) + Len(q)
        /\ \A i \in 1 .. Len(p) + Len(q) :
              (p \o q)[i] = IF i <= Len(p) THEN p[i] ELSE q[i - Len(p)]
    BY <1>2, <1>3, ConcatProperties
  <2>2. w = p \o q
    BY DEF Without, w, p, q
  <2>3. Len(p) + Len(q) = Len(s) - 1
    BY <1>1, <1>2, <1>3
  <2>4. ASSUME NEW i \in 1 .. Len(s) - 1
        PROVE  w[i] = IF i < k THEN s[i] ELSE s[i + 1]
    <3>1. CASE i < k
      BY <1>1, <1>2, <2>1, <2>2, <2>3, <3>1
    <3>2. CASE i >= k
      <4>1. i - (k - 1) \in 1 .. Len(s) - k /\ k + (i - (k - 1)) = i + 1
        BY <1>1, <3>2
      <4>2. w[i] = q[i - (k - 1)]
        BY <1>1, <1>2, <2>1, <2>2, <2>3, <3>2
      <4>3. q[i - (k - 1)] = s[k + (i - (k - 1))]
        BY <1>3, <4>1
      <4>4. w[i] = s[i + 1]
        BY <4>1, <4>2, <4>3
      <4> QED BY <1>1, <3>2, <4>4
    <3> QED BY <1>1, <3>1, <3>2
  <2> QED BY <2>1, <2>2, <2>3, <2>4
<1> HIDE DEF w, p, q
<1> QED BY <1>4 DEF w

\* Unlinking the k-th element removes it, and nothing else, from the list.
LEMMA WithoutProperties ==
    ASSUME NEW S, NEW s \in Seq(S), Distinct(s), NEW k \in 1 .. Len(s)
    PROVE  /\ Without(s, k) \in Seq(S)
           /\ Distinct(Without(s, k))
           /\ InList(Without(s, k)) = InList(s) \ {s[k]}
           /\ Len(Without(s, k)) = Len(s) - 1
<1> DEFINE w == Without(s, k)
<1>1. /\ Len(s) \in Nat
      /\ \A i \in 1 .. Len(s) : s[i] \in S
  BY LenProperties
<1>2. /\ w \in Seq(S) /\ Len(w) = Len(s) - 1
      /\ \A i \in 1 .. Len(s) - 1 : w[i] = IF i < k THEN s[i] ELSE s[i + 1]
  BY WithoutElements
<1> HIDE DEF w
<1>3. Distinct(w)
  <2>1. ASSUME NEW i \in 1 .. Len(s) - 1
        PROVE  \E m \in 1 .. Len(s) : w[i] = s[m] /\ m = IF i < k THEN i ELSE i + 1
    BY <1>1, <1>2
  <2>2. ASSUME NEW i \in 1 .. Len(s) - 1, NEW j \in 1 .. Len(s) - 1, w[i] = w[j]
        PROVE  i = j
    <3>1. PICK m \in 1 .. Len(s) : w[i] = s[m] /\ m = IF i < k THEN i ELSE i + 1
      BY <2>1
    <3>2. PICK n \in 1 .. Len(s) : w[j] = s[n] /\ n = IF j < k THEN j ELSE j + 1
      BY <2>1
    <3>3. m = n
      BY <2>2, <3>1, <3>2 DEF Distinct
    <3> QED BY <1>1, <3>1, <3>2, <3>3
  <2> QED BY <1>2, <2>2 DEF Distinct
<1>4. InList(w) = InList(s) \ {s[k]}
  <2>1. ASSUME NEW x \in InList(w) PROVE x \in InList(s) \ {s[k]}
    <3>1. PICK i \in 1 .. Len(s) - 1 : x = w[i]
      BY <1>2, <2>1 DEF InList
    <3>2. CASE i < k
      <4>1. i \in 1 .. Len(s) /\ i # k /\ x = s[i]
        BY <1>1, <1>2, <3>1, <3>2
      <4> QED BY <4>1 DEF InList, Distinct
    <3>3. CASE i >= k
      <4>1. i + 1 \in 1 .. Len(s) /\ i + 1 # k /\ x = s[i + 1]
        BY <1>1, <1>2, <3>1, <3>3
      <4> QED BY <4>1 DEF InList, Distinct
    <3> QED BY <1>1, <3>1, <3>2, <3>3
  <2>2. ASSUME NEW x \in InList(s) \ {s[k]} PROVE x \in InList(w)
    <3>1. PICK i \in 1 .. Len(s) : x = s[i]
      BY <2>2 DEF InList
    <3>2. CASE i < k
      <4>1. i \in 1 .. Len(w) /\ w[i] = x
        BY <1>1, <1>2, <3>1, <3>2
      <4> QED BY <4>1 DEF InList
    <3>3. CASE i > k
      <4>1. i - 1 \in 1 .. Len(w) /\ w[i - 1] = x
        BY <1>1, <1>2, <3>1, <3>3
      <4> QED BY <4>1 DEF InList
    <3> QED BY <1>1, <2>2, <3>1, <3>2, <3>3
  <2> QED BY <2>1, <2>2
<1> QED BY <1>2, <1>3, <1>4 DEF w

\* Linking an element behind the k-th one moves those behind it one place back.
LEMMA InsertAfterElements ==
    ASSUME NEW S, NEW s \in Seq(S), NEW k \in 1 .. Len(s), NEW t \in S
    PROVE  /\ InsertAfter(s, k, t) \in Seq(S) /\ Len(InsertAfter(s, k, t)) = Len(s) + 1
           /\ \A i \in 1 .. Len(s) + 1 :
                 InsertAfter(s, k, t)[i] =
                   IF i <= k THEN s[i] ELSE IF i = k + 1 THEN t ELSE s[i - 1]
<1> DEFINE p == SubSeq(s, 1, k)
           q == SubSeq(s, k + 1, Len(s))
           w == InsertAfter(s, k, t)
<1>1. /\ Len(s) \in Nat
      /\ \A i \in 1 .. Len(s) : s[i] \in S
  BY LenProperties
<1>2. /\ p \in Seq(S) /\ Len(p) = k
      /\ \A i \in 1 .. k : p[i] = s[i]
  <2>1. /\ SubSeq(s, 1, k) \in Seq(S)
        /\ Len(SubSeq(s, 1, k)) = IF 1 <= k THEN k - 1 + 1 ELSE 0
        /\ \A i \in 1 .. k - 1 + 1 : SubSeq(s, 1, k)[i] = s[1 + i - 1]
    BY <1>1, SubSeqProperties
  <2> QED BY <2>1, <1>1
<1>3. /\ q \in Seq(S) /\ Len(q) = Len(s) - k
      /\ \A i \in 1 .. Len(s) - k : q[i] = s[k + i]
  BY RestElements
<1>4. /\ w \in Seq(S) /\ Len(w) = Len(s) + 1
      /\ \A i \in 1 .. Len(s) + 1 :
            w[i] = IF i <= k THEN s[i] ELSE IF i = k + 1 THEN t ELSE s[i - 1]
  <2> HIDE DEF p, q
  <2>1. /\ <<t>> \in Seq(S) /\ Len(<<t>>) = 1 /\ <<t>>[1] = t
    OBVIOUS
  <2>2. /\ p \o <<t>> \in Seq(S) /\ Len(p \o <<t>>) = k + 1
        /\ \A i \in 1 .. k + 1 :
              (p \o <<t>>)[i] = IF i <= k THEN p[i] ELSE <<t>>[i - k]
    BY <1>2, <2>1, ConcatProperties
  <2> DEFINE u == p \o <<t>>
  <2>3. u \in Seq(S) /\ Len(u) = k + 1
    BY <2>2
  <2>4. \A i \in 1 .. k + 1 : u[i] = IF i <= k THEN s[i] ELSE t
    BY <1>2, <2>1, <2>2
  <2> HIDE DEF u
  <2> HIDE DEF w
  <2>5. /\ u \o q \in Seq(S) /\ Len(u \o q) = Len(u) + Len(q)
        /\ \A i \in 1 .. Len(u) + Len(q) :
              (u \o q)[i] = IF i <= Len(u) THEN u[i] ELSE q[i - Len(u)]
    BY <1>3, <2>3, ConcatProperties
  <2>6. w = u \o q
    BY DEF InsertAfter, w, u, p, q
  <2>7. Len(u) + Len(q) = Len(s) + 1
    BY <1>1, <1>3, <2>3
  <2>8. ASSUME NEW i \in 1 .. Len(s) + 1
        PROVE  w[i] = IF i <= k THEN s[i] ELSE IF i = k + 1 THEN t ELSE s[i - 1]
    <3>1. CASE i <= k + 1
      BY <1>1, <2>3, <2>4, <2>5, <2>6, <2>7, <3>1
    <3>2. CASE i > k + 1
      <4>1. i - (k + 1) \in 1 .. Len(s) - k /\ k + (i - (k + 1)) = i - 1
        BY <1>1, <3>2
      <4>2. w[i] = q[i - (k + 1)]
        BY <1>1, <2>3, <2>5, <2>6, <2>7, <3>2
      <4> QED BY <1>1, <1>3, <3>2, <4>1, <4>2
    <3> QED BY <1>1, <3>1, <3>2
  <2> QED BY <2>5, <2>6, <2>7, <2>8
<1> HIDE DEF w, p, q
<1> QED BY <1>4 DEF w

\* Linking an element behind the k-th one adds it, and nothing else.
LEMMA InsertAfterProperties ==
    ASSUME NEW S, NEW s \in Seq(S), Distinct(s), NEW k \in 1 .. Len(s),
           NEW t \in S, t \notin InList(s)
    PROVE  /\ InsertAfter(s, k, t) \in Seq(S)
           /\ Distinct(InsertAfter(s, k, t))
           /\ InList(InsertAfter(s, k, t)) = InList(s) \cup {t}
           /\ InsertAfter(s, k, t) # <<>>
<1> DEFINE w == InsertAfter(s, k, t)
<1>1. /\ Len(s) \in Nat
      /\ \A i \in 1 .. Len(s) : s[i] \in S
  BY LenProperties
<1>2. /\ w \in Seq(S) /\ Len(w) = Len(s) + 1
      /\ \A i \in 1 .. Len(s) + 1 :
            w[i] = IF i <= k THEN s[i] ELSE IF i = k + 1 THEN t ELSE s[i - 1]
  BY InsertAfterElements
<1> HIDE DEF w
<1>3. \A i \in 1 .. Len(s) : s[i] # t
  BY DEF InList
<1>4. Distinct(w)
  <2> DEFINE from(i) == IF i <= k THEN i ELSE i - 1
  <2>1. ASSUME NEW i \in 1 .. Len(s) + 1, i # k + 1
        PROVE  from(i) \in 1 .. Len(s) /\ w[i] = s[from(i)] /\ w[i] # t
    <3>1. CASE i <= k
      <4>1. i \in 1 .. Len(s) /\ from(i) = i /\ w[i] = s[i]
        BY <1>1, <1>2, <3>1
      <4> QED BY <1>3, <4>1
    <3>2. CASE i > k + 1
      <4>1. i - 1 \in 1 .. Len(s) /\ from(i) = i - 1 /\ w[i] = s[i - 1]
        BY <1>1, <1>2, <3>2
      <4> QED BY <1>3, <4>1
    <3> QED BY <1>1, <2>1, <3>1, <3>2
  <2>2. ASSUME NEW i \in 1 .. Len(s) + 1, NEW j \in 1 .. Len(s) + 1, w[i] = w[j]
        PROVE  i = j
    <3>1. CASE i # k + 1 /\ j # k + 1
      <4>1. from(i) = from(j)
        BY <2>1, <2>2, <3>1 DEF Distinct
      <4> QED BY <1>1, <3>1, <4>1
    <3>2. CASE i = k + 1 \/ j = k + 1
      BY <1>1, <1>2, <2>1, <2>2, <3>2
    <3> QED BY <3>1, <3>2
  <2> QED BY <1>2, <2>2 DEF Distinct
<1>5. InList(w) = InList(s) \cup {t}
  <2>1. ASSUME NEW x \in InList(w) PROVE x \in InList(s) \cup {t}
    <3>1. PICK i \in 1 .. Len(s) + 1 : x = w[i]
      BY <1>2, <2>1 DEF InList
    <3>2. CASE i <= k
      <4>1. i \in 1 .. Len(s) /\ x = s[i]
        BY <1>1, <1>2, <3>1, <3>2
      <4> QED BY <4>1 DEF InList
    <3>3. CASE i > k + 1
      <4>1. i - 1 \in 1 .. Len(s) /\ x = s[i - 1]
        BY <1>1, <1>2, <3>1, <3>3
      <4> QED BY <4>1 DEF InList
    <3>4. CASE i = k + 1
      BY <1>2, <3>1, <3>4
    <3> QED BY <1>1, <3>2, <3>3, <3>4
  <2>2. ASSUME NEW x \in InList(s) PROVE x \in InList(w)
    <3>1. PICK i \in 1 .. Len(s) : x = s[i]
      BY <2>2 DEF InList
    <3>2. CASE i <= k
      BY <1>1, <1>2, <3>1, <3>2 DEF InList
    <3>3. CASE i > k
      <4>1. i + 1 \in 1 .. Len(w) /\ w[i + 1] = x
        BY <1>1, <1>2, <3>1, <3>3
      <4> QED BY <4>1 DEF InList
    <3> QED BY <1>1, <3>1, <3>2, <3>3
  <2>3. t \in InList(w)
    <3>1. k + 1 \in 1 .. Len(w) /\ w[k + 1] = t
      BY <1>1, <1>2
    <3> QED BY <3>1 DEF InList
  <2> QED BY <2>1, <2>2, <2>3
<1> QED BY <1>1, <1>2, <1>4, <1>5 DEF w

\* Linking an element before the head moves the others one place back.
LEMMA PushElements ==
    ASSUME NEW S, NEW s \in Seq(S), NEW t \in S
    PROVE  /\ <<t>> \o s \in Seq(S) /\ Len(<<t>> \o s) = Len(s) + 1
           /\ \A i \in 1 .. Len(s) + 1 :
                 (<<t>> \o s)[i] = IF i = 1 THEN t ELSE s[i - 1]
<1> DEFINE w == <<t>> \o s
<1>1. /\ Len(s) \in Nat
      /\ \A i \in 1 .. Len(s) : s[i] \in S
  BY LenProperties
<1>2. /\ w \in Seq(S) /\ Len(w) = Len(s) + 1
      /\ \A i \in 1 .. Len(s) + 1 : w[i] = IF i = 1 THEN t ELSE s[i - 1]
  <2>1. <<t>> \in Seq(S) /\ Len(<<t>>) = 1 /\ <<t>>[1] = t
    OBVIOUS
  <2>2. /\ <<t>> \o s \in Seq(S) /\ Len(<<t>> \o s) = 1 + Len(s)
        /\ \A i \in 1 .. 1 + Len(s) :
              (<<t>> \o s)[i] = IF i <= 1 THEN <<t>>[i] ELSE s[i - 1]
    BY <2>1, ConcatProperties
  <2> QED BY <1>1, <2>1, <2>2
<1> QED BY <1>2

\* Linking an element before the head adds it, and nothing else.
LEMMA PushProperties ==
    ASSUME NEW S, NEW s \in Seq(S), Distinct(s), NEW t \in S, t \notin InList(s)
    PROVE  /\ <<t>> \o s \in Seq(S)
           /\ Distinct(<<t>> \o s)
           /\ InList(<<t>> \o s) = InList(s) \cup {t}
           /\ <<t>> \o s # <<>>
<1> DEFINE w == <<t>> \o s
<1>1. /\ Len(s) \in Nat
      /\ \A i \in 1 .. Len(s) : s[i] \in S
  BY LenProperties
<1>2. /\ w \in Seq(S) /\ Len(w) = Len(s) + 1
      /\ \A i \in 1 .. Len(s) + 1 : w[i] = IF i = 1 THEN t ELSE s[i - 1]
  BY PushElements
<1> HIDE DEF w
<1>3. \A i \in 1 .. Len(s) : s[i] # t
  BY DEF InList
<1>4. Distinct(w)
  BY <1>1, <1>2, <1>3 DEF Distinct
<1>5. InList(w) = InList(s) \cup {t}
  <2>1. ASSUME NEW x \in InList(w) PROVE x \in InList(s) \cup {t}
    BY <1>1, <1>2, <2>1 DEF InList
  <2>2. ASSUME NEW x \in InList(s) PROVE x \in InList(w)
    <3>1. PICK i \in 1 .. Len(s) : x = s[i]
      BY <2>2 DEF InList
    <3>2. i + 1 \in 1 .. Len(w) /\ w[i + 1] = x
      BY <1>1, <1>2, <3>1
    <3> QED BY <3>2 DEF InList
  <2>3. t \in InList(w)
    <3>1. 1 \in 1 .. Len(w) /\ w[1] = t
      BY <1>1, <1>2
    <3> QED BY <3>1 DEF InList
  <2> QED BY <2>1, <2>2, <2>3
<1> QED BY <1>1, <1>2, <1>4, <1>5 DEF w

\* A piece of a list holds the elements at its positions, once each.
LEMMA SegmentProperties ==
    ASSUME NEW S, NEW s \in Seq(S), Distinct(s), NEW m \in Nat \ {0}, NEW n \in 0 .. Len(s)
    PROVE  /\ SubSeq(s, m, n) \in Seq(S)
           /\ Distinct(SubSeq(s, m, n))
           /\ InList(SubSeq(s, m, n)) = { s[i] : i \in m .. n }
<1> DEFINE w == SubSeq(s, m, n)
<1>1. /\ Len(s) \in Nat
      /\ \A i \in 1 .. Len(s) : s[i] \in S
  BY LenProperties
<1>2. /\ w \in Seq(S)
      /\ Len(w) = IF m <= n THEN n - m + 1 ELSE 0
      /\ \A i \in 1 .. n - m + 1 : w[i] = s[m + i - 1]
  <2>1. \A i \in m .. n : s[i] \in S
    BY <1>1
  <2> QED BY <1>1, <2>1, SubSeqProperties
<1> HIDE DEF w
<1>3. ASSUME NEW i \in 1 .. Len(w)
      PROVE  m + i - 1 \in m .. n /\ m + i - 1 \in 1 .. Len(s) /\ w[i] = s[m + i - 1]
  BY <1>1, <1>2, SMTT(30)
<1>4. Distinct(w)
  <2>1. ASSUME NEW i \in 1 .. Len(w), NEW j \in 1 .. Len(w), w[i] = w[j] PROVE i = j
    <3>1. m + i - 1 = m + j - 1
      BY <1>3, <2>1 DEF Distinct
    <3> QED BY <1>2, <3>1
  <2> QED BY <2>1 DEF Distinct
<1>5. ASSUME NEW i \in m .. n PROVE s[i] \in InList(w)
  <2>1. i - m + 1 \in 1 .. Len(w) /\ w[i - m + 1] = s[i]
    BY <1>1, <1>2
  <2> QED BY <2>1 DEF InList
<1>6. InList(w) = { s[i] : i \in m .. n }
  BY <1>3, <1>5 DEF InList
<1> QED BY <1>2, <1>4, <1>6 DEF w

\* Taking the head off a list removes it, and nothing else.
LEMMA PopProperties ==
    ASSUME NEW S, NEW s \in Seq(S), Distinct(s), s # <<>>
    PROVE  /\ Head(s) \in S /\ Head(s) \in InList(s) /\ Head(s) = s[1]
           /\ Tail(s) \in Seq(S)
           /\ Distinct(Tail(s))
           /\ InList(Tail(s)) = InList(s) \ {Head(s)}
<1>1. /\ Len(s) \in Nat \ {0}
      /\ Head(s) = s[1] /\ Head(s) \in S
      /\ \A i \in 1 .. Len(s) : s[i] \in S
  BY EmptySeq, LenProperties, HeadTailProperties
<1>2. Tail(s) = SubSeq(s, 2, Len(s))
  BY TailIsSubSeq
<1>3. /\ SubSeq(s, 2, Len(s)) \in Seq(S)
      /\ Distinct(SubSeq(s, 2, Len(s)))
      /\ InList(SubSeq(s, 2, Len(s))) = { s[i] : i \in 2 .. Len(s) }
  BY <1>1, SegmentProperties
<1>4. { s[i] : i \in 2 .. Len(s) } = InList(s) \ {s[1]}
  BY <1>1 DEF InList, Distinct
<1>5. s[1] \in InList(s)
  BY <1>1 DEF InList
<1> QED BY <1>1, <1>2, <1>3, <1>4, <1>5

\* Linking behind an element, or unlinking another than the head, keeps the head.
LEMMA InsertAfterHead ==
    ASSUME NEW S, NEW s \in Seq(S), NEW k \in 1 .. Len(s), NEW t \in S
    PROVE  Head(InsertAfter(s, k, t)) = Head(s)
<1>1. Len(s) \in Nat /\ (\A i \in 1 .. Len(s) : s[i] \in S)
  BY LenProperties
<1> DEFINE p == SubSeq(s, 1, k)
           q == SubSeq(s, k + 1, Len(s))
<1>2. p \in Seq(S) /\ Len(p) = k /\ p[1] = s[1]
  <2>1. /\ SubSeq(s, 1, k) \in Seq(S)
        /\ Len(SubSeq(s, 1, k)) = IF 1 <= k THEN k - 1 + 1 ELSE 0
        /\ \A i \in 1 .. k - 1 + 1 : SubSeq(s, 1, k)[i] = s[1 + i - 1]
    BY <1>1, SubSeqProperties
  <2> QED BY <2>1
<1>3. q \in Seq(S)
  <2>1. \A i \in k + 1 .. Len(s) : s[i] \in S
    BY <1>1
  <2> QED BY <1>1, <2>1, SubSeqProperties
<1> HIDE DEF p, q
<1> DEFINE u == p \o <<t>>
<1>4. u \in Seq(S) /\ Len(u) = k + 1 /\ u[1] = s[1]
  <2>1. <<t>> \in Seq(S) /\ Len(<<t>>) = 1
    OBVIOUS
  <2>2. /\ p \o <<t>> \in Seq(S) /\ Len(p \o <<t>>) = k + 1
        /\ \A i \in 1 .. k + 1 : (p \o <<t>>)[i] = IF i <= k THEN p[i] ELSE <<t>>[i - k]
    BY <1>2, <2>1, ConcatProperties
  <2> QED BY <1>2, <2>2
<1> HIDE DEF u
<1> DEFINE w == u \o q
<1>5. w \in Seq(S) /\ Len(w) > 0 /\ w[1] = s[1]
  <2>1. Len(q) \in Nat
    BY <1>3, LenProperties
  <2>2. /\ u \o q \in Seq(S) /\ Len(u \o q) = Len(u) + Len(q)
        /\ \A i \in 1 .. Len(u) + Len(q) : (u \o q)[i] = IF i <= Len(u) THEN u[i] ELSE q[i - Len(u)]
    BY <1>3, <1>4, ConcatProperties
  <2> QED BY <1>4, <2>1, <2>2
<1> HIDE DEF w
<1>6. Head(w) = w[1]
  BY <1>5, EmptySeq, HeadTailProperties
<1>7. Head(s) = s[1]
  BY <1>1, EmptySeq, HeadTailProperties
<1>8. w = InsertAfter(s, k, t)
  BY DEF w, u, p, q, InsertAfter
<1> QED BY <1>5, <1>6, <1>7, <1>8

LEMMA WithoutHead ==
    ASSUME NEW S, NEW s \in Seq(S), NEW k \in 1 .. Len(s), k # 1
    PROVE  Head(Without(s, k)) = Head(s)
<1>1. Len(s) \in Nat /\ (\A i \in 1 .. Len(s) : s[i] \in S)
  BY LenProperties
<1> DEFINE p == SubSeq(s, 1, k - 1)
           q == SubSeq(s, k + 1, Len(s))
           w == p \o q
<1>2. p \in Seq(S) /\ Len(p) = k - 1 /\ p[1] = s[1]
  <2>1. /\ SubSeq(s, 1, k - 1) \in Seq(S)
        /\ Len(SubSeq(s, 1, k - 1)) = IF 1 <= k - 1 THEN (k - 1) - 1 + 1 ELSE 0
        /\ \A i \in 1 .. (k - 1) - 1 + 1 : SubSeq(s, 1, k - 1)[i] = s[1 + i - 1]
    BY <1>1, SubSeqProperties
  <2> QED BY <1>1, <2>1
<1>3. q \in Seq(S)
  <2>1. \A i \in k + 1 .. Len(s) : s[i] \in S
    BY <1>1
  <2> QED BY <1>1, <2>1, SubSeqProperties
<1> HIDE DEF p, q
<1>4. w \in Seq(S) /\ Len(w) > 0 /\ w[1] = s[1]
  <2>1. Len(q) \in Nat
    BY <1>3, LenProperties
  <2>2. /\ p \o q \in Seq(S) /\ Len(p \o q) = Len(p) + Len(q)
        /\ \A i \in 1 .. Len(p) + Len(q) : (p \o q)[i] = IF i <= Len(p) THEN p[i] ELSE q[i - Len(p)]
    BY <1>2, <1>3, ConcatProperties
  <2> QED BY <1>1, <1>2, <2>1, <2>2
<1> HIDE DEF w
<1>5. Head(w) = w[1] /\ Head(s) = s[1]
  BY <1>1, <1>4, EmptySeq, HeadTailProperties
<1>6. w = Without(s, k)
  BY DEF w, p, q, Without
<1> QED BY <1>4, <1>5, <1>6

\* The element at the position of t is t.
LEMMA PositionProperties ==
    ASSUME NEW S, NEW s \in Seq(S), NEW t \in InList(s)
    PROVE  Position(s, t) \in 1 .. Len(s) /\ s[Position(s, t)] = t
<1>1. \E i \in 1 .. Len(s) : s[i] = t
  BY DEF InList
<1> QED BY <1>1 DEF Position

\* Appending an element to a list adds it, and nothing else.
LEMMA AppendKeeps ==
    ASSUME NEW S, NEW s \in Seq(S), Distinct(s), NEW x \in S, x \notin InList(s)
    PROVE  /\ Append(s, x) \in Seq(S)
           /\ Distinct(Append(s, x))
           /\ Len(Append(s, x)) = Len(s) + 1
           /\ InList(Append(s, x)) = InList(s) \cup {x}
<1> DEFINE w == Append(s, x)
<1>1. /\ Len(s) \in Nat
      /\ w \in Seq(S) /\ Len(w) = Len(s) + 1
      /\ \A i \in 1 .. Len(s) : w[i] = s[i]
      /\ w[Len(s) + 1] = x
  BY LenProperties, AppendProperties
<1>2. \A i \in 1 .. Len(s) : s[i] # x
  BY DEF InList
<1> HIDE DEF w
<1>3. ASSUME NEW i \in 1 .. Len(w), NEW j \in 1 .. Len(w), w[i] = w[j] PROVE i = j
  <2>1. CASE i \in 1 .. Len(s) /\ j \in 1 .. Len(s)
    BY <1>1, <1>3, <2>1 DEF Distinct
  <2>2. CASE i = Len(s) + 1
    BY <1>1, <1>2, <1>3, <2>2
  <2>3. CASE j = Len(s) + 1
    BY <1>1, <1>2, <1>3, <2>3
  <2> QED BY <1>1, <2>1, <2>2, <2>3
<1>4. Distinct(w)
  BY <1>3 DEF Distinct
<1>5. InList(w) = InList(s) \cup {x}
  <2>1. ASSUME NEW y \in InList(w) PROVE y \in InList(s) \cup {x}
    BY <1>1 DEF InList
  <2>2. ASSUME NEW y \in InList(s) PROVE y \in InList(w)
    BY <1>1 DEF InList
  <2>3. Len(s) + 1 \in 1 .. Len(w)
    BY <1>1
  <2>4. x \in InList(w)
    BY <1>1, <2>3 DEF InList
  <2> QED BY <2>1, <2>2, <2>4
<1> QED BY <1>1, <1>4, <1>5 DEF w

\* In a list that holds nothing twice an element has one position.
LEMMA PositionUnique ==
    ASSUME NEW S, NEW s \in Seq(S), Distinct(s), NEW i \in 1 .. Len(s)
    PROVE  Position(s, s[i]) = i
<1>1. s[i] \in InList(s)
  BY DEF InList
<1>2. Position(s, s[i]) \in 1 .. Len(s) /\ s[Position(s, s[i])] = s[i]
  BY <1>1, PositionProperties
<1> QED BY <1>2 DEF Distinct

\* Unlinking an element keeps the order of the others.
LEMMA WithoutKeepsOrder ==
    ASSUME NEW S, NEW s \in Seq(S), Distinct(s), NEW k \in 1 .. Len(s),
           NEW x \in InList(s) \ {s[k]}, NEW y \in InList(s) \ {s[k]},
           Position(s, x) < Position(s, y)
    PROVE  Position(Without(s, k), x) < Position(Without(s, k), y)
<1> DEFINE w == Without(s, k)
           a == Position(w, x)
           b == Position(w, y)
<1>1. /\ w \in Seq(S) /\ Distinct(w) /\ InList(w) = InList(s) \ {s[k]}
      /\ Len(w) = Len(s) - 1 /\ Len(s) \in Nat
  BY WithoutProperties, LenProperties
<1>2. \A i \in 1 .. Len(s) - 1 : w[i] = IF i < k THEN s[i] ELSE s[i + 1]
  BY WithoutElements
<1> HIDE DEF w
<1>3. a \in 1 .. Len(w) /\ w[a] = x /\ b \in 1 .. Len(w) /\ w[b] = y
  BY <1>1, PositionProperties
<1> HIDE DEF a, b
<1>4. PICK i \in 1 .. Len(s) : s[i] = x /\ i = IF a < k THEN a ELSE a + 1
  BY <1>1, <1>2, <1>3
<1>5. PICK j \in 1 .. Len(s) : s[j] = y /\ j = IF b < k THEN b ELSE b + 1
  BY <1>1, <1>2, <1>3
<1>6. Position(s, x) = i /\ Position(s, y) = j
  BY <1>4, <1>5, PositionUnique
<1>7. i < j
  BY <1>6
<1>8. a < b
  BY <1>1, <1>3, <1>4, <1>5, <1>7
<1> QED BY <1>8 DEF a, b, w

\* Appending an element puts it last and moves no other.
LEMMA AppendKeepsOrder ==
    ASSUME NEW S, NEW s \in Seq(S), Distinct(s), NEW t \in S, t \notin InList(s),
           NEW x \in InList(s)
    PROVE  /\ Position(Append(s, t), x) = Position(s, x)
           /\ Position(s, x) \in 1 .. Len(s)
           /\ Position(Append(s, t), t) = Len(s) + 1
<1> DEFINE w == Append(s, t)
<1>1. /\ Len(s) \in Nat
      /\ w \in Seq(S) /\ Distinct(w) /\ Len(w) = Len(s) + 1
      /\ \A i \in 1 .. Len(s) : w[i] = s[i]
      /\ w[Len(s) + 1] = t
  BY LenProperties, AppendProperties, AppendKeeps
<1> HIDE DEF w
<1>2. Position(s, x) \in 1 .. Len(s) /\ s[Position(s, x)] = x
  BY PositionProperties
<1>3. Position(s, x) \in 1 .. Len(w) /\ w[Position(s, x)] = x
  BY <1>1, <1>2
<1>4. Position(w, x) = Position(s, x)
  BY <1>1, <1>3, PositionUnique
<1>5. Position(w, t) = Len(s) + 1
  <2>1. Len(s) + 1 \in 1 .. Len(w)
    BY <1>1
  <2> QED BY <1>1, <2>1, PositionUnique
<1> QED BY <1>2, <1>4, <1>5 DEF w

-----------------------------------------------------------------------------
\* A set of numbers has a least one.
LEMMA LeastNumber ==
    ASSUME NEW T \in SUBSET Nat, T # {}
    PROVE  \E x \in T : \A y \in T : x <= y
<1> DEFINE R == {ss \in Nat \X Nat : ss[1] < ss[2]}
<1>1. OpToRel(<, Nat) = R
  BY DEF OpToRel
<1>2. IsWellFoundedOn(R, Nat)
  BY <1>1, NatLessThanWellFounded
<1>3. \A x, y \in Nat : x < y => <<x, y>> \in R
  OBVIOUS
<1> HIDE DEF R
<1>4. PICK x \in T : \A y \in T : ~ (<<y, x>> \in R)
  BY <1>2, WFMin
<1>5. \A y \in T : ~(y < x)
  BY <1>3, <1>4
<1> QED BY <1>5

\* Induction for a set of numbers.
LEMMA AllNumbers ==
    ASSUME NEW T, 0 \in T, \A n \in Nat : n \in T => n + 1 \in T
    PROVE  \A n \in Nat : n \in T
<1> SUFFICES ASSUME NEW n \in Nat, n \notin T PROVE FALSE
  OBVIOUS
<1>1. PICK m \in Nat \ T : \A y \in Nat \ T : m <= y
  <2>1. Nat \ T \in SUBSET Nat /\ Nat \ T # {}
    OBVIOUS
  <2> QED BY <2>1, LeastNumber
<1>2. m - 1 \in Nat /\ m - 1 \in T
  BY <1>1
<1> QED BY <1>1, <1>2

\* The sums of the beginnings of a list of numbers exist.
LEMMA PartialSums ==
    ASSUME NEW f, NEW n \in Nat, \A i \in 1 .. n : f[i] \in Int
    PROVE  \E g \in [0 .. n -> Int] :
             g = [i \in 0 .. n |-> IF i = 0 THEN 0 ELSE g[i - 1] + f[i]]
<1> DEFINE T == {m \in Nat : m <= n => \E g \in [0 .. m -> Int] :
                    \A i \in 0 .. m : g[i] = IF i = 0 THEN 0 ELSE g[i - 1] + f[i]}
<1>1. 0 \in T
  <2>1. [i \in 0 .. 0 |-> 0] \in [0 .. 0 -> Int]
    OBVIOUS
  <2>2. \A i \in 0 .. 0 : [j \in 0 .. 0 |-> 0][i] = 0 /\ i = 0
    OBVIOUS
  <2> QED BY <2>1, <2>2
<1>2. ASSUME NEW m \in Nat, m \in T PROVE m + 1 \in T
  <2> SUFFICES ASSUME m + 1 <= n
               PROVE  \E g \in [0 .. m + 1 -> Int] : \A i \in 0 .. m + 1 :
                        g[i] = IF i = 0 THEN 0 ELSE g[i - 1] + f[i]
    OBVIOUS
  <2>1. PICK g \in [0 .. m -> Int] : \A i \in 0 .. m :
               g[i] = IF i = 0 THEN 0 ELSE g[i - 1] + f[i]
    BY <1>2
  <2> DEFINE h == [i \in 0 .. m + 1 |-> IF i <= m THEN g[i] ELSE g[m] + f[m + 1]]
  <2>2. h \in [0 .. m + 1 -> Int]
    OBVIOUS
  <2>3. ASSUME NEW i \in 0 .. m + 1 PROVE h[i] = IF i = 0 THEN 0 ELSE h[i - 1] + f[i]
    <3>1. CASE i = 0
      BY <2>1, <3>1
    <3>2. CASE i \in 1 .. m
      <4>1. h[i] = g[i] /\ h[i - 1] = g[i - 1]
        BY <3>2
      <4> QED BY <2>1, <3>2, <4>1
    <3>3. CASE i = m + 1
      BY <3>3
    <3> QED BY <3>1, <3>2, <3>3
  <2> QED BY <2>2, <2>3
<1> HIDE DEF T
<1>3. n \in T
  BY <1>1, <1>2, AllNumbers
<1>4. PICK g \in [0 .. n -> Int] :
         \A i \in 0 .. n : g[i] = IF i = 0 THEN 0 ELSE g[i - 1] + f[i]
  BY <1>3 DEF T
<1>5. g = [i \in 0 .. n |-> IF i = 0 THEN 0 ELSE g[i - 1] + f[i]]
  BY <1>4
<1> QED BY <1>5

=============================================================================
