------------------------------ MODULE SequenceLemmas ------------------------------
(* What the proofs of several components need of sequences: FlattenSeq and the sums that   *)
(* FoldLeft computes grow element by element, and so do counts and last elements.  The    *)
(* first two are defined by recursion, and each recursion is shown to have a solution by    *)
(* taking a least number without one.                                                      *)
EXTENDS SequencesExt, SequenceTheorems, FiniteSetTheorems, WellFoundedInduction, TLAPS

LEMMA LeastNumber ==
  ASSUME NEW S \in SUBSET Nat, S # {}
  PROVE  \E i \in S: \A j \in S: i <= j
<1> DEFINE R == {ss \in Nat \X Nat: ss[1] < ss[2]}
<1>1. IsWellFoundedOn(R, Nat)
  BY NatLessThanWellFounded DEF OpToRel
<1>2. \A i, j \in Nat: ~(<<j, i>> \in R) => i <= j
  OBVIOUS
<1> HIDE DEF R
<1>3. \E i \in S: \A j \in S: ~(<<j, i>> \in R)
  BY <1>1, WFMin
<1> QED
  BY <1>2, <1>3

(* Induction, over a set of numbers instead of a predicate. *)
LEMMA SetInduction ==
  ASSUME NEW S \in SUBSET Nat, 0 \in S, \A n \in S: n + 1 \in S
  PROVE  S = Nat
<1> SUFFICES ASSUME Nat \ S # {} PROVE FALSE
  OBVIOUS
<1>1. PICK least \in Nat \ S: \A j \in Nat \ S: least <= j
  <2> DEFINE Rest == Nat \ S
  <2>1. Rest \in SUBSET Nat /\ Rest # {}
    OBVIOUS
  <2> HIDE DEF Rest
  <2>2. \E i \in Rest: \A j \in Rest: i <= j
    BY <2>1, LeastNumber
  <2> QED
    BY <2>2 DEF Rest
<1>2. least # 0 /\ least - 1 \in Nat
  BY <1>1
<1>3. least - 1 \in S
  BY <1>1, <1>2
<1>4. (least - 1) + 1 = least
  BY <1>1
<1> QED
  BY <1>1, <1>3, <1>4

(* A set of numbers up to n has a greatest one. *)
LEMMA GreatestNumber ==
  ASSUME NEW n \in Nat, NEW S \in SUBSET (1..n), S # {}
  PROVE  Max(S) \in S /\ \A y \in S: y <= Max(S)
<1> DEFINE Above == {m \in Nat: \A y \in S: y <= m}
<1>1. n \in Above /\ Above \in SUBSET Nat
  OBVIOUS
<1>2. PICK m \in Above: \A k \in Above: m <= k
  BY <1>1, LeastNumber
<1>3. m \in Nat /\ \A y \in S: y <= m /\ y \in Nat /\ y >= 1
  BY <1>2
<1>4. m \in S
  <2> SUFFICES ASSUME m \notin S PROVE FALSE
    OBVIOUS
  <2>1. PICK y \in S: TRUE
    OBVIOUS
  <2>2. m - 1 \in Nat
    BY <1>3, <2>1
  <2>3. \A z \in S: z <= m - 1
    BY <1>3
  <2>4. m - 1 \in Above
    BY <2>2, <2>3
  <2> HIDE DEF Above
  <2>5. m <= m - 1
    BY <1>2, <2>4
  <2> QED
    BY <1>3, <2>5
<1>5. \E x \in S: \A y \in S: x >= y
  BY <1>3, <1>4
<1>6. Max(S) \in S /\ \A y \in S: Max(S) >= y
  BY <1>5, Zenon DEF Max
<1> QED
  BY <1>6

LEMMA AppendFacts ==
  ASSUME NEW T, NEW s \in Seq(T), NEW e \in T
  PROVE  /\ Len(s) \in Nat /\ DOMAIN s = 1..Len(s)
         /\ DOMAIN Append(s, e) = 1..(Len(s) + 1)
         /\ \A i \in 1..Len(s): Append(s, e)[i] = s[i] /\ s[i] \in T
         /\ Append(s, e)[Len(s) + 1] = e
OBVIOUS

(* Where the brackets stand, named so that the provers meet it as one fact. *)
Associates(a, b, c) == (a \o b) \o c = a \o (b \o c)

LEMMA ConcatAssociates ==
  ASSUME NEW S, NEW a \in Seq(S), NEW b \in Seq(S), NEW c \in Seq(S)
  PROVE  Associates(a, b, c)
BY ConcatAssociative DEF Associates

(* A sequence that goes on as another and has one element more. *)
LEMMA OneMore ==
  ASSUME NEW T, NEW old \in Seq(T), NEW new, NEW last \in T,
         DOMAIN new = 1..(Len(old) + 1), new = [i \in DOMAIN new |-> new[i]],
         \A i \in 1..Len(old): new[i] = old[i],
         new[Len(old) + 1] = last
  PROVE  new = Append(old, last)
<1>1. Len(old) \in Nat
  OBVIOUS
<1>2. /\ Append(old, last) \in Seq(T) /\ Len(Append(old, last)) = Len(old) + 1
      /\ \A i \in 1..Len(old): Append(old, last)[i] = old[i]
      /\ Append(old, last)[Len(old) + 1] = last
  BY <1>1, AppendProperties
<1>3. \A i \in 1..(Len(old) + 1): i \in 1..Len(old) \/ i = Len(old) + 1
  BY <1>1
<1>4. \A i \in 1..(Len(old) + 1): new[i] = Append(old, last)[i]
  BY <1>2, <1>3
<1>5. \A i \in 1..(Len(old) + 1): new[i] \in T
  BY <1>3
<1>6. new \in Seq(T) /\ Len(new) = Len(old) + 1
  BY <1>1, <1>5
<1> QED
  BY <1>2, <1>4, <1>6, SeqEqual

(* A sequence that goes on as one and then as another. *)
LEMMA IsConcat ==
  ASSUME NEW T, NEW a \in Seq(T), NEW b \in Seq(T), NEW new,
         DOMAIN new = 1..(Len(a) + Len(b)), new = [i \in DOMAIN new |-> new[i]],
         \A i \in 1..Len(a): new[i] = a[i],
         \A i \in 1..Len(b): new[Len(a) + i] = b[i]
  PROVE  new = a \o b
<1>1. Len(a) \in Nat /\ Len(b) \in Nat
  OBVIOUS
<1>2. /\ a \o b \in Seq(T) /\ Len(a \o b) = Len(a) + Len(b)
      /\ \A i \in 1..(Len(a) + Len(b)): (a \o b)[i] = IF i <= Len(a) THEN a[i] ELSE b[i - Len(a)]
  BY <1>1, ConcatProperties
<1>3. ASSUME NEW i \in 1..(Len(a) + Len(b))
      PROVE  new[i] = (a \o b)[i] /\ new[i] \in T
  <2>1. CASE i <= Len(a)
    <3>1. i \in 1..Len(a)
      BY <1>1, <2>1
    <3> QED
      BY <1>2, <2>1, <3>1
  <2>2. CASE ~(i <= Len(a))
    <3>1. i - Len(a) \in 1..Len(b) /\ Len(a) + (i - Len(a)) = i
      BY <1>1, <2>2
    <3>2. b[i - Len(a)] \in T
      BY <3>1
    <3> QED
      BY <1>2, <2>2, <3>1, <3>2
  <2> QED
    BY <2>1, <2>2
<1>4. new \in Seq(T) /\ Len(new) = Len(a) + Len(b)
  BY <1>1, <1>3
<1> QED
  BY <1>2, <1>3, <1>4, SeqEqual

LEMMA SliceLength ==
  ASSUME NEW n \in Nat, NEW h \in Nat, n <= h
  PROVE  h - (n + 1) + 1 = h - n /\ (n + 1 <= h \/ h - n = 0)
OBVIOUS

(* Two slices that meet are the whole. *)
LEMMA TwoSlices ==
  ASSUME NEW T, NEW s \in Seq(T), NEW n \in Nat, n <= Len(s)
  PROVE  /\ SubSeq(s, 1, n) \in Seq(T) /\ Len(SubSeq(s, 1, n)) = n
         /\ SubSeq(s, n + 1, Len(s)) \in Seq(T) /\ Len(SubSeq(s, n + 1, Len(s))) = Len(s) - n
         /\ s = SubSeq(s, 1, n) \o SubSeq(s, n + 1, Len(s))
<1> DEFINE head == SubSeq(s, 1, n)
           tail == SubSeq(s, n + 1, Len(s))
<1>1. Len(s) \in Nat /\ DOMAIN s = 1..Len(s) /\ \A i \in 1..Len(s): s[i] \in T
  OBVIOUS
<1>2. head \in Seq(T) /\ Len(head) = n /\ \A i \in 1..n: head[i] = s[i]
  BY <1>1, SubSeqProperties
<1>3. tail \in Seq(T) /\ Len(tail) = Len(s) - n /\ \A i \in 1..(Len(s) - n): tail[i] = s[n + i]
  <2> DEFINE lo == n + 1
             hi == Len(s)
  <2> DEFINE k == Len(s) - n
  <2>1. lo \in Int /\ hi \in Int /\ k \in Nat
    BY <1>1
  <2>2. \A i \in lo..hi: s[i] \in T
    BY <1>1
  <2>3. hi - lo + 1 = k /\ (lo <= hi \/ k = 0)
    BY <1>1, SliceLength
  <2>4. \A i \in 1..k: lo + i - 1 = n + i
    BY <1>1
  <2>5. tail = SubSeq(s, lo, hi)
    OBVIOUS
  <2> HIDE DEF lo, hi, tail, k
  <2>6. /\ tail \in Seq(T) /\ Len(tail) = IF lo <= hi THEN hi - lo + 1 ELSE 0
        /\ \A i \in 1..(hi - lo + 1): tail[i] = s[lo + i - 1]
    BY <2>1, <2>5, <2>2, SubSeqProperties
  <2>7. tail \in Seq(T) /\ Len(tail) = k /\ \A i \in 1..k: tail[i] = s[n + i]
    BY <2>1, <2>6, <2>3, <2>4
  <2> QED
    BY <2>7 DEF k
<1> HIDE DEF head, tail
<1>4. DOMAIN s = 1..(Len(head) + Len(tail))
  <2>1. n + (Len(s) - n) = Len(s)
    BY <1>1
  <2> QED
    BY <1>1, <1>2, <1>3, <2>1
<1>5. /\ \A i \in 1..Len(head): s[i] = head[i]
      /\ \A i \in 1..Len(tail): s[Len(head) + i] = tail[i]
  BY <1>2, <1>3
<1>6. s = [i \in DOMAIN s |-> s[i]]
  BY <1>1
<1>7. s = head \o tail
  BY <1>2, <1>3, <1>4, <1>5, <1>6, IsConcat
<1> QED
  BY <1>2, <1>3, <1>7 DEF head, tail

(* A slice from the first element to the last is the sequence. *)
LEMMA WholeSlice ==
  ASSUME NEW T, NEW s \in Seq(T)
  PROVE  SubSeq(s, 1, Len(s)) = s
<1> DEFINE n == Len(s)
<1>1. n \in Nat /\ n <= n /\ n <= Len(s) /\ Len(s) - n = 0
  OBVIOUS
<1>2. /\ SubSeq(s, 1, n) \in Seq(T)
      /\ SubSeq(s, n + 1, Len(s)) \in Seq(T) /\ Len(SubSeq(s, n + 1, Len(s))) = 0
      /\ s = SubSeq(s, 1, n) \o SubSeq(s, n + 1, Len(s))
  BY <1>1, TwoSlices
<1> DEFINE front == SubSeq(s, 1, n)
           rest  == SubSeq(s, n + 1, Len(s))
<1>3. front \in Seq(T) /\ rest \in Seq(T) /\ Len(rest) = 0 /\ s = front \o rest
  BY <1>2
<1> HIDE DEF front, rest
<1>4. front \o rest = front
  BY <1>3, EmptySeq, ConcatEmptySeq
<1>5. s = front
  BY <1>3, <1>4
<1> QED
  BY <1>5 DEF front

(* What stands before the second of two sequences is the first. *)
LEMMA FrontSlice ==
  ASSUME NEW T, NEW s \in Seq(T), NEW r \in Seq(T)
  PROVE  SubSeq(s \o r, 1, Len(s)) = s
<1> DEFINE all == s \o r
           n   == Len(s)
<1>1. /\ all \in Seq(T) /\ n \in Nat /\ n <= Len(all) /\ \A i \in 1..n: i \in 1..Len(all) /\ all[i] = s[i]
  BY ConcatProperties, LenProperties
<1> HIDE DEF all
<1>2. SubSeq(all, 1, n) = [i \in 1..n |-> all[i]]
  BY <1>1
<1>3. s = [i \in 1..n |-> s[i]]
  OBVIOUS
<1> QED
  BY <1>1, <1>2, <1>3 DEF all

LEMMA NextSlice ==
  ASSUME NEW T, NEW s \in Seq(T), NEW n \in Nat, n < Len(s)
  PROVE  /\ s[n + 1] \in T
         /\ SubSeq(s, 1, n + 1) = Append(SubSeq(s, 1, n), s[n + 1])
<1>1. n + 1 \in 1..Len(s) /\ n + 1 \in Nat /\ n + 1 <= Len(s) /\ n <= Len(s)
  OBVIOUS
<1>2. s[n + 1] \in T /\ \A i \in 1..(n + 1): s[i] \in T
  BY <1>1
<1> DEFINE old == SubSeq(s, 1, n)
           new == SubSeq(s, 1, n + 1)
<1>3. old \in Seq(T) /\ Len(old) = n /\ \A i \in 1..n: old[i] = s[i]
  BY <1>1, <1>2, SubSeqProperties
<1>4. new \in Seq(T) /\ Len(new) = n + 1 /\ \A i \in 1..(n + 1): new[i] = s[i]
  <2> DEFINE m == n + 1
  <2>1. m \in Nat /\ m <= Len(s) /\ \A i \in 1..m: s[i] \in T
    BY <1>1, <1>2
  <2> HIDE DEF m
  <2>2. SubSeq(s, 1, m) \in Seq(T) /\ Len(SubSeq(s, 1, m)) = m /\ \A i \in 1..m: SubSeq(s, 1, m)[i] = s[i]
    BY <2>1, SubSeqProperties
  <2> QED
    BY <2>2 DEF m
<1> HIDE DEF old, new
<1>5. DOMAIN new = 1..(Len(old) + 1) /\ new = [i \in DOMAIN new |-> new[i]]
  BY <1>3, <1>4
<1>6. \A i \in 1..Len(old): new[i] = old[i]
  BY <1>3, <1>4
<1>7. new[Len(old) + 1] = s[n + 1]
  BY <1>1, <1>3, <1>4
<1>8. new = Append(old, s[n + 1])
  BY <1>2, <1>3, <1>5, <1>6, <1>7, OneMore
<1> QED
  BY <1>2, <1>8 DEF old, new

-----------------------------------------------------------------------------------
(* FlattenSeq *)

(* f puts the first elements of ss, up to each i, one after the other. *)
Flattens(f, ss, n) ==
  f = [i \in 1..n |-> IF i = 1 THEN ss[i] ELSE f[i - 1] \o ss[i]]

LEMMA FlatteningGrows ==
  ASSUME NEW ss, NEW n \in Nat, NEW f, Flattens(f, ss, n)
  PROVE  \E g: Flattens(g, ss, n + 1)
<1> DEFINE last == IF n = 0 THEN ss[1] ELSE f[n] \o ss[n + 1]
           g    == [i \in 1..(n + 1) |-> IF i = n + 1 THEN last ELSE f[i]]
<1>1. \A i \in 1..(n + 1): i # n + 1 => i \in 1..n /\ (i # 1 => i - 1 \in 1..n)
  OBVIOUS
<1>2. \A i \in 1..n: f[i] = IF i = 1 THEN ss[i] ELSE f[i - 1] \o ss[i]
  BY DEF Flattens
<1>3. ASSUME NEW i \in 1..(n + 1)
      PROVE  g[i] = IF i = 1 THEN ss[i] ELSE g[i - 1] \o ss[i]
  <2>1. CASE i # n + 1
    <3>1. i \in 1..n /\ g[i] = f[i]
      BY <2>1
    <3>2. i # 1 => i - 1 \in 1..(n + 1) /\ i - 1 # n + 1
      OBVIOUS
    <3>3. i # 1 => g[i - 1] = f[i - 1]
      BY <3>2
    <3> QED
      BY <1>2, <3>1, <3>3
  <2>2. CASE i = n + 1
    <3>1. g[i] = last
      BY <2>2
    <3>2. n # 0 => n \in 1..(n + 1) /\ n # n + 1 /\ i - 1 = n
      BY <2>2
    <3>3. n # 0 => g[i - 1] = f[n]
      BY <3>2
    <3> QED
      BY <2>2, <3>1, <3>2, <3>3
  <2> QED
    BY <2>1, <2>2
<1>4. g = [i \in 1..(n + 1) |-> g[i]]
  OBVIOUS
<1> HIDE DEF g
<1>5. Flattens(g, ss, n + 1)
  BY <1>3, <1>4 DEF Flattens
<1> QED
  BY <1>5

LEMMA FlatteningExists ==
  ASSUME NEW ss, NEW n \in Nat
  PROVE  \E f: Flattens(f, ss, n)
<1> DEFINE S == {k \in Nat: \E f: Flattens(f, ss, k)}
<1>1. Flattens([i \in 1..0 |-> 0], ss, 0)
  BY DEF Flattens
<1>2. \A k \in S: k + 1 \in S
  BY FlatteningGrows
<1>3. S \in SUBSET Nat /\ 0 \in S
  BY <1>1
<1> HIDE DEF S
<1>4. S = Nat
  BY <1>2, <1>3, SetInduction
<1> QED
  BY <1>4 DEF S

LEMMA FlatteningValues ==
  ASSUME NEW ss, NEW n \in Nat, NEW f, Flattens(f, ss, n)
  PROVE  \A i \in 1..n: f[i] = IF i = 1 THEN ss[i] ELSE f[i - 1] \o ss[i]
BY DEF Flattens

Agree(f, g, n) == \A i \in 1..n: f[i] = g[i]

(* Two that flatten beginnings of the same sequences agree. *)
LEMMA FlatteningsAgree ==
  ASSUME NEW ss, NEW tt, NEW n \in Nat, NEW m \in Nat, n <= m, NEW f, NEW g,
         Flattens(f, ss, n), Flattens(g, tt, m),
         Agree(ss, tt, n)
  PROVE  Agree(f, g, n)
<1> DEFINE S == {k \in Nat: k \in 1..n => f[k] = g[k]}
<1>1. 0 \in S
  OBVIOUS
<1>2. ASSUME NEW k \in S, k + 1 \in 1..n
      PROVE  f[k + 1] = g[k + 1]
  <2>1. k \in Nat /\ k + 1 \in 1..m /\ (k + 1) - 1 = k
    BY <1>2
  <2>2. f[k + 1] = IF k + 1 = 1 THEN ss[k + 1] ELSE f[k] \o ss[k + 1]
    BY <1>2, <2>1, FlatteningValues
  <2>3. g[k + 1] = IF k + 1 = 1 THEN tt[k + 1] ELSE g[k] \o tt[k + 1]
    BY <2>1, FlatteningValues
  <2>4. k + 1 # 1 => f[k] = g[k]
    BY <1>2, <2>1
  <2>5. ss[k + 1] = tt[k + 1]
    BY <1>2 DEF Agree
  <2> QED
    BY <1>2, <2>2, <2>3, <2>4, <2>5
<1>3. S \in SUBSET Nat /\ \A k \in S: k + 1 \in S
  BY <1>2
<1> HIDE DEF S
<1>4. S = Nat
  BY <1>1, <1>3, SetInduction
<1> QED
  BY <1>4 DEF S, Agree

LEMMA FlattenIsAFlattening ==
  ASSUME NEW T, NEW ss \in Seq(T), ss # << >>
  PROVE  \E f: Flattens(f, ss, Len(ss)) /\ FlattenSeq(ss) = f[Len(ss)]
<1> DEFINE f == CHOOSE h: Flattens(h, ss, Len(ss))
<1>1. Len(ss) \in Nat /\ Len(ss) # 0
  BY EmptySeq
<1>2. Flattens(f, ss, Len(ss))
  BY <1>1, FlatteningExists
<1>3. FlattenSeq(ss) = f[Len(ss)]
  BY <1>1, Zenon DEF FlattenSeq, Flattens
<1> QED
  BY <1>2, <1>3

LEMMA FlattenEmpty == FlattenSeq(<< >>) = << >>
BY DEF FlattenSeq

LEMMA FlattenAppend ==
  ASSUME NEW S, NEW ss \in Seq(Seq(S)), NEW s \in Seq(S)
  PROVE  FlattenSeq(Append(ss, s)) = FlattenSeq(ss) \o s
<1> DEFINE tt == Append(ss, s)
           n  == Len(ss)
<1> DEFINE T == Seq(S)
<1>a. ss \in Seq(T) /\ s \in T
  OBVIOUS
<1> HIDE DEF T
<1>b. /\ n \in Nat /\ tt \in Seq(T) /\ Len(tt) = n + 1 /\ tt # << >>
      /\ \A i \in 1..n: tt[i] = ss[i]
      /\ tt[n + 1] = s
  BY <1>a, AppendProperties
<1>1. n \in Nat /\ tt \in Seq(Seq(S)) /\ Len(tt) = n + 1 /\ tt # << >>
  BY <1>b DEF T
<1>2. (\A i \in 1..n: tt[i] = ss[i]) /\ tt[n + 1] = s
  BY <1>b
<1> HIDE DEF tt
<1>3. PICK g: Flattens(g, tt, n + 1) /\ FlattenSeq(tt) = g[n + 1]
  BY <1>1, FlattenIsAFlattening
<1>4. g[n + 1] = IF n + 1 = 1 THEN tt[n + 1] ELSE g[(n + 1) - 1] \o tt[n + 1]
  BY <1>1, <1>3, FlatteningValues
<1>5. CASE ss = << >>
  <2>1. n = 0
    BY <1>5
  <2>2. FlattenSeq(ss) \o s = s
    BY <1>5, FlattenEmpty, ConcatEmptySeq
  <2> QED
    BY <1>2, <1>3, <1>4, <2>1, <2>2 DEF tt
<1>6. CASE ss # << >>
  <2>1. n # 0 /\ n \in 1..n
    BY <1>1, <1>6, EmptySeq
  <2>2. PICK f: Flattens(f, ss, n) /\ FlattenSeq(ss) = f[n]
    BY <1>6, FlattenIsAFlattening
  <2>3. f[n] = g[n]
    <3>1. n \in Nat /\ n + 1 \in Nat /\ n <= n + 1
      BY <1>1
    <3>2. Agree(ss, tt, n)
      BY <1>2 DEF Agree
    <3> HIDE DEF n
    <3>3. Agree(f, g, n)
      BY <1>3, <2>2, <3>1, <3>2, FlatteningsAgree
    <3> QED
      BY <2>1, <3>3 DEF Agree
  <2>4. (n + 1) - 1 = n /\ n + 1 # 1
    BY <1>1, <2>1
  <2> QED
    BY <1>2, <1>3, <1>4, <2>2, <2>3, <2>4 DEF tt
<1> QED
  BY <1>5, <1>6

(* A sequence is the sequence before its last element, and that element. *)
LEMMA SeqIsAppend ==
  ASSUME NEW S, NEW s \in Seq(S), NEW n \in Nat, Len(s) = n + 1
  PROVE  /\ SubSeq(s, 1, n) \in Seq(S) /\ Len(SubSeq(s, 1, n)) = n
         /\ s[n + 1] \in S
         /\ s = Append(SubSeq(s, 1, n), s[n + 1])
<1> DEFINE front == SubSeq(s, 1, n)
<1>1. \A i \in 1..n: s[i] \in S
  OBVIOUS
<1>2. front \in Seq(S) /\ Len(front) = n /\ \A i \in 1..n: front[i] = s[i]
  BY <1>1, SubSeqProperties
<1>3. s[n + 1] \in S
  OBVIOUS
<1> HIDE DEF front
<1> DEFINE t == Append(front, s[n + 1])
<1>4. t \in Seq(S) /\ Len(t) = n + 1 /\ \A i \in 1..(n + 1): t[i] = s[i]
  BY <1>2, <1>3
<1> HIDE DEF t
<1>5. s = t
  BY <1>4, SeqEqual
<1> QED
  BY <1>2, <1>3, <1>5 DEF t, front

LEMMA FlattenTyped ==
  ASSUME NEW S, NEW ss \in Seq(Seq(S))
  PROVE  FlattenSeq(ss) \in Seq(S)
<1> DEFINE N == {n \in Nat: \A rr \in Seq(Seq(S)): Len(rr) = n => FlattenSeq(rr) \in Seq(S)}
<1>1. 0 \in N
  BY FlattenEmpty, EmptySeq
<1>2. ASSUME NEW n \in N, NEW rr \in Seq(Seq(S)), Len(rr) = n + 1
      PROVE  FlattenSeq(rr) \in Seq(S)
  <2> DEFINE front == SubSeq(rr, 1, n)
  <2>1. /\ n \in Nat /\ front \in Seq(Seq(S)) /\ Len(front) = n
        /\ rr[n + 1] \in Seq(S) /\ rr = Append(front, rr[n + 1])
    BY <1>2, SeqIsAppend
  <2> HIDE DEF front
  <2>2. FlattenSeq(front) \in Seq(S)
    BY <2>1
  <2> HIDE DEF N
  <2>3. FlattenSeq(rr) = FlattenSeq(front) \o rr[n + 1]
    BY <2>1, FlattenAppend
  <2> QED
    BY <2>1, <2>2, <2>3, ConcatProperties
<1>3. N \in SUBSET Nat /\ \A n \in N: n + 1 \in N
  BY <1>2
<1> HIDE DEF N
<1>4. N = Nat
  BY <1>1, <1>3, SetInduction
<1> QED
  BY <1>4 DEF N

(* Nothing but empty sequences is nothing. *)
LEMMA NothingFlattened ==
  ASSUME NEW ss \in Seq(Seq({}))
  PROVE  FlattenSeq(ss) = << >>
<1>1. FlattenSeq(ss) \in Seq({})
  BY FlattenTyped
<1>2. \A s \in Seq({}): s = << >>
  <2> SUFFICES ASSUME NEW s \in Seq({}) PROVE s = << >>
    OBVIOUS
  <2>1. Len(s) \in Nat /\ \A i \in 1..Len(s): s[i] \in {}
    OBVIOUS
  <2>2. Len(s) = 0
    BY <2>1
  <2> QED
    BY <2>2, EmptySeq
<1> QED
  BY <1>1, <1>2

LEMMA FlattenConcat ==
  ASSUME NEW S, NEW ss \in Seq(Seq(S)), NEW tt \in Seq(Seq(S))
  PROVE  FlattenSeq(ss \o tt) = FlattenSeq(ss) \o FlattenSeq(tt)
<1> DEFINE N == {n \in Nat: \A rr \in Seq(Seq(S)):
                   Len(rr) = n => FlattenSeq(ss \o rr) = FlattenSeq(ss) \o FlattenSeq(rr)}
<1>1. 0 \in N
  <2> SUFFICES ASSUME NEW rr \in Seq(Seq(S)), Len(rr) = 0
               PROVE  FlattenSeq(ss \o rr) = FlattenSeq(ss) \o FlattenSeq(rr)
    OBVIOUS
  <2>1. rr = << >>
    BY EmptySeq
  <2>2. ss \o rr = ss
    BY <2>1, ConcatEmptySeq
  <2>3. FlattenSeq(ss) \o FlattenSeq(rr) = FlattenSeq(ss)
    BY <2>1, FlattenEmpty, FlattenTyped, ConcatEmptySeq
  <2> QED
    BY <2>2, <2>3
<1>2. ASSUME NEW n \in N, NEW rr \in Seq(Seq(S)), Len(rr) = n + 1
      PROVE  FlattenSeq(ss \o rr) = FlattenSeq(ss) \o FlattenSeq(rr)
  <2> DEFINE front == SubSeq(rr, 1, n)
             last  == rr[n + 1]
  <2>1. /\ n \in Nat /\ front \in Seq(Seq(S)) /\ Len(front) = n
        /\ last \in Seq(S) /\ rr = Append(front, last)
    BY <1>2, SeqIsAppend
  <2> HIDE DEF front, last
  <2>2. FlattenSeq(ss \o front) = FlattenSeq(ss) \o FlattenSeq(front)
    BY <2>1
  <2> HIDE DEF N
  <2>3. ss \o rr = Append(ss \o front, last) /\ ss \o front \in Seq(Seq(S))
    BY <2>1
  <2>4. FlattenSeq(ss \o rr) = (FlattenSeq(ss) \o FlattenSeq(front)) \o last
    BY <2>1, <2>2, <2>3, FlattenAppend
  <2>5. FlattenSeq(rr) = FlattenSeq(front) \o last
    BY <2>1, FlattenAppend
  <2>6. FlattenSeq(ss) \in Seq(S) /\ FlattenSeq(front) \in Seq(S)
    BY <2>1, FlattenTyped
  <2>7. FlattenSeq(ss) \o (FlattenSeq(front) \o last) = (FlattenSeq(ss) \o FlattenSeq(front)) \o last
    <3>1. last \in Seq(S)
      BY <2>1
    <3>2. Associates(FlattenSeq(ss), FlattenSeq(front), last)
      BY <2>6, <3>1, ConcatAssociates, Zenon
    <3> QED
      BY <3>2, Zenon DEF Associates
  <2> QED
    BY <2>4, <2>5, <2>7, Zenon
<1>3. \A n \in N: n \in Nat /\ n + 1 \in Nat
  OBVIOUS
<1>4. N \in SUBSET Nat /\ \A n \in N: n + 1 \in N
  BY <1>2, <1>3, Zenon
<1> HIDE DEF N
<1>5. N = Nat
  BY <1>1, <1>4, SetInduction
<1>6. Len(tt) \in N
  BY <1>5, LenProperties
<1> QED
  BY <1>6, Zenon DEF N

-----------------------------------------------------------------------------------
(* The last element of a kind *)

(* Where the elements of a sequence that are in P stand. *)
Places(s, P) == {i \in DOMAIN s: s[i] \in P}

LEMMA LastIsMax ==
  ASSUME NEW k \in Nat, NEW s \in SUBSET (1..(k + 1)), k + 1 \in s
  PROVE  Max(s) = k + 1
<1>1. \A y \in s: y \in Int /\ k + 1 >= y
  OBVIOUS
<1>2. \A x \in s: (\A y \in s: x >= y) => x = k + 1
  BY <1>1
<1> QED
  BY <1>1, <1>2 DEF Max

(* With e at its end, the last element in P is e itself or the one it was before. *)
LastIsNew(s, more, e, P) ==
  /\ e \in P => Places(more, P) # {} /\ more[Max(Places(more, P))] = e
  /\ e \notin P =>
       /\ Places(more, P) = Places(s, P)
       /\ Places(s, P) # {} => more[Max(Places(s, P))] = s[Max(Places(s, P))]

LEMMA LastPlace ==
  ASSUME NEW T, NEW s \in Seq(T), NEW e \in T, NEW P
  PROVE  LastIsNew(s, Append(s, e), e, P)
<1> DEFINE n    == Len(s)
           more == Append(s, e)
           old  == Places(s, P)
           new  == Places(Append(s, e), P)
<1>1. /\ n \in Nat /\ DOMAIN s = 1..n /\ DOMAIN more = 1..(n + 1)
      /\ \A i \in 1..n: more[i] = s[i]
      /\ more[n + 1] = e
  BY AppendFacts
<1> HIDE DEF more
<1>2. new = {i \in DOMAIN more: more[i] \in P}
  BY DEF more, Places
<1>3. old = {i \in DOMAIN s: s[i] \in P}
  BY DEF Places
<1> HIDE DEF n, old, new
<1>4. old \in SUBSET (1..n) /\ new \in SUBSET (1..(n + 1))
  BY <1>1, <1>2, <1>3
<1>5. \A i \in 1..n: i \in 1..(n + 1) /\ (i \in new <=> i \in old)
  BY <1>1, <1>2, <1>3
<1>6. n + 1 \in 1..(n + 1) /\ (n + 1 \in new <=> e \in P)
  BY <1>1, <1>2
<1>7. ASSUME e \in P
      PROVE  new # {} /\ more[Max(new)] = e
  <2>1. n + 1 \in new
    BY <1>6, <1>7
  <2>2. Max(new) = n + 1
    BY <1>1, <1>4, <2>1, LastIsMax
  <2> QED
    BY <1>1, <2>1, <2>2
<1>8. ASSUME e \notin P
      PROVE  new = old /\ (old # {} => more[Max(old)] = s[Max(old)])
  <2>1. n + 1 \notin new
    BY <1>6, <1>8
  <2>2. \A i \in 1..(n + 1): i # n + 1 => i \in 1..n
    BY <1>1
  <2>3. new = old
    <3>1. \A i \in new: i \in old
      BY <1>4, <1>5, <2>1, <2>2
    <3>2. \A i \in old: i \in new
      BY <1>4, <1>5
    <3> QED
      BY <3>1, <3>2
  <2>4. old # {} => Max(old) \in 1..n
    BY <1>1, <1>4, GreatestNumber
  <2> QED
    BY <1>1, <2>3, <2>4
<1> QED
  BY <1>7, <1>8 DEF more, old, new, LastIsNew

(* How many elements of a sequence are in P, as it grows. *)
LEMMA PlacesFinite ==
  ASSUME NEW T, NEW s \in Seq(T), NEW P
  PROVE  /\ IsFiniteSet(Places(s, P)) /\ Cardinality(Places(s, P)) \in Nat
         /\ Places(s, P) \in SUBSET (1..Len(s))
<1>1. Len(s) \in Nat /\ Places(s, P) \in SUBSET (1..Len(s))
  BY DEF Places
<1>2. IsFiniteSet(1..Len(s))
  BY <1>1, FS_Interval
<1>3. IsFiniteSet(Places(s, P))
  BY <1>1, <1>2, FS_Subset
<1> QED
  BY <1>1, <1>3, FS_CardinalityType

LEMMA CountOne ==
  ASSUME NEW T, NEW s \in Seq(T), NEW e \in T, NEW P
  PROVE  Cardinality(Places(Append(s, e), P)) =
           IF e \in P THEN Cardinality(Places(s, P)) + 1 ELSE Cardinality(Places(s, P))
<1> DEFINE n    == Len(s)
           more == Append(s, e)
           old  == Places(s, P)
           new  == Places(Append(s, e), P)
<1>1. /\ n \in Nat /\ DOMAIN s = 1..n /\ DOMAIN more = 1..(n + 1)
      /\ \A i \in 1..n: more[i] = s[i]
      /\ more[n + 1] = e
  BY AppendFacts
<1>2. IsFiniteSet(old)
  BY PlacesFinite
<1> HIDE DEF more
<1>3. new = {i \in DOMAIN more: more[i] \in P} /\ old = {i \in DOMAIN s: s[i] \in P}
  BY DEF more, Places
<1> HIDE DEF n, old, new
<1>4. n + 1 \notin old
  BY <1>1, <1>3
<1>5. CASE e \in P
  <2>1. new = old \cup {n + 1}
    <3>1. \A i \in new: i \in old \/ i = n + 1
      BY <1>1, <1>3
    <3>2. \A i \in old: i \in new
      BY <1>1, <1>3
    <3>3. n + 1 \in new
      BY <1>1, <1>3, <1>5
    <3> QED
      BY <3>1, <3>2, <3>3
  <2>2. Cardinality(new) = Cardinality(old) + 1
    BY <1>2, <1>4, <2>1, FS_AddElement
  <2> QED
    BY <1>5, <2>2 DEF old, new
<1>6. CASE e \notin P
  <2>1. new = old
    <3>1. \A i \in new: i \in old
      BY <1>1, <1>3, <1>6
    <3>2. \A i \in old: i \in new
      BY <1>1, <1>3
    <3> QED
      BY <3>1, <3>2
  <2> QED
    BY <1>6, <2>1 DEF old, new
<1> QED
  BY <1>5, <1>6

LEMMA CountNothing ==
  ASSUME NEW T, NEW s \in Seq(T), NEW r \in Seq(T), NEW P, \A i \in 1..Len(r): r[i] \notin P
  PROVE  Places(s \o r, P) = Places(s, P)
<1> DEFINE all == s \o r
<1>1. /\ Len(s) \in Nat /\ Len(r) \in Nat /\ DOMAIN s = 1..Len(s)
      /\ all \in Seq(T) /\ Len(all) = Len(s) + Len(r)
      /\ \A i \in 1..(Len(s) + Len(r)): all[i] = IF i <= Len(s) THEN s[i] ELSE r[i - Len(s)]
  BY ConcatProperties, LenProperties
<1> HIDE DEF all
<1>2. DOMAIN all = 1..(Len(s) + Len(r))
  BY <1>1
<1>3. \A i \in Places(all, P): i \in Places(s, P)
  <2> SUFFICES ASSUME NEW i \in Places(all, P) PROVE i \in Places(s, P)
    OBVIOUS
  <2>1. i \in 1..(Len(s) + Len(r)) /\ all[i] \in P
    BY <1>2 DEF Places
  <2>2. ~(i <= Len(s)) => i - Len(s) \in 1..Len(r)
    BY <1>1, <2>1
  <2>3. i <= Len(s)
    BY <1>1, <2>1, <2>2
  <2>4. i \in 1..Len(s) /\ s[i] \in P
    BY <1>1, <2>1, <2>3
  <2> QED
    BY <1>1, <2>4 DEF Places
<1>4. \A i \in Places(s, P): i \in Places(all, P)
  <2> SUFFICES ASSUME NEW i \in Places(s, P) PROVE i \in Places(all, P)
    OBVIOUS
  <2>1. i \in 1..Len(s) /\ s[i] \in P
    BY <1>1 DEF Places
  <2>2. i \in 1..(Len(s) + Len(r)) /\ i <= Len(s)
    BY <1>1, <2>1
  <2>3. all[i] \in P
    BY <1>1, <2>1, <2>2
  <2> QED
    BY <1>2, <2>2, <2>3 DEF Places
<1> QED
  BY <1>3, <1>4 DEF all

-----------------------------------------------------------------------------------
(* Sums *)

(* What FoldLeft adds up. *)
Total(numbers) == FoldLeft(LAMBDA sum, n: sum + n, 0, numbers)

(* iter adds up the elements at any set of the first k positions. *)
Adds(iter, numbers, k) ==
  iter = [s \in SUBSET (1..k) |-> IF s = {} THEN 0 ELSE iter[s \ {Max(s)}] + numbers[Max(s)]]

LEMMA SumsGrow ==
  ASSUME NEW numbers, NEW k \in Nat, NEW f, Adds(f, numbers, k)
  PROVE  \E g: Adds(g, numbers, k + 1)
<1> DEFINE g == [s \in SUBSET (1..(k + 1)) |->
                   IF k + 1 \in s THEN f[s \ {k + 1}] + numbers[k + 1] ELSE f[s]]
<1>1. \A s \in SUBSET (1..(k + 1)): s \ {k + 1} \in SUBSET (1..k)
  OBVIOUS
<1>2. \A s \in SUBSET (1..k): f[s] = IF s = {} THEN 0 ELSE f[s \ {Max(s)}] + numbers[Max(s)]
  BY Zenon DEF Adds
<1>3. ASSUME NEW s \in SUBSET (1..(k + 1))
      PROVE  g[s] = IF s = {} THEN 0 ELSE g[s \ {Max(s)}] + numbers[Max(s)]
  <2>1. CASE k + 1 \in s
    <3>1. Max(s) = k + 1 /\ s # {}
      BY <2>1, LastIsMax
    <3>2. g[s] = f[s \ {k + 1}] + numbers[k + 1]
      BY <2>1
    <3>3. s \ {k + 1} \in SUBSET (1..(k + 1)) /\ k + 1 \notin s \ {k + 1}
      OBVIOUS
    <3>4. g[s \ {k + 1}] = f[s \ {k + 1}]
      BY <3>3
    <3> HIDE DEF g
    <3> QED
      BY <3>1, <3>2, <3>4
  <2>2. CASE k + 1 \notin s
    <3>1. s \in SUBSET (1..k)
      BY <1>1, <2>2
    <3>2. g[s] = f[s]
      BY <2>2
    <3>3. s \ {Max(s)} \in SUBSET (1..(k + 1)) /\ k + 1 \notin s \ {Max(s)}
      BY <2>2
    <3>4. g[s \ {Max(s)}] = f[s \ {Max(s)}]
      BY <3>3
    <3> HIDE DEF g
    <3> QED
      BY <1>2, <3>1, <3>2, <3>4
  <2> QED
    BY <2>1, <2>2
<1>4. g = [s \in SUBSET (1..(k + 1)) |-> g[s]]
  OBVIOUS
<1> HIDE DEF g
<1>5. Adds(g, numbers, k + 1)
  BY <1>3, <1>4 DEF Adds
<1> QED
  BY <1>5

LEMMA SumsExist ==
  ASSUME NEW numbers, NEW n \in Nat
  PROVE  \E f: Adds(f, numbers, n)
<1> DEFINE S == {k \in Nat: \E f: Adds(f, numbers, k)}
<1>1. Adds([s \in SUBSET (1..0) |-> 0], numbers, 0)
  BY DEF Adds
<1>2. \A k \in S: k + 1 \in S
  BY SumsGrow
<1>3. S \in SUBSET Nat /\ 0 \in S
  BY <1>1
<1> HIDE DEF S
<1>4. S = Nat
  BY <1>2, <1>3, SetInduction
<1> QED
  BY <1>4 DEF S

LEMMA SumValues ==
  ASSUME NEW numbers, NEW n \in Nat, NEW f, Adds(f, numbers, n)
  PROVE  /\ f[1..0] = 0
         /\ \A i \in 0..(n - 1): f[1..(i + 1)] = f[1..i] + numbers[i + 1]
<1>1. \A s \in SUBSET (1..n): f[s] = IF s = {} THEN 0 ELSE f[s \ {Max(s)}] + numbers[Max(s)]
  BY Zenon DEF Adds
<1>2. 1..0 = {} /\ 1..0 \in SUBSET (1..n)
  OBVIOUS
<1>3. ASSUME NEW i \in 0..(n - 1)
      PROVE  f[1..(i + 1)] = f[1..i] + numbers[i + 1]
  <2> DEFINE s == 1..(i + 1)
  <2>1. s \in SUBSET (1..n) /\ s # {} /\ s \ {i + 1} = 1..i
    OBVIOUS
  <2>2. Max(s) = i + 1
    BY LastIsMax
  <2> HIDE DEF s
  <2>3. f[s] = f[1..i] + numbers[i + 1]
    BY <1>1, <2>1, <2>2
  <2> QED
    BY <2>3 DEF s
<1> QED
  BY <1>1, <1>2, <1>3

LEMMA TotalIsASum ==
  ASSUME NEW T, NEW numbers \in Seq(T)
  PROVE  \E f: Adds(f, numbers, Len(numbers)) /\ Total(numbers) = f[1..Len(numbers)]
<1> DEFINE f == CHOOSE h: Adds(h, numbers, Len(numbers))
<1>1. Adds(f, numbers, Len(numbers))
  BY SumsExist, LenProperties
<1>2. DOMAIN numbers = 1..Len(numbers)
  OBVIOUS
<1>3. Total(numbers) = f[1..Len(numbers)]
  BY <1>2, Zenon DEF Total, FoldLeft, MapThenFoldSet, Adds
<1> QED
  BY <1>1, <1>3

LEMMA TotalEmpty == Total(<< >>) = 0
<1>1. << >> \in Seq(Nat) /\ Len(<< >>) = 0
  OBVIOUS
<1>2. PICK f: Adds(f, << >>, 0) /\ Total(<< >>) = f[1..0]
  BY <1>1, TotalIsASum
<1> QED
  BY <1>2, SumValues

LEMMA SumsAgree ==
  ASSUME NEW ss, NEW tt, NEW n \in Nat, NEW m \in Nat, n <= m, NEW f, NEW g,
         Adds(f, ss, n), Adds(g, tt, m),
         Agree(ss, tt, n)
  PROVE  f[1..n] = g[1..n]
<1> DEFINE S == {k \in Nat: k \in 0..n => f[1..k] = g[1..k]}
<1>1. 0 \in S
  <2>1. f[1..0] = 0
    BY SumValues
  <2>2. g[1..0] = 0
    BY SumValues
  <2> QED
    BY <2>1, <2>2
<1>2. ASSUME NEW k \in S, k + 1 \in 0..n
      PROVE  f[1..(k + 1)] = g[1..(k + 1)]
  <2>1. k \in 0..(n - 1) /\ k \in 0..(m - 1) /\ f[1..k] = g[1..k]
    BY <1>2
  <2> HIDE DEF S
  <2>2. f[1..(k + 1)] = f[1..k] + ss[k + 1]
    BY <2>1, SumValues
  <2>3. g[1..(k + 1)] = g[1..k] + tt[k + 1]
    BY <2>1, SumValues
  <2>4. ss[k + 1] = tt[k + 1]
    BY <2>1 DEF Agree
  <2> QED
    BY <2>1, <2>2, <2>3, <2>4
<1>3. S \in SUBSET Nat /\ \A k \in S: k + 1 \in S
  BY <1>2
<1> HIDE DEF S
<1>4. S = Nat
  BY <1>1, <1>3, SetInduction
<1> QED
  BY <1>4 DEF S

LEMMA TotalAppend ==
  ASSUME NEW T, NEW ss \in Seq(T), NEW s \in T
  PROVE  Total(Append(ss, s)) = Total(ss) + s
<1> DEFINE tt == Append(ss, s)
           n  == Len(ss)
<1>1. n \in Nat /\ tt \in Seq(T) /\ Len(tt) = n + 1 /\ n <= n + 1
  OBVIOUS
<1>2. Agree(ss, tt, n)
  BY DEF Agree
<1>3. tt[n + 1] = s
  OBVIOUS
<1>4. PICK f: Adds(f, ss, n) /\ Total(ss) = f[1..n]
  BY TotalIsASum
<1> HIDE DEF tt, n
<1>5. PICK g: Adds(g, tt, n + 1) /\ Total(tt) = g[1..(n + 1)]
  BY <1>1, TotalIsASum
<1>6. g[1..(n + 1)] = g[1..n] + tt[n + 1]
  BY <1>1, <1>5, SumValues
<1>7. f[1..n] = g[1..n]
  BY <1>1, <1>2, <1>4, <1>5, SumsAgree
<1> QED
  BY <1>3, <1>4, <1>5, <1>6, <1>7 DEF tt

LEMMA TotalTyped ==
  ASSUME NEW numbers \in Seq(Nat)
  PROVE  Total(numbers) \in Nat
<1> DEFINE N == {n \in Nat: \A s \in Seq(Nat): Len(s) = n => Total(s) \in Nat}
<1>1. 0 \in N
  BY TotalEmpty, EmptySeq
<1>2. ASSUME NEW n \in N, NEW s \in Seq(Nat), Len(s) = n + 1
      PROVE  Total(s) \in Nat
  <2> DEFINE front == SubSeq(s, 1, n)
  <2>1. /\ n \in Nat /\ front \in Seq(Nat) /\ Len(front) = n
        /\ s[n + 1] \in Nat /\ s = Append(front, s[n + 1])
    BY <1>2, SeqIsAppend
  <2> HIDE DEF front
  <2>2. Total(front) \in Nat
    BY <2>1
  <2> HIDE DEF N
  <2>3. Total(s) = Total(front) + s[n + 1]
    BY <2>1, TotalAppend
  <2> QED
    BY <2>1, <2>2, <2>3
<1>3. N \in SUBSET Nat /\ \A n \in N: n + 1 \in N
  BY <1>2
<1> HIDE DEF N
<1>4. N = Nat
  BY <1>1, <1>3, SetInduction
<1> QED
  BY <1>4 DEF N

LEMMA TotalConcat ==
  ASSUME NEW ss \in Seq(Nat), NEW tt \in Seq(Nat)
  PROVE  Total(ss \o tt) = Total(ss) + Total(tt)
<1> DEFINE N == {n \in Nat: \A s \in Seq(Nat): Len(s) = n => Total(ss \o s) = Total(ss) + Total(s)}
<1>1. 0 \in N
  <2> SUFFICES ASSUME NEW s \in Seq(Nat), Len(s) = 0
               PROVE  Total(ss \o s) = Total(ss) + Total(s)
    OBVIOUS
  <2>1. s = << >> /\ ss \o s = ss
    BY EmptySeq, ConcatEmptySeq
  <2> QED
    BY <2>1, TotalEmpty, TotalTyped
<1>2. ASSUME NEW n \in N, NEW s \in Seq(Nat), Len(s) = n + 1
      PROVE  Total(ss \o s) = Total(ss) + Total(s)
  <2> DEFINE front == SubSeq(s, 1, n)
             last  == s[n + 1]
  <2>1. /\ n \in Nat /\ front \in Seq(Nat) /\ Len(front) = n
        /\ last \in Nat /\ s = Append(front, last)
    BY <1>2, SeqIsAppend
  <2> HIDE DEF front, last
  <2>2. Total(ss \o front) = Total(ss) + Total(front)
    BY <2>1
  <2> HIDE DEF N
  <2>3. ss \o s = Append(ss \o front, last) /\ ss \o front \in Seq(Nat)
    BY <2>1
  <2>4. Total(ss \o s) = Total(ss \o front) + last
    BY <2>1, <2>3, TotalAppend
  <2>5. Total(s) = Total(front) + last
    BY <2>1, TotalAppend
  <2>6. Total(ss) \in Nat /\ Total(front) \in Nat
    BY <2>1, TotalTyped
  <2> QED
    BY <2>1, <2>2, <2>4, <2>5, <2>6
<1>3. \A n \in N: n \in Nat /\ n + 1 \in Nat
  OBVIOUS
<1>4. N \in SUBSET Nat /\ \A n \in N: n + 1 \in N
  BY <1>2, <1>3, Zenon
<1> HIDE DEF N
<1>5. N = Nat
  BY <1>1, <1>4, SetInduction
<1>6. Len(tt) \in N
  BY <1>5, LenProperties
<1> QED
  BY <1>6, Zenon DEF N

-----------------------------------------------------------------------------------
(* Where the parts lie in a flattened sequence *)

(* The first n parts lie in flat from start on, one after the other and with nothing between. *)
Spread(flat, parts, start, n) ==
  /\ start[n + 1] \in Nat /\ Len(flat) = start[n + 1]
  /\ \A k \in 1..n:
       /\ start[k] \in Nat
       /\ \A i \in 1..Len(parts[k]):
            start[k] + i \in 1..Len(flat) /\ flat[start[k] + i] = parts[k][i]
  /\ \A p \in 1..Len(flat): \E k \in 1..n: \E i \in 1..Len(parts[k]): p = start[k] + i

LEMMA SpreadGrows ==
  ASSUME NEW S, NEW flat \in Seq(S), NEW parts \in Seq(Seq(S)), NEW start, NEW n \in Nat,
         n + 1 \in 1..Len(parts), Spread(flat, parts, start, n),
         start[(n + 1) + 1] = start[n + 1] + Len(parts[n + 1])
  PROVE  Spread(flat \o parts[n + 1], parts, start, n + 1)
<1> DEFINE last == parts[n + 1]
           more == flat \o last
           here == start[n + 1]
<1>1. last \in Seq(S) /\ Len(last) \in Nat
  OBVIOUS
<1>2. here \in Nat /\ Len(flat) = here
  BY DEF Spread
<1> HIDE DEF here
<1>3. /\ more \in Seq(S) /\ Len(more) = here + Len(last)
      /\ \A i \in 1..here: more[i] = flat[i]
      /\ \A i \in 1..Len(last): here + i \in 1..(here + Len(last)) /\ more[here + i] = last[i]
  <2>1. /\ more \in Seq(S) /\ Len(more) = here + Len(last)
        /\ \A i \in 1..(here + Len(last)): more[i] = IF i <= here THEN flat[i] ELSE last[i - here]
    BY <1>1, <1>2, ConcatProperties
  <2> HIDE DEF more, last
  <2>2. \A i \in 1..here: i \in 1..(here + Len(last)) /\ i <= here
    BY <1>1, <1>2
  <2>3. \A i \in 1..Len(last): /\ here + i \in 1..(here + Len(last))
                               /\ ~(here + i <= here) /\ (here + i) - here = i
    BY <1>1, <1>2
  <2> QED
    BY <2>1, <2>2, <2>3
<1> HIDE DEF more
<1>4. ASSUME NEW k \in 1..(n + 1)
      PROVE  /\ start[k] \in Nat
             /\ \A i \in 1..Len(parts[k]): start[k] + i \in 1..Len(more) /\ more[start[k] + i] = parts[k][i]
  <2>1. CASE k = n + 1
    BY <1>2, <1>3, <2>1 DEF here
  <2>2. CASE k \in 1..n
    <3>1. /\ start[k] \in Nat
          /\ \A i \in 1..Len(parts[k]): start[k] + i \in 1..here /\ flat[start[k] + i] = parts[k][i]
      BY <1>2, <2>2 DEF Spread
    <3>2. \A i \in 1..here: i \in 1..Len(more)
      BY <1>1, <1>2, <1>3
    <3> QED
      BY <1>3, <3>1, <3>2
  <2> QED
    BY <2>1, <2>2
<1>5. ASSUME NEW p \in 1..Len(more)
      PROVE  \E k \in 1..(n + 1): \E i \in 1..Len(parts[k]): p = start[k] + i
  <2>1. CASE p \in 1..here
    <3>1. PICK k \in 1..n: \E i \in 1..Len(parts[k]): p = start[k] + i
      BY <1>2, <2>1 DEF Spread
    <3>2. k \in 1..(n + 1)
      OBVIOUS
    <3> QED
      BY <3>1, <3>2
  <2>2. CASE p \notin 1..here
    <3>1. p - here \in 1..Len(last) /\ p = here + (p - here)
      BY <1>1, <1>2, <1>3, <2>2
    <3>2. n + 1 \in 1..(n + 1)
      OBVIOUS
    <3> QED
      BY <3>1, <3>2 DEF here
  <2> QED
    BY <2>1, <2>2
<1>6. start[(n + 1) + 1] \in Nat /\ Len(more) = start[(n + 1) + 1]
  BY <1>1, <1>2, <1>3 DEF here
<1> QED
  BY <1>4, <1>5, <1>6 DEF Spread, more

LEMMA FlattenSpreads ==
  ASSUME NEW S, NEW parts \in Seq(Seq(S)), NEW start,
         start[1] = 0,
         \A k \in 1..Len(parts): start[k + 1] = start[k] + Len(parts[k])
  PROVE  Spread(FlattenSeq(parts), parts, start, Len(parts))
<1> DEFINE Flat(n) == FlattenSeq(SubSeq(parts, 1, n))
           N == {n \in Nat: n <= Len(parts) => Spread(Flat(n), parts, start, n)}
<1>1. 0 \in N
  <2>1. SubSeq(parts, 1, 0) = << >>
    OBVIOUS
  <2>2. Flat(0) = << >>
    BY <2>1, FlattenEmpty
  <2> HIDE DEF Flat
  <2>3. Spread(Flat(0), parts, start, 0)
    BY <2>2 DEF Spread
  <2> QED
    BY <2>3
<1>2. ASSUME NEW n \in N, n + 1 <= Len(parts)
      PROVE  Spread(Flat(n + 1), parts, start, n + 1)
  <2>1. n \in Nat /\ Len(parts) \in Nat
    OBVIOUS
  <2>2. n <= Len(parts) /\ n < Len(parts) /\ n + 1 \in 1..Len(parts)
    BY <1>2, <2>1
  <2>3. Spread(Flat(n), parts, start, n)
    BY <2>2
  <2> HIDE DEF N
  <2>4. /\ parts[n + 1] \in Seq(S)
        /\ SubSeq(parts, 1, n + 1) = Append(SubSeq(parts, 1, n), parts[n + 1])
    BY <2>1, <2>2, NextSlice
  <2>5. SubSeq(parts, 1, n) \in Seq(Seq(S))
    BY <2>1, <2>2, TwoSlices
  <2>6. Flat(n + 1) = Flat(n) \o parts[n + 1]
    BY <2>4, <2>5, FlattenAppend
  <2>7. Flat(n) \in Seq(S)
    BY <2>5, FlattenTyped
  <2> HIDE DEF Flat
  <2>8. start[(n + 1) + 1] = start[n + 1] + Len(parts[n + 1])
    BY <2>2
  <2>9. Spread(Flat(n) \o parts[n + 1], parts, start, n + 1)
    BY <2>1, <2>2, <2>3, <2>7, <2>8, SpreadGrows
  <2> QED
    BY <2>6, <2>9
<1>3. N \in SUBSET Nat /\ \A n \in N: n + 1 \in N
  <2> HIDE DEF Flat
  <2>1. \A n \in N: n + 1 \in Nat
    OBVIOUS
  <2> QED
    BY <1>2, <2>1
<1> HIDE DEF N, Flat
<1>4. N = Nat
  BY <1>1, <1>3, SetInduction
<1>5. Spread(Flat(Len(parts)), parts, start, Len(parts))
  BY <1>4, LenProperties DEF N
<1>6. SubSeq(parts, 1, Len(parts)) = parts
  BY WholeSlice
<1> QED
  BY <1>5, <1>6 DEF Flat

===================================================================================
