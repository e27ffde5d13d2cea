----------------------------- MODULE VstrFacts -----------------------------
(***************************************************************************)
(* Facts about numbers, finite sets and sequences that the proofs about    *)
(* the components use.                                                     *)
(***************************************************************************)
EXTENDS Integers, Sequences, FiniteSets, FiniteSetTheorems, SequenceTheorems,
        WellFoundedInduction, TLAPS

(* A loop that looks for the first one finds it: a set of naturals that is *)
(* not empty has a least element.                                          *)
LEMMA LeastNat ==
  ASSUME NEW T \in SUBSET Nat, T # {}
  PROVE  \E m \in T : \A k \in T : m <= k
<1> DEFINE Less == {ss \in Nat \X Nat : ss[1] < ss[2]}
<1>1. IsWellFoundedOn(Less, Nat)
  BY NatLessThanWellFounded DEF OpToRel
<1>2. PICK m \in T : \A k \in T : ~(<<k, m>> \in Less)
  <2> HIDE DEF Less
  <2> QED BY <1>1, WFMin
<1>3. \A k \in T : m <= k
  <2> TAKE k \in T
  <2>1. k \in Nat /\ m \in Nat /\ ~(<<k, m>> \in Less)
    BY <1>2
  <2> QED BY <2>1
<1> QED BY <1>3

(* A loop that looks for the last one finds it. *)
LEMMA GreatestNat ==
  ASSUME NEW n \in Nat, NEW T \in SUBSET (0 .. n), T # {}
  PROVE  \E m \in T : \A k \in T : k <= m
<1> DEFINE D == {d \in 0 .. n : n - d \in T}
<1>1. D # {} /\ D \in SUBSET Nat
  <2>1. PICK t \in T : TRUE
    OBVIOUS
  <2>2. t \in 0 .. n /\ n - t \in 0 .. n /\ n - (n - t) = t
    OBVIOUS
  <2> QED BY <2>2
<1>2. PICK d \in D : \A k \in D : d <= k
  <2> HIDE DEF D
  <2> QED BY <1>1, LeastNat
<1>3. \A k \in T : n - k \in D
  OBVIOUS
<1>4. \A k \in T : k <= n - d
  BY <1>2, <1>3
<1> QED BY <1>2, <1>4

(* The numbers of the entries of a table are finitely many. *)
LEMMA FiniteUpto ==
  ASSUME NEW n \in Nat
  PROVE  IsFiniteSet(1 .. n)
<1>1. 1 \in Int /\ n \in Int
  OBVIOUS
<1> QED
  BY ONLY <1>1, FS_Interval, Zenon

(* One more or one less of a finite set. *)
LEMMA CardAdd ==
  ASSUME NEW S, IsFiniteSet(S), NEW x, x \notin S
  PROVE  /\ IsFiniteSet(S \cup {x})
         /\ Cardinality(S \cup {x}) = Cardinality(S) + 1
BY FS_AddElement

(* One less of a finite set. *)
LEMMA CardDel ==
  ASSUME NEW S, IsFiniteSet(S), NEW x \in S
  PROVE  /\ IsFiniteSet(S \ {x})
         /\ Cardinality(S \ {x}) = Cardinality(S) - 1
BY FS_RemoveElement

(* The size of a set that only e can enter or leave. *)
LEMMA CardMove ==
  ASSUME NEW S, IsFiniteSet(S), NEW T, NEW e, \A a : a # e => (a \in S <=> a \in T)
  PROVE  /\ IsFiniteSet(T)
         /\ Cardinality(T) = Cardinality(S) + (IF e \in T THEN 1 ELSE 0)
                             - (IF e \in S THEN 1 ELSE 0)
<1>1. Cardinality(S) \in Nat
  BY FS_CardinalityType
<1>2. CASE e \in S /\ e \notin T
  <2>1. T = S \ {e}
    BY <1>2
  <2>2. IsFiniteSet(T) /\ Cardinality(T) = Cardinality(S) - 1
    BY <1>2, <2>1, CardDel
  <2> QED BY <1>1, <1>2, <2>2
<1>3. CASE e \notin S /\ e \in T
  <2>1. T = S \cup {e}
    BY <1>3
  <2>2. IsFiniteSet(T) /\ Cardinality(T) = Cardinality(S) + 1
    BY <1>3, <2>1, CardAdd
  <2> QED BY <1>1, <1>3, <2>2
<1>4. CASE e \in S <=> e \in T
  <2>1. T = S
    BY <1>4
  <2> QED BY <1>1, <1>4, <2>1
<1> QED BY <1>2, <1>3, <1>4

(* The k-th of a set of numbers. *)
LEMMA NthOf ==
  ASSUME NEW n \in Nat, NEW F \in SUBSET (1 .. n), NEW k \in Nat, 1 <= k, k <= Cardinality(F)
  PROVE  \E x \in F : Cardinality({y \in F : y < x}) = k - 1
<1> DEFINE B(x) == {y \in F : y < x}
           T == {x \in 0 .. n : Cardinality(B(x)) <= k - 1}
<1>0. \A y \in F : y \in Int /\ 1 <= y /\ y <= n
  OBVIOUS
<1>1. IsFiniteSet(F) /\ Cardinality(F) \in Nat
  BY FiniteUpto, FS_Subset, FS_CardinalityType
<1>2. \A x : IsFiniteSet(B(x)) /\ Cardinality(B(x)) \in Nat
  BY <1>1, FS_Subset, FS_CardinalityType
<1>3. 0 \in T /\ T \in SUBSET (0 .. n)
  <2>1. B(0) = {}
    <3>1. \A y \in F : ~(y < 0)
      BY <1>0
    <3> QED BY ONLY <3>1, Zenon
  <2>2. Cardinality(B(0)) = 0
    BY <2>1, FS_EmptySet
  <2> QED BY <2>2
<1>4. PICK x \in T : \A l \in T : l <= x
  <2> HIDE DEF T
  <2> QED BY <1>3, GreatestNat
<1>5. x \in 0 .. n /\ x \in Int /\ Cardinality(B(x)) <= k - 1
  OBVIOUS
<1>a. \A y \in F : (y < x + 1) <=> (y < x \/ y = x)
  <2> HIDE DEF T
  <2> QED BY <1>0, <1>5
<1>b. ~(x < x) /\ (x = n => \A y \in F : y < x + 1)
  <2> HIDE DEF T
  <2> QED BY <1>0, <1>5
<1>6. x \notin F => B(x + 1) = B(x)
  <2> SUFFICES ASSUME x \notin F PROVE \A y : y \in B(x + 1) <=> y \in B(x)
    OBVIOUS
  <2> QED BY <1>a
<1>7. x \in F => B(x + 1) = B(x) \cup {x} /\ x \notin B(x)
  <2> SUFFICES ASSUME x \in F PROVE (\A y : y \in B(x + 1) <=> y \in B(x) \cup {x}) /\ x \notin B(x)
    OBVIOUS
  <2> QED BY <1>a, <1>b
<1>8. x \in F => Cardinality(B(x + 1)) = Cardinality(B(x)) + 1
  <2> HIDE DEF B
  <2> QED BY <1>2, <1>7, CardAdd
<1>9. Cardinality(B(x + 1)) > k - 1
  <2>1. CASE x = n
    <3>1. B(x + 1) = F
      BY <1>b, <2>1
    <3>2. k <= Cardinality(B(x + 1)) /\ Cardinality(B(x + 1)) \in Nat
      BY ONLY <1>1, <3>1, k <= Cardinality(F)
    <3> HIDE DEF B
    <3> QED BY <3>2
  <2>2. CASE x # n
    <3>1. x + 1 \in 0 .. n /\ ~(x + 1 <= x)
      BY ONLY <1>5, <2>2, n \in Nat
    <3>2. x + 1 \notin T
      BY ONLY <1>4, <3>1
    <3>3. ~(Cardinality(B(x + 1)) <= k - 1)
      BY <3>1, <3>2
    <3> HIDE DEF B
    <3> QED BY <1>2, <3>3
  <2> QED BY <2>1, <2>2
<1> HIDE DEF B
<1>10. x \in F
  BY <1>2, <1>5, <1>6, <1>9
<1>11. Cardinality(B(x)) = k - 1
  BY <1>2, <1>5, <1>8, <1>9, <1>10
<1> QED BY <1>10, <1>11 DEF B

IsRec(f, n, a, g) == f = [k \in 0 .. n |-> IF k = 0 THEN a ELSE g[<<k, f[k - 1]>>]]

(* What a loop that is written as a recursive function computes: with the  *)
(* first value and the turns given there is such a function, ...           *)
LEMMA RecExists ==
  ASSUME NEW n \in Nat, NEW a, NEW g
  PROVE  \E f : IsRec(f, n, a, g)
<1> DEFINE P(m) == \E f : f = [k \in 0 .. m |-> IF k = 0 THEN a ELSE g[<<k, f[k - 1]>>]]
           T == {m \in 0 .. n : ~P(m)}
<1>1. ASSUME T # {} PROVE FALSE
  <2>1. PICK m \in T : \A k \in T : m <= k
    <3>1. T \in SUBSET Nat
      OBVIOUS
    <3> HIDE DEF T
    <3> QED BY <1>1, <3>1, LeastNat
  <2>2. m \in 0 .. n /\ ~P(m)
    BY <2>1
  <2>3. CASE m = 0
    <3> DEFINE f == [k \in 0 .. 0 |-> a]
    <3>1. f = [k \in 0 .. 0 |-> IF k = 0 THEN a ELSE g[<<k, f[k - 1]>>]]
      OBVIOUS
    <3>2. P(0)
      <4> HIDE DEF f
      <4> QED BY <3>1
    <3> QED BY <2>2, <2>3, <3>2
  <2>4. CASE m # 0
    <3>1. m - 1 \in 0 .. n /\ m \in Nat /\ m - 1 \notin T
      BY <2>1, <2>2, <2>4
    <3>2. P(m - 1)
      BY <3>1
    <3>3. PICK h : h = [k \in 0 .. m - 1 |-> IF k = 0 THEN a ELSE g[<<k, h[k - 1]>>]]
      BY <3>2
    <3> DEFINE f == [k \in 0 .. m |-> IF k = m THEN g[<<m, h[m - 1]>>] ELSE h[k]]
    <3>4. \A k \in 0 .. m : f[k] = IF k = 0 THEN a ELSE g[<<k, f[k - 1]>>]
      <4> TAKE k \in 0 .. m
      <4>1. CASE k = m
        <5>1. m - 1 \in 0 .. m /\ m - 1 # m /\ m \in 0 .. m
          BY <3>1, <2>4
        <5>2. f[m] = g[<<m, h[m - 1]>>] /\ f[m - 1] = h[m - 1]
          BY <5>1
        <5> QED BY <2>4, <4>1, <5>2
      <4>2. CASE k # m
        <5>1. k \in 0 .. m - 1 /\ (k # 0 => k - 1 \in 0 .. m - 1 /\ k - 1 \in 0 .. m /\ k - 1 # m)
          BY <3>1, <4>2
        <5>2. f[k] = h[k] /\ (k # 0 => f[k - 1] = h[k - 1])
          BY <4>2, <5>1
        <5>3. h[k] = IF k = 0 THEN a ELSE g[<<k, h[k - 1]>>]
          BY <3>3, <5>1
        <5> QED BY <5>2, <5>3
      <4> QED BY <4>1, <4>2
    <3>5. f = [k \in 0 .. m |-> f[k]]
      OBVIOUS
    <3>6. f = [k \in 0 .. m |-> IF k = 0 THEN a ELSE g[<<k, f[k - 1]>>]]
      <4> HIDE DEF f
      <4> QED BY <3>4, <3>5
    <3>7. P(m)
      <4> HIDE DEF f
      <4> QED BY <3>6
    <3> QED BY <2>2, <3>7
  <2> QED BY <2>3, <2>4
<1>2. n \in 0 .. n /\ n \notin T
  BY <1>1
<1>3. P(n)
  BY <1>2
<1> QED BY <1>3 DEF IsRec

(* ... and what its turns keep holds of every value.                       *)
LEMMA RecKeeps ==
  ASSUME NEW n \in Nat, NEW h, NEW S, h[0] \in S[0],
         \A k \in 1 .. n : h[k - 1] \in S[k - 1] => h[k] \in S[k]
  PROVE  \A k \in 0 .. n : h[k] \in S[k]
<1> DEFINE T == {k \in 0 .. n : h[k] \notin S[k]}
<1>1. ASSUME T # {} PROVE FALSE
  <2>1. PICK m \in T : \A k \in T : m <= k
    <3>1. T \in SUBSET Nat
      OBVIOUS
    <3> HIDE DEF T
    <3> QED BY <1>1, <3>1, LeastNat
  <2>2. m \in 1 .. n /\ m - 1 \in 0 .. n /\ m - 1 \notin T
    BY <2>1
  <2> QED BY <2>1, <2>2
<1> QED BY <1>1

(* A part of a string. *)
LEMMA SubSeqIs ==
  ASSUME NEW A, NEW t \in Seq(A), NEW m \in Nat, NEW n \in Nat,
         1 <= m, m <= n + 1, n <= Len(t)
  PROVE  /\ SubSeq(t, m, n) \in Seq(A)
         /\ Len(SubSeq(t, m, n)) = n - m + 1
         /\ \A i \in 1 .. n - m + 1 : SubSeq(t, m, n)[i] = t[m + i - 1]
<1>1. \A i \in m .. n : t[i] \in A
  OBVIOUS
<1>2. SubSeq(t, m, n) \in Seq(A)
  BY <1>1
<1>3. Len(SubSeq(t, m, n)) = n - m + 1
  OBVIOUS
<1>4. \A i \in 1 .. n - m + 1 : SubSeq(t, m, n)[i] = t[m + i - 1]
  OBVIOUS
<1> QED BY <1>2, <1>3, <1>4

(* The same from behind a place on. *)
LEMMA PartIs ==
  ASSUME NEW A, NEW t \in Seq(A), NEW m \in Nat, NEW n \in Nat, m <= n, n <= Len(t)
  PROVE  /\ SubSeq(t, m + 1, n) \in Seq(A)
         /\ Len(SubSeq(t, m + 1, n)) = n - m
         /\ \A i \in 1 .. n - m : SubSeq(t, m + 1, n)[i] = t[m + i]
<1>1. PICK l : l = m + 1
  OBVIOUS
<1>2. l \in Nat /\ 1 <= l /\ l <= n + 1 /\ n - l + 1 = n - m /\ \A i \in 1 .. n - m : l + i - 1 = m + i
  BY <1>1
<1>3. /\ SubSeq(t, l, n) \in Seq(A)
      /\ Len(SubSeq(t, l, n)) = n - l + 1
      /\ \A i \in 1 .. n - l + 1 : SubSeq(t, l, n)[i] = t[l + i - 1]
  BY <1>2, SubSeqIs
<1>4. /\ SubSeq(t, l, n) \in Seq(A)
      /\ Len(SubSeq(t, l, n)) = n - m
      /\ \A i \in 1 .. n - m : SubSeq(t, l, n)[i] = t[m + i]
  BY <1>2, <1>3
<1> QED BY ONLY <1>1, <1>4

(* One string after another. *)
LEMMA ConcatIs ==
  ASSUME NEW A, NEW s \in Seq(A), NEW t \in Seq(A)
  PROVE  /\ s \o t \in Seq(A) /\ Len(s \o t) = Len(s) + Len(t)
         /\ \A i \in 1 .. Len(s) + Len(t) :
              (s \o t)[i] = IF i <= Len(s) THEN s[i] ELSE t[i - Len(s)]
OBVIOUS

(* A string with another one put into it. *)
Spliced(t, pos, s) == SubSeq(t, 1, pos) \o s \o SubSeq(t, pos + 1, Len(t))

(* Each byte of it is one of the two. *)
LEMMA SplicedIs ==
  ASSUME NEW A, NEW t \in Seq(A), NEW s \in Seq(A), NEW pos \in 0 .. Len(t)
  PROVE  /\ Spliced(t, pos, s) \in Seq(A)
         /\ Len(Spliced(t, pos, s)) = Len(t) + Len(s)
         /\ \A i \in 1 .. Len(t) + Len(s) :
              Spliced(t, pos, s)[i] = IF i <= pos THEN t[i]
                                     ELSE IF i <= pos + Len(s) THEN s[i - pos]
                                     ELSE t[i - Len(s)]
<1> DEFINE u == SubSeq(t, 1, pos)
           v == SubSeq(t, pos + 1, Len(t))
           w == u \o s
<1>1. Len(t) \in Nat /\ Len(s) \in Nat /\ pos \in Nat /\ pos <= Len(t)
  OBVIOUS
<1>2. u \in Seq(A) /\ Len(u) = pos /\ \A i \in 1 .. pos : u[i] = t[i]
  BY <1>1, SubSeqIs
<1>3. /\ v \in Seq(A) /\ Len(v) = Len(t) - pos
      /\ \A i \in 1 .. Len(t) - pos : v[i] = t[pos + i]
  BY <1>1, SubSeqIs
<1> HIDE DEF u, v
<1>4. /\ w \in Seq(A) /\ Len(w) = pos + Len(s)
      /\ \A i \in 1 .. pos + Len(s) : w[i] = IF i <= pos THEN u[i] ELSE s[i - pos]
  BY <1>2, ConcatIs
<1>5. Spliced(t, pos, s) = w \o v
  BY DEF Spliced, u, v
<1> HIDE DEF w
<1>6. /\ w \o v \in Seq(A) /\ Len(w \o v) = Len(t) + Len(s)
      /\ \A i \in 1 .. Len(t) + Len(s) :
           (w \o v)[i] = IF i <= pos + Len(s) THEN w[i] ELSE v[i - (pos + Len(s))]
  <2>1. /\ w \o v \in Seq(A) /\ Len(w \o v) = Len(w) + Len(v)
        /\ \A i \in 1 .. Len(w) + Len(v) :
             (w \o v)[i] = IF i <= Len(w) THEN w[i] ELSE v[i - Len(w)]
    BY <1>3, <1>4, ConcatIs
  <2>2. Len(w) = pos + Len(s) /\ Len(w) + Len(v) = Len(t) + Len(s)
    BY ONLY <1>1, <1>3, <1>4
  <2> QED BY ONLY <2>1, <2>2
<1>7. \A i \in 1 .. Len(t) + Len(s) :
        (w \o v)[i] = IF i <= pos THEN t[i]
                      ELSE IF i <= pos + Len(s) THEN s[i - pos] ELSE t[i - Len(s)]
  <2> SUFFICES ASSUME NEW i \in 1 .. Len(t) + Len(s)
               PROVE  (w \o v)[i] = IF i <= pos THEN t[i]
                      ELSE IF i <= pos + Len(s) THEN s[i - pos] ELSE t[i - Len(s)]
    OBVIOUS
  <2>1. CASE i <= pos + Len(s)
    BY <1>1, <1>2, <1>4, <1>6, <2>1
  <2>2. CASE i > pos + Len(s)
    <3>1. /\ i - (pos + Len(s)) \in 1 .. Len(t) - pos
          /\ pos + (i - (pos + Len(s))) = i - Len(s) /\ ~(i <= pos) /\ ~(i <= pos + Len(s))
      BY <1>1, <2>2
    <3>2. (w \o v)[i] = v[i - (pos + Len(s))]
      BY <1>6, <3>1
    <3>3. v[i - (pos + Len(s))] = t[pos + (i - (pos + Len(s)))]
      BY <1>3, <3>1
    <3> QED BY <3>1, <3>2, <3>3
  <2>3. i <= pos + Len(s) \/ i > pos + Len(s)
    BY <1>1
  <2> QED BY ONLY <2>1, <2>2, <2>3
<1> QED BY ONLY <1>5, <1>6, <1>7

(* A string without some of its bytes. *)
Cut(t, pos, len) == SubSeq(t, 1, pos - 1) \o SubSeq(t, pos + len, Len(t))

(* Each byte of it is one that is left. *)
LEMMA CutIs ==
  ASSUME NEW A, NEW t \in Seq(A), NEW pos \in 1 .. Len(t), NEW len \in Nat,
         pos + len - 1 <= Len(t)
  PROVE  /\ Cut(t, pos, len) \in Seq(A)
         /\ Len(Cut(t, pos, len)) = Len(t) - len
         /\ \A i \in 1 .. Len(t) - len :
              Cut(t, pos, len)[i] = IF i < pos THEN t[i] ELSE t[i + len]
<1> DEFINE u == SubSeq(t, 1, pos - 1)
           v == SubSeq(t, pos + len, Len(t))
<1>1. Len(t) \in Nat /\ pos \in Nat /\ 1 <= pos /\ pos - 1 \in Nat /\ pos <= Len(t)
      /\ pos + len \in Nat
  OBVIOUS
<1>2. u \in Seq(A) /\ Len(u) = pos - 1 /\ \A i \in 1 .. pos - 1 : u[i] = t[i]
  BY <1>1, SubSeqIs
<1>3. /\ v \in Seq(A) /\ Len(v) = Len(t) - (pos + len) + 1
      /\ \A i \in 1 .. Len(t) - (pos + len) + 1 : v[i] = t[pos + len + i - 1]
  BY <1>1, SubSeqIs
<1>4. Cut(t, pos, len) = u \o v
  BY DEF Cut
<1> HIDE DEF u, v
<1>5. /\ u \o v \in Seq(A) /\ Len(u \o v) = Len(t) - len
      /\ \A i \in 1 .. Len(t) - len :
           (u \o v)[i] = IF i <= pos - 1 THEN u[i] ELSE v[i - (pos - 1)]
  <2>1. /\ u \o v \in Seq(A) /\ Len(u \o v) = Len(u) + Len(v)
        /\ \A i \in 1 .. Len(u) + Len(v) :
             (u \o v)[i] = IF i <= Len(u) THEN u[i] ELSE v[i - Len(u)]
    BY <1>2, <1>3, ConcatIs
  <2>2. Len(u) = pos - 1 /\ Len(u) + Len(v) = Len(t) - len
    BY ONLY <1>1, <1>2, <1>3
  <2> QED BY ONLY <2>1, <2>2
<1>6. \A i \in 1 .. Len(t) - len : (u \o v)[i] = IF i < pos THEN t[i] ELSE t[i + len]
  <2> SUFFICES ASSUME NEW i \in 1 .. Len(t) - len
               PROVE  (u \o v)[i] = IF i < pos THEN t[i] ELSE t[i + len]
    OBVIOUS
  <2>1. CASE i < pos
    BY <1>1, <1>2, <1>5, <2>1
  <2>2. CASE i >= pos
    <3>1. /\ i - (pos - 1) \in 1 .. Len(t) - (pos + len) + 1 /\ ~(i <= pos - 1)
          /\ pos + len + (i - (pos - 1)) - 1 = i + len /\ ~(i < pos)
      BY <1>1, <2>2
    <3>2. (u \o v)[i] = v[i - (pos - 1)]
      BY <1>5, <3>1
    <3>3. v[i - (pos - 1)] = t[pos + len + (i - (pos - 1)) - 1]
      BY <1>3, <3>1
    <3> QED BY <3>1, <3>2, <3>3
  <2>3. i < pos \/ i >= pos
    BY <1>1
  <2> QED BY ONLY <2>1, <2>2, <2>3
<1> QED BY ONLY <1>4, <1>5, <1>6

=============================================================================
