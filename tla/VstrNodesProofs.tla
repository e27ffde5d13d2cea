-------------------------- MODULE VstrNodesProofs ---------------------------
(***************************************************************************)
(* Proofs about VstrNodes, for every size of a node, every set of inputs,  *)
(* any length of the string and any amount of memory: first its own        *)
(* invariants, then that the list of nodes implements the string of        *)
(* VstrAbs, by what every operation of the code does to the bytes the      *)
(* nodes hold.                                                             *)
(***************************************************************************)
EXTENDS VstrNodes, VstrFacts

(* Every byte that is ever in a node. *)
Byte == {InByte(in, k) : in \in Inputs, k \in Int}

NodeRec == [id : Ids, type : NodeTypes, data : Seq(Byte)]

PosRec == [node : Nat, pos : Int, num : Int]

(* The Vstr_base: of the entries of the iovec cache nothing is said here.  *)
BaseRec(v) ==
  [nodes : Seq(NodeRec), used : Nat, len : Nat, num : Nat, end : Nat,
   types : SUBSET NodeTypes, upto : BOOLEAN, pc : PosRec, minoff : Nat,
   vec : [sz : Nat, off : Nat, v : {v}]]

IsBase(b) == b \in BaseRec(b.vec.v)

ConfRec == [spare : [NodeTypes -> Nat], made : [NodeTypes -> Nat], ref : Nat]

-----------------------------------------------------------------------------
(* Lengths of lists of nodes *)

(* The nodes of a list have a length. *)
LEMMA NodeIs ==
  ASSUME NEW ns \in Seq(NodeRec)
  PROVE  /\ Len(ns) \in Nat /\ DOMAIN ns = 1 .. Len(ns)
         /\ \A i \in 1 .. Len(ns) :
              /\ ns[i] \in NodeRec /\ ns[i].data \in Seq(Byte) /\ NLen(ns[i]) \in Nat
              /\ ns[i].id \in Ids /\ ns[i].type \in NodeTypes
<1>1. Len(ns) \in Nat /\ DOMAIN ns = 1 .. Len(ns) /\ \A i \in 1 .. Len(ns) : ns[i] \in NodeRec
  OBVIOUS
<1>2. \A n \in NodeRec : /\ n.data \in Seq(Byte) /\ NLen(n) \in Nat
                         /\ n.id \in Ids /\ n.type \in NodeTypes
  BY DEF NodeRec, NLen
<1> QED BY <1>1, <1>2

(* Upto() adds the lengths up. *)
LEMMA UptoIs ==
  ASSUME NEW ns \in Seq(NodeRec)
  PROVE  /\ Upto(ns, 0) = 0
         /\ \A i \in 1 .. Len(ns) : Upto(ns, i) = Upto(ns, i - 1) + NLen(ns[i])
         /\ \A i \in 0 .. Len(ns) : Upto(ns, i) \in Nat
<1> DEFINE N == Len(ns)
           Q(s) == s = [k \in 0 .. N |-> IF k = 0 THEN 0 ELSE s[k - 1] + NLen(ns[k])]
           g == [x \in (1 .. N) \X Nat |-> x[2] + NLen(ns[x[1]])]
           S == [k \in 0 .. N |-> Nat]
           sum == CHOOSE s : Q(s)
<1>1. N \in Nat /\ \A i \in 1 .. N : NLen(ns[i]) \in Nat
  BY NodeIs
<1>2. \A k \in 1 .. N : \A x \in Nat : g[<<k, x>>] = x + NLen(ns[k]) /\ g[<<k, x>>] \in Nat
  BY <1>1
<1> HIDE DEF g
<1>a. PICK f : IsRec(f, N, 0, g)
  <2> HIDE DEF N
  <2> QED BY ONLY <1>1, RecExists
<1>3. f = [k \in 0 .. N |-> IF k = 0 THEN 0 ELSE g[<<k, f[k - 1]>>]]
  BY ONLY <1>a DEF IsRec
<1>4. \A k \in 0 .. N : f[k] \in S[k]
  <2>1. f[0] \in S[0]
    BY <1>1, <1>3
  <2>2. ASSUME NEW k \in 1 .. N, f[k - 1] \in S[k - 1] PROVE f[k] \in S[k]
    <3>1. k \in 0 .. N /\ k - 1 \in 0 .. N /\ k # 0
      BY <1>1
    <3>2. f[k] = g[<<k, f[k - 1]>>] /\ f[k - 1] \in Nat
      BY <1>3, <2>2, <3>1
    <3> QED BY <1>2, <3>1, <3>2
  <2> HIDE DEF S, N
  <2> QED BY <1>1, <2>1, <2>2, RecKeeps
<1>5. Q(f)
  <2>1. \A k \in 0 .. N : f[k] = IF k = 0 THEN 0 ELSE f[k - 1] + NLen(ns[k])
    <3> TAKE k \in 0 .. N
    <3>1. f[k] = IF k = 0 THEN 0 ELSE g[<<k, f[k - 1]>>]
      BY <1>3
    <3>2. k # 0 => k \in 1 .. N /\ k - 1 \in 0 .. N
      BY <1>1
    <3>3. k # 0 => f[k - 1] \in Nat
      BY <1>4, <3>2
    <3> QED BY <1>2, <3>1, <3>2, <3>3
  <2>2. f = [k \in 0 .. N |-> f[k]]
    BY <1>3
  <2> QED BY <2>1, <2>2
<1>6. Q(sum)
  <2> HIDE DEF Q
  <2> QED BY <1>5
<1>7. \A i : Upto(ns, i) = sum[i]
  BY DEF Upto
<1> HIDE DEF sum
<1>8. sum[0] = 0 /\ \A k \in 1 .. N : sum[k] = sum[k - 1] + NLen(ns[k])
  BY <1>1, <1>6
<1>9. \A k \in 0 .. N : sum[k] \in S[k]
  <2>1. sum[0] \in S[0]
    BY <1>1, <1>8
  <2>2. ASSUME NEW k \in 1 .. N, sum[k - 1] \in S[k - 1] PROVE sum[k] \in S[k]
    <3>1. k \in 0 .. N /\ k - 1 \in 0 .. N
      BY <1>1
    <3>2. sum[k - 1] \in Nat /\ NLen(ns[k]) \in Nat /\ sum[k] = sum[k - 1] + NLen(ns[k])
      BY <1>1, <1>8, <2>2, <3>1
    <3> QED BY <3>1, <3>2
  <2> HIDE DEF S, N
  <2> QED BY <1>1, <2>1, <2>2, RecKeeps
<1> QED BY <1>7, <1>8, <1>9

(* The same lengths in another place of another list add up to the same. *)
Alike(ms, b, ns, a, n) ==
  /\ ms \in Seq(NodeRec) /\ ns \in Seq(NodeRec) /\ a \in Nat /\ b \in Nat /\ n \in Nat
  /\ a + n <= Len(ns) /\ b + n <= Len(ms)
  /\ \A k \in 1 .. n : NLen(ms[b + k]) = NLen(ns[a + k])

SameUpto(ms, b, ns, a, n) ==
  \A k \in 0 .. n : Upto(ms, b + k) - Upto(ms, b) = Upto(ns, a + k) - Upto(ns, a)

LEMMA UptoAlike ==
  ASSUME NEW ms, NEW ns, NEW a, NEW b, NEW n, Alike(ms, b, ns, a, n)
  PROVE  SameUpto(ms, b, ns, a, n)
<1>0. ms \in Seq(NodeRec) /\ ns \in Seq(NodeRec) /\ a \in Nat /\ b \in Nat /\ n \in Nat
  BY DEF Alike
<1> USE <1>0
<1> DEFINE h == [k \in 0 .. n |-> (Upto(ms, b + k) - Upto(ms, b)) - (Upto(ns, a + k) - Upto(ns, a))]
           S == [k \in 0 .. n |-> {0}]
<1>1. /\ a + n <= Len(ns) /\ b + n <= Len(ms) /\ Len(ns) \in Nat /\ Len(ms) \in Nat
      /\ \A k \in 1 .. n : NLen(ms[b + k]) = NLen(ns[a + k])
  BY NodeIs DEF Alike
<1>2. /\ \A k \in 0 .. n : Upto(ms, b + k) \in Nat /\ Upto(ns, a + k) \in Nat
      /\ Upto(ms, b) \in Nat /\ Upto(ns, a) \in Nat
  <2>1. \A k \in 0 .. n : b + k \in 0 .. Len(ms) /\ a + k \in 0 .. Len(ns)
    BY <1>1
  <2>2. b \in 0 .. Len(ms) /\ a \in 0 .. Len(ns)
    BY <1>1
  <2> QED BY <2>1, <2>2, UptoIs
<1>3. \A k \in 1 .. n : Upto(ms, b + k) - Upto(ms, b + (k - 1))
                          = Upto(ns, a + k) - Upto(ns, a + (k - 1))
  <2> TAKE k \in 1 .. n
  <2>1. b + k \in 1 .. Len(ms) /\ a + k \in 1 .. Len(ns) /\ NLen(ms[b + k]) = NLen(ns[a + k])
    BY <1>1
  <2>2. Upto(ms, b + k) = Upto(ms, (b + k) - 1) + NLen(ms[b + k])
    BY <2>1, UptoIs
  <2>3. Upto(ns, a + k) = Upto(ns, (a + k) - 1) + NLen(ns[a + k])
    BY <2>1, UptoIs
  <2>4. (b + k) - 1 = b + (k - 1) /\ (a + k) - 1 = a + (k - 1)
    OBVIOUS
  <2>5. NLen(ns[a + k]) \in Nat
    BY <2>1, NodeIs
  <2>6. k - 1 \in 0 .. n /\ k \in 0 .. n
    OBVIOUS
  <2>7. /\ Upto(ms, b + k) \in Nat /\ Upto(ns, a + k) \in Nat
        /\ Upto(ms, b + (k - 1)) \in Nat /\ Upto(ns, a + (k - 1)) \in Nat
    BY <1>2, <2>6
  <2>8. /\ Upto(ms, b + k) = Upto(ms, b + (k - 1)) + NLen(ns[a + k])
        /\ Upto(ns, a + k) = Upto(ns, a + (k - 1)) + NLen(ns[a + k])
    BY ONLY <2>1, <2>2, <2>3, <2>4
  <2> QED BY ONLY <2>5, <2>7, <2>8
<1>4. h[0] \in S[0]
  <2>1. Upto(ms, b + 0) = Upto(ms, b) /\ Upto(ns, a + 0) = Upto(ns, a)
    OBVIOUS
  <2> QED BY <1>2, <2>1
<1>5. ASSUME NEW k \in 1 .. n, h[k - 1] \in S[k - 1] PROVE h[k] \in S[k]
  <2>1. k - 1 \in 0 .. n /\ k \in 0 .. n
    OBVIOUS
  <2> DEFINE u == Upto(ms, b + k)
             v == Upto(ns, a + k)
             u1 == Upto(ms, b + (k - 1))
             v1 == Upto(ns, a + (k - 1))
             u0 == Upto(ms, b)
             v0 == Upto(ns, a)
  <2>2. u \in Nat /\ v \in Nat /\ u1 \in Nat /\ v1 \in Nat /\ u0 \in Nat /\ v0 \in Nat
    BY <1>2, <2>1
  <2>3. u - u1 = v - v1
    BY <1>3
  <2>4. h[k] = (u - u0) - (v - v0) /\ S[k] = {0}
    BY <2>1
  <2>5. h[k - 1] = (u1 - u0) - (v1 - v0) /\ S[k - 1] = {0}
    BY <2>1
  <2> HIDE DEF u, v, u1, v1, u0, v0, h, S
  <2>6. (u1 - u0) - (v1 - v0) = 0
    BY ONLY <1>5, <2>5
  <2>7. (u - u0) - (v - v0) = 0
    BY ONLY <2>2, <2>3, <2>6
  <2> QED BY ONLY <2>4, <2>7
<1>6. \A k \in 0 .. n : h[k] \in S[k]
  <2> HIDE DEF h, S
  <2> QED BY <1>4, <1>5, RecKeeps
<1>7. \A k \in 0 .. n : (Upto(ms, b + k) - Upto(ms, b)) - (Upto(ns, a + k) - Upto(ns, a)) = 0
  BY ONLY <1>6
<1>8. ASSUME NEW k \in 0 .. n
      PROVE  Upto(ms, b + k) - Upto(ms, b) = Upto(ns, a + k) - Upto(ns, a)
  <2>1. PICK u, v, u0, v0 : /\ u = Upto(ms, b + k) /\ v = Upto(ns, a + k)
                            /\ u0 = Upto(ms, b) /\ v0 = Upto(ns, a)
    OBVIOUS
  <2>2. u \in Nat /\ v \in Nat /\ u0 \in Nat /\ v0 \in Nat
    BY ONLY <1>2, <2>1, k \in 0 .. n
  <2>3. (u - u0) - (v - v0) = 0
    BY ONLY <1>7, <2>1, k \in 0 .. n
  <2>4. u - u0 = v - v0
    BY ONLY <2>2, <2>3
  <2> QED BY ONLY <2>1, <2>4
<1> QED BY ONLY <1>8 DEF SameUpto

(* Every node that is not empty adds to the length. *)
Filled(ns) == \A i \in 1 .. Len(ns) : NLen(ns[i]) > 0

LEMMA UptoGrows ==
  ASSUME NEW ns \in Seq(NodeRec), Filled(ns), NEW i \in 0 .. Len(ns), NEW j \in 0 .. Len(ns),
         i <= j
  PROVE  Upto(ns, i) + (j - i) <= Upto(ns, j)
<1> DEFINE n == Len(ns) - i
           h == [k \in 0 .. n |-> Upto(ns, i + k) - Upto(ns, i) - k]
           S == [k \in 0 .. n |-> Nat]
<1>1. Len(ns) \in Nat /\ n \in Nat /\ \A k \in 0 .. n : i + k \in 0 .. Len(ns)
  BY NodeIs
<1>2. Upto(ns, i) \in Nat /\ \A k \in 0 .. n : Upto(ns, i + k) \in Nat
  BY <1>1, UptoIs
<1>3. h[0] \in S[0]
  <2>1. Upto(ns, i + 0) = Upto(ns, i)
    OBVIOUS
  <2> QED BY <1>1, <1>2, <2>1
<1>4. ASSUME NEW k \in 1 .. n, h[k - 1] \in S[k - 1] PROVE h[k] \in S[k]
  <2>1. k - 1 \in 0 .. n /\ k \in 0 .. n /\ i + k \in 1 .. Len(ns) /\ (i + k) - 1 = i + (k - 1)
    BY <1>1
  <2>2. Upto(ns, i + k) = Upto(ns, i + (k - 1)) + NLen(ns[i + k])
    BY <2>1, UptoIs
  <2>3. NLen(ns[i + k]) \in Nat /\ NLen(ns[i + k]) > 0
    BY <2>1, NodeIs DEF Filled
  <2>4. Upto(ns, i + (k - 1)) - Upto(ns, i) - (k - 1) \in Nat
    BY <1>4, <2>1
  <2>5. Upto(ns, i + k) - Upto(ns, i) - k \in Nat
    <3>1. Upto(ns, i + k) \in Nat /\ Upto(ns, i + (k - 1)) \in Nat /\ Upto(ns, i) \in Nat
      BY <1>2, <2>1
    <3>2. k \in Nat
      BY <2>1
    <3>3. PICK x, y, v, l : /\ x = Upto(ns, i + k) /\ y = Upto(ns, i + (k - 1)) /\ v = Upto(ns, i)
                            /\ l = NLen(ns[i + k])
      OBVIOUS
    <3>4. /\ x \in Nat /\ y \in Nat /\ v \in Nat /\ l \in Nat /\ l > 0 /\ x = y + l
          /\ y - v - (k - 1) \in Nat
      BY ONLY <2>2, <2>3, <2>4, <3>1, <3>3
    <3>5. x - v - k \in Nat
      BY ONLY <3>2, <3>4
    <3> QED BY ONLY <3>3, <3>5
  <2> QED BY <2>1, <2>5
<1>5. \A k \in 0 .. n : h[k] \in S[k]
  <2> HIDE DEF h, S, n
  <2> QED BY <1>1, <1>3, <1>4, RecKeeps
<1>6. j - i \in 0 .. n /\ i + (j - i) = j
  BY <1>1
<1>7. Upto(ns, i + (j - i)) - Upto(ns, i) - (j - i) \in Nat
  BY <1>5, <1>6
<1>8. Upto(ns, j) \in Nat /\ Upto(ns, i) \in Nat /\ i \in Nat /\ j \in Nat
  BY <1>1, UptoIs
<1>9. Upto(ns, j) - Upto(ns, i) - (j - i) \in Nat
  BY ONLY <1>6, <1>7
<1> QED BY ONLY <1>8, <1>9

(* Lengths up to a node tell the nodes apart. *)
LEMMA UptoOrder ==
  ASSUME NEW ns \in Seq(NodeRec), Filled(ns), NEW i \in 0 .. Len(ns), NEW j \in 0 .. Len(ns)
  PROVE  /\ i <= j <=> Upto(ns, i) <= Upto(ns, j)
         /\ i < j <=> Upto(ns, i) < Upto(ns, j)
<1>1. Len(ns) \in Nat /\ Upto(ns, i) \in Nat /\ Upto(ns, j) \in Nat
  BY NodeIs, UptoIs
<1>2. i <= j => Upto(ns, i) + (j - i) <= Upto(ns, j)
  BY UptoGrows
<1>3. j <= i => Upto(ns, j) + (i - j) <= Upto(ns, i)
  BY UptoGrows
<1> QED BY <1>1, <1>2, <1>3

(* Every place has a node. *)
LEMMA UptoFind ==
  ASSUME NEW ns \in Seq(NodeRec), NEW a \in 0 .. Len(ns), NEW q \in Nat,
         Upto(ns, a) < q, q <= Upto(ns, Len(ns))
  PROVE  \E i \in a + 1 .. Len(ns) : Upto(ns, i - 1) < q /\ q <= Upto(ns, i)
<1> DEFINE T == {i \in a .. Len(ns) : q <= Upto(ns, i)}
<1>1. Len(ns) \in Nat /\ \A i \in 0 .. Len(ns) : Upto(ns, i) \in Nat
  BY NodeIs, UptoIs
<1>2. T \in SUBSET Nat /\ T # {}
  BY <1>1
<1>3. PICK i \in T : \A k \in T : i <= k
  <2> HIDE DEF T
  <2> QED BY <1>2, LeastNat
<1>4. i \in a .. Len(ns) /\ q <= Upto(ns, i) /\ i # a
  BY <1>1
<1>5. i \in a + 1 .. Len(ns) /\ i - 1 \in a .. Len(ns) /\ i - 1 \notin T
  BY <1>1, <1>3, <1>4
<1>6. Upto(ns, i - 1) < q
  BY <1>1, <1>5
<1> QED BY <1>4, <1>5, <1>6

(* How many whole nodes fit into a length. *)
LEMMA UptoWhole ==
  ASSUME NEW ns \in Seq(NodeRec), NEW a \in 0 .. Len(ns), NEW q \in Nat, Upto(ns, a) <= q
  PROVE  \E j \in 0 .. Len(ns) - a :
           /\ Upto(ns, a + j) <= q
           /\ a + j < Len(ns) => q < Upto(ns, a + j + 1)
<1> DEFINE n == Len(ns) - a
           T == {j \in 0 .. n : Upto(ns, a + j) <= q}
<1>1. Len(ns) \in Nat /\ n \in Nat /\ \A i \in 0 .. Len(ns) : Upto(ns, i) \in Nat
  BY NodeIs, UptoIs
<1>2. 0 \in T /\ T \in SUBSET (0 .. n)
  <2>1. a + 0 = a
    OBVIOUS
  <2> QED BY <1>1, <2>1
<1>3. PICK j \in T : \A k \in T : k <= j
  <2> HIDE DEF T, n
  <2> QED BY <1>1, <1>2, GreatestNat
<1>4. ASSUME a + j < Len(ns) PROVE q < Upto(ns, a + j + 1)
  <2>1. j + 1 \in 0 .. n /\ j + 1 \notin T /\ a + (j + 1) = a + j + 1
    BY <1>1, <1>3, <1>4
  <2>2. a + j + 1 \in 0 .. Len(ns)
    BY <1>1, <2>1
  <2> QED BY <1>1, <2>1, <2>2
<1> QED BY <1>3, <1>4

-----------------------------------------------------------------------------
(* Counting the nodes of a type *)

Having(ns, t, a, b) == {i \in a + 1 .. b : ns[i].type = t}

LEMMA HavingIs ==
  ASSUME NEW ns, NEW t, NEW a \in Nat, NEW b \in Nat
  PROVE  IsFiniteSet(Having(ns, t, a, b)) /\ Cardinality(Having(ns, t, a, b)) \in Nat
<1>1. Having(ns, t, a, b) \in SUBSET (1 .. b)
  BY DEF Having
<1>2. IsFiniteSet(1 .. b)
  BY FiniteUpto
<1> QED BY <1>1, <1>2, FS_Subset, FS_CardinalityType

(* The nodes of a part and those of the rest, ... *)
LEMMA CountSplit ==
  ASSUME NEW ns, NEW t, NEW a \in Nat, NEW b \in Nat, NEW c \in Nat, a <= b, b <= c
  PROVE  Cardinality(Having(ns, t, a, c))
           = Cardinality(Having(ns, t, a, b)) + Cardinality(Having(ns, t, b, c))
<1> DEFINE A == Having(ns, t, a, b)
           B == Having(ns, t, b, c)
<1>1. IsFiniteSet(A) /\ IsFiniteSet(B) /\ Cardinality(A) \in Nat /\ Cardinality(B) \in Nat
  BY HavingIs
<1>2. Having(ns, t, a, c) = A \cup B /\ A \cap B = {}
  BY DEF Having
<1> HIDE DEF A, B
<1>3. Cardinality(A \cup B) = Cardinality(A) + Cardinality(B) - Cardinality({})
  BY ONLY <1>1, <1>2, FS_Union
<1>4. Cardinality({}) = 0
  BY FS_EmptySet
<1> QED BY <1>1, <1>2, <1>3, <1>4 DEF A, B

(* ... the same types in another place of another list, ... *)
SameTypes(ms, b, ns, a, n) ==
  /\ a \in Nat /\ b \in Nat /\ n \in Nat
  /\ \A k \in 1 .. n : ms[b + k].type = ns[a + k].type

SameCount(ms, b, ns, a, n, t) ==
  Cardinality(Having(ms, t, b, b + n)) = Cardinality(Having(ns, t, a, a + n))

LEMMA CountAlike ==
  ASSUME NEW ms, NEW ns, NEW t, NEW a, NEW b, NEW n, SameTypes(ms, b, ns, a, n)
  PROVE  SameCount(ms, b, ns, a, n, t)
<1>0. a \in Nat /\ b \in Nat /\ n \in Nat
  BY DEF SameTypes
<1> USE <1>0
<1> DEFINE A == Having(ns, t, a, a + n)
           B == Having(ms, t, b, b + n)
           f == [i \in A |-> (i - a) + b]
<1>1. IsFiniteSet(A)
  BY HavingIs
<1>2. \A i \in A : i \in Int /\ i - a \in 1 .. n /\ a + (i - a) = i /\ ns[i].type = t
  BY DEF Having
<1>3. \A i \in B : i \in Int /\ i - b \in 1 .. n /\ b + (i - b) = i /\ ms[i].type = t
  BY DEF Having
<1>4. \A i \in A : (i - a) + b \in B
  <2> TAKE i \in A
  <2>1. i \in Int /\ i - a \in 1 .. n /\ a + (i - a) = i /\ ns[i].type = t
    BY <1>2
  <2>2. ms[b + (i - a)].type = ns[a + (i - a)].type
    BY <2>1 DEF SameTypes
  <2>3. b + (i - a) = (i - a) + b /\ (i - a) + b \in b + 1 .. b + n
    BY <2>1
  <2> QED BY <2>1, <2>2, <2>3 DEF Having
<1>5. \A j \in B : \E i \in A : (i - a) + b = j
  <2> TAKE j \in B
  <2>1. j \in Int /\ j - b \in 1 .. n /\ b + (j - b) = j /\ ms[j].type = t
    BY <1>3
  <2>2. ms[b + (j - b)].type = ns[a + (j - b)].type
    BY <2>1 DEF SameTypes
  <2>3. a + (j - b) \in a + 1 .. a + n /\ (a + (j - b)) - a + b = j
    BY <2>1
  <2>4. a + (j - b) \in A
    BY <2>1, <2>2, <2>3 DEF Having
  <2> QED BY <2>3, <2>4
<1> HIDE DEF A, B
<1>6. f \in [A -> B] /\ \A i \in A : f[i] = (i - a) + b
  BY <1>4
<1>7. \A i, j \in A : f[i] = f[j] => i = j
  BY <1>2, <1>6
<1>8. \A j \in B : \E i \in A : f[i] = j
  BY <1>5, <1>6
<1> HIDE DEF f
<1>9. ExistsBijection(A, B)
  BY <1>6, <1>7, <1>8 DEF ExistsBijection, Bijection, Injection, IsInjective, Surjection
<1>10. Cardinality(B) = Cardinality(A)
  BY <1>1, <1>9, FS_Bijection
<1> QED BY <1>10 DEF A, B, SameCount

(* ... at its beginning, ... *)
LEMMA CountHead ==
  ASSUME NEW ms, NEW ns, NEW t, NEW a \in Nat, NEW n \in Nat, SameTypes(ms, 0, ns, a, n)
  PROVE  Cardinality(Having(ms, t, 0, n)) = Cardinality(Having(ns, t, a, a + n))
<1>1. PICK z \in Nat : z = 0
  OBVIOUS
<1>2. SameTypes(ms, z, ns, a, n)
  BY <1>1
<1>a. SameCount(ms, z, ns, a, n, t)
  BY ONLY <1>2, CountAlike
<1>3. Cardinality(Having(ms, t, z, z + n)) = Cardinality(Having(ns, t, a, a + n))
  BY ONLY <1>a DEF SameCount
<1>4. z + n = n
  BY <1>1
<1> QED BY ONLY <1>1, <1>3, <1>4

(* ... and all of them. *)
LEMMA CountIs ==
  ASSUME NEW ns \in Seq(NodeRec), NEW t
  PROVE  CountType(ns, t) = Cardinality(Having(ns, t, 0, Len(ns))) /\ CountType(ns, t) \in Nat
<1>1. Len(ns) \in Nat /\ 0 \in Nat /\ 0 + 1 = 1
  BY NodeIs
<1>2. CountType(ns, t) = Cardinality(Having(ns, t, 0, Len(ns)))
  BY <1>1 DEF CountType, Having
<1> QED BY <1>1, <1>2, HavingIs

(* A part of a list. *)
LEMMA CountPart ==
  ASSUME NEW ns \in Seq(NodeRec), NEW t, NEW a \in Nat, NEW b \in Nat, a <= b, b <= Len(ns)
  PROVE  CountType(SubSeq(ns, a + 1, b), t) = Cardinality(Having(ns, t, a, b))
<1> DEFINE ms == SubSeq(ns, a + 1, b)
           n == b - a
<1>1. ms \in Seq(NodeRec) /\ Len(ms) = n /\ n \in Nat /\ \A i \in 1 .. n : ms[i] = ns[a + i]
  <2>1. a + 1 \in Nat /\ 1 <= a + 1 /\ a + 1 <= b + 1 /\ b - (a + 1) + 1 = n /\ n \in Nat
    OBVIOUS
  <2>2. ms \in Seq(NodeRec) /\ Len(ms) = b - (a + 1) + 1
        /\ \A i \in 1 .. b - (a + 1) + 1 : ms[i] = ns[(a + 1) + i - 1]
    BY ONLY <2>1, ns \in Seq(NodeRec), b \in Nat, b <= Len(ns), SubSeqIs
  <2>3. \A i \in 1 .. n : (a + 1) + i - 1 = a + i
    OBVIOUS
  <2> QED BY <2>1, <2>2, <2>3
<1> HIDE DEF ms
<1>2. CountType(ms, t) = Cardinality(Having(ms, t, 0, n))
  BY <1>1, CountIs
<1>3. SameTypes(ms, 0, ns, a, n)
  BY <1>1 DEF SameTypes
<1>4. a + n = b
  BY <1>1
<1>5. Cardinality(Having(ms, t, 0, n)) = Cardinality(Having(ns, t, a, a + n))
  <2> HIDE DEF n
  <2> QED BY ONLY <1>1, <1>3, CountHead
<1> QED BY <1>2, <1>4, <1>5 DEF ms

-----------------------------------------------------------------------------
(* Every operation puts the nodes xs in the place of nodes i + 1 .. j.     *)

IsSwap(ms, ns, i, j, xs) ==
  /\ ms \in Seq(NodeRec) /\ ns \in Seq(NodeRec) /\ xs \in Seq(NodeRec)
  /\ i \in Nat /\ j \in Nat /\ i <= j /\ j <= Len(ns)
  /\ Len(ms) = i + Len(xs) + (Len(ns) - j)
  /\ \A k \in 1 .. i : ms[k] = ns[k]
  /\ \A k \in 1 .. Len(xs) : ms[i + k] = xs[k]
  /\ \A k \in 1 .. Len(ns) - j : ms[i + Len(xs) + k] = ns[j + k]

(* One list in the place of a part of another. *)
LEMMA SwapIs ==
  ASSUME NEW ns \in Seq(NodeRec), NEW xs \in Seq(NodeRec), NEW i \in Nat, NEW j \in Nat,
         i <= j, j <= Len(ns)
  PROVE  IsSwap(SubSeq(ns, 1, i) \o xs \o SubSeq(ns, j + 1, Len(ns)), ns, i, j, xs)
<1> DEFINE u == SubSeq(ns, 1, i)
           v == SubSeq(ns, j + 1, Len(ns))
           L == Len(ns)
           X == Len(xs)
           w == u \o xs
<1>1. L \in Nat /\ L <= L /\ X \in Nat /\ i <= L /\ 1 \in Nat /\ j + 1 <= L + 1 /\ 1 <= j + 1 /\ j + 1 \in Nat /\ 1 <= i + 1 /\ i - 1 + 1 = i
      /\ L - (j + 1) + 1 = L - j
  OBVIOUS
<1>2. u \in Seq(NodeRec) /\ Len(u) = i /\ \A k \in 1 .. i : u[k] = ns[k]
  <2>1. /\ u \in Seq(NodeRec) /\ Len(u) = i - 1 + 1
        /\ \A k \in 1 .. i - 1 + 1 : u[k] = ns[1 + k - 1]
    BY <1>1, SubSeqIs
  <2>2. \A k \in 1 .. i : 1 + k - 1 = k
    OBVIOUS
  <2> QED BY <1>1, <2>1, <2>2
<1>3. v \in Seq(NodeRec) /\ Len(v) = L - j /\ \A k \in 1 .. L - j : v[k] = ns[j + k]
  <2>1. PICK l \in Nat : l = Len(ns)
    BY <1>1
  <2>2. /\ SubSeq(ns, j + 1, l) \in Seq(NodeRec) /\ Len(SubSeq(ns, j + 1, l)) = l - j
        /\ \A k \in 1 .. l - j : SubSeq(ns, j + 1, l)[k] = ns[j + k]
    BY <2>1, PartIs
  <2> QED BY <2>1, <2>2
<1> HIDE DEF u, v
<1>4. /\ w \in Seq(NodeRec) /\ Len(w) = i + X
      /\ \A k \in 1 .. i + X : w[k] = IF k <= i THEN u[k] ELSE xs[k - i]
  <2>1. /\ w \in Seq(NodeRec) /\ Len(w) = Len(u) + Len(xs)
        /\ \A k \in 1 .. Len(u) + Len(xs) :
             w[k] = IF k <= Len(u) THEN u[k] ELSE xs[k - Len(u)]
    BY <1>2, ConcatIs
  <2> QED BY <1>2, <2>1
<1> HIDE DEF w
<1>5. /\ w \o v \in Seq(NodeRec) /\ Len(w \o v) = i + X + (L - j)
      /\ \A k \in 1 .. i + X + (L - j) : (w \o v)[k] = IF k <= i + X THEN w[k] ELSE v[k - (i + X)]
  <2>1. /\ w \o v \in Seq(NodeRec) /\ Len(w \o v) = Len(w) + Len(v)
        /\ \A k \in 1 .. Len(w) + Len(v) :
             (w \o v)[k] = IF k <= Len(w) THEN w[k] ELSE v[k - Len(w)]
    BY ONLY <1>3, <1>4, ConcatIs
  <2> QED BY ONLY <1>3, <1>4, <2>1
<1> HIDE DEF L, X
<1>6. \A k \in 1 .. i : (w \o v)[k] = ns[k]
  <2> TAKE k \in 1 .. i
  <2>1. k \in 1 .. i + X + (L - j) /\ k \in 1 .. i + X /\ k <= i + X /\ k <= i
    BY <1>1 DEF L
  <2> QED BY <1>2, <1>4, <1>5, <2>1
<1>7. \A k \in 1 .. X : (w \o v)[i + k] = xs[k]
  <2> TAKE k \in 1 .. X
  <2>1. /\ i + k \in 1 .. i + X + (L - j) /\ i + k \in 1 .. i + X /\ i + k <= i + X /\ ~(i + k <= i)
        /\ (i + k) - i = k
    BY <1>1 DEF L
  <2> QED BY <1>4, <1>5, <2>1
<1>8. \A k \in 1 .. L - j : (w \o v)[i + X + k] = ns[j + k]
  <2> TAKE k \in 1 .. L - j
  <2>1. /\ i + X + k \in 1 .. i + X + (L - j) /\ ~(i + X + k <= i + X)
        /\ (i + X + k) - (i + X) = k
    BY <1>1 DEF L
  <2> QED BY <1>3, <1>5, <2>1
<1> QED BY <1>5, <1>6, <1>7, <1>8 DEF IsSwap, L, X, u, v, w

(* The lengths that result. *)
SwapSums(ms, ns, i, j, xs) ==
  /\ \A k \in 0 .. i : Upto(ms, k) = Upto(ns, k)
  /\ \A k \in 0 .. Len(xs) : Upto(ms, i + k) = Upto(ns, i) + Upto(xs, k)
  /\ \A k \in 0 .. Len(ns) - j :
       Upto(ms, i + Len(xs) + k)
         = Upto(ns, i) + Upto(xs, Len(xs)) + (Upto(ns, j + k) - Upto(ns, j))

LEMMA SwapUpto ==
  ASSUME NEW ms, NEW ns, NEW i, NEW j, NEW xs, IsSwap(ms, ns, i, j, xs)
  PROVE  SwapSums(ms, ns, i, j, xs)
<1> DEFINE L == Len(ns)
           X == Len(xs)
           M == Len(ms)
<1>1. /\ ms \in Seq(NodeRec) /\ ns \in Seq(NodeRec) /\ xs \in Seq(NodeRec)
      /\ i \in Nat /\ j \in Nat /\ i <= j /\ j <= L /\ L \in Nat /\ X \in Nat /\ M \in Nat
      /\ M = i + X + (L - j)
  BY NodeIs DEF IsSwap
<1>2. /\ \A k \in 1 .. i : ms[k] = ns[k]
      /\ \A k \in 1 .. X : ms[i + k] = xs[k]
      /\ \A k \in 1 .. L - j : ms[i + X + k] = ns[j + k]
  BY DEF IsSwap
<1>3. Upto(ms, 0) = 0 /\ Upto(ns, 0) = 0 /\ Upto(xs, 0) = 0
  BY <1>1, UptoIs
<1>4. \A k \in 0 .. i : Upto(ms, k) = Upto(ns, k)
  <2>1. PICK z \in Nat : z = 0
    OBVIOUS
  <2>2. Alike(ms, z, ns, z, i)
    BY <1>1, <1>2, <2>1 DEF Alike
  <2>3. \A k \in 0 .. i : Upto(ms, z + k) - Upto(ms, z) = Upto(ns, z + k) - Upto(ns, z)
    BY <2>2, UptoAlike DEF SameUpto
  <2>4. \A k \in 0 .. i : k \in 0 .. M /\ k \in 0 .. L /\ z + k = k
    BY <1>1, <2>1
  <2>5. \A k \in 0 .. i : Upto(ms, k) \in Nat /\ Upto(ns, k) \in Nat
    BY <1>1, <2>4, UptoIs
  <2>6. Upto(ms, z) = 0 /\ Upto(ns, z) = 0
    BY <1>3, <2>1
  <2>7. \A k \in 0 .. i : Upto(ms, k) - 0 = Upto(ns, k) - 0
    BY ONLY <2>3, <2>4, <2>6
  <2> QED BY ONLY <2>5, <2>7
<1>5. Upto(ms, i) = Upto(ns, i) /\ Upto(ns, i) \in Nat
  BY <1>1, <1>4, UptoIs
<1>6. \A k \in 0 .. X : Upto(ms, i + k) = Upto(ns, i) + Upto(xs, k)
  <2>1. PICK z \in Nat : z = 0
    OBVIOUS
  <2>2. Alike(ms, i, xs, z, X)
    BY <1>1, <1>2, <2>1 DEF Alike
  <2>3. \A k \in 0 .. X : Upto(ms, i + k) - Upto(ms, i) = Upto(xs, z + k) - Upto(xs, z)
    BY <2>2, UptoAlike DEF SameUpto
  <2>4. \A k \in 0 .. X : i + k \in 0 .. M /\ k \in 0 .. X /\ z + k = k
    BY <1>1, <2>1
  <2>5. \A k \in 0 .. X : Upto(ms, i + k) \in Nat /\ Upto(xs, k) \in Nat
    BY <1>1, <2>4, UptoIs
  <2>6. Upto(xs, z) = 0
    BY <1>3, <2>1
  <2>7. \A k \in 0 .. X : Upto(ms, i + k) - Upto(ns, i) = Upto(xs, k) - 0
    BY ONLY <1>5, <2>3, <2>4, <2>6
  <2> QED BY ONLY <1>5, <2>5, <2>7
<1>7. \A k \in 0 .. L - j :
        Upto(ms, i + X + k) = Upto(ns, i) + Upto(xs, X) + (Upto(ns, j + k) - Upto(ns, j))
  <2>0. PICK y : y = i + X
    OBVIOUS
  <2>1. PICK n : n = L - j
    OBVIOUS
  <2>a. y \in Nat /\ n \in Nat
    BY ONLY <1>1, <2>0, <2>1
  <2>2. Alike(ms, y, ns, j, n)
    <3>1. \A k \in 1 .. n : NLen(ms[y + k]) = NLen(ns[j + k])
      BY ONLY <1>2, <2>0, <2>1
    <3>2. j + n <= L /\ y + n <= M
      BY ONLY <1>1, <2>0, <2>1, <2>a
    <3> QED BY <1>1, <2>a, <3>1, <3>2 DEF Alike
  <2>3. \A k \in 0 .. n : Upto(ms, y + k) - Upto(ms, y) = Upto(ns, j + k) - Upto(ns, j)
    BY <2>2, UptoAlike DEF SameUpto
  <2>4. \A k \in 0 .. n : y + k \in 0 .. M /\ j + k \in 0 .. L
    BY ONLY <1>1, <2>0, <2>1, <2>a
  <2>5. /\ \A k \in 0 .. n : Upto(ms, y + k) \in Nat /\ Upto(ns, j + k) \in Nat
        /\ Upto(xs, X) \in Nat /\ Upto(ns, j) \in Nat
    BY <1>1, <2>4, UptoIs
  <2>6. Upto(ms, y) = Upto(ns, i) + Upto(xs, X)
    BY <1>1, <1>6, <2>0
  <2>7. \A k \in 0 .. n : Upto(ms, y + k) = Upto(ns, i) + Upto(xs, X) + (Upto(ns, j + k) - Upto(ns, j))
    BY ONLY <1>5, <2>3, <2>5, <2>6
  <2> QED BY <2>0, <2>1, <2>7
<1> QED BY <1>4, <1>6, <1>7 DEF SwapSums

(* The numbers of nodes of a type that result. *)
SwapCounts(ms, ns, i, j, xs, t) ==
  CountType(ms, t) + CountType(SubSeq(ns, i + 1, j), t) = CountType(ns, t) + CountType(xs, t)

LEMMA SwapCount ==
  ASSUME NEW ms, NEW ns, NEW i, NEW j, NEW xs, NEW t, IsSwap(ms, ns, i, j, xs)
  PROVE  SwapCounts(ms, ns, i, j, xs, t)
<1> DEFINE C(s, a, b) == Cardinality(Having(s, t, a, b))
<1>1. PICK L, X, M, y, n, z : /\ L = Len(ns) /\ X = Len(xs) /\ M = Len(ms)
                              /\ y = i + X /\ n = L - j /\ z = 0
  OBVIOUS
<1>2. /\ ms \in Seq(NodeRec) /\ ns \in Seq(NodeRec) /\ xs \in Seq(NodeRec)
      /\ i \in Nat /\ j \in Nat /\ i <= j /\ j <= L /\ L \in Nat /\ X \in Nat /\ M \in Nat
      /\ M = i + X + (L - j)
  BY <1>1, NodeIs DEF IsSwap
<1>3. y \in Nat /\ n \in Nat /\ z \in Nat /\ y + n = M /\ j + n = L /\ z + i = i /\ z + X = X
      /\ i + X = y /\ z <= i /\ i <= y /\ y <= M /\ z <= y /\ i <= L /\ z <= j /\ z <= M /\ z <= L
  BY ONLY <1>1, <1>2
<1>4. /\ \A k \in 1 .. i : ms[k] = ns[k]
      /\ \A k \in 1 .. X : ms[i + k] = xs[k]
      /\ \A k \in 1 .. n : ms[y + k] = ns[j + k]
  BY <1>1 DEF IsSwap
<1>5. SameTypes(ms, z, ns, z, i) /\ SameTypes(ms, i, xs, z, X) /\ SameTypes(ms, y, ns, j, n)
  <2>1. \A k : k \in 1 .. i \/ k \in 1 .. X => z + k = k
    BY <1>1, <1>2
  <2> QED BY <1>2, <1>3, <1>4, <2>1 DEF SameTypes
<1>6. SameCount(ms, z, ns, z, i, t) /\ SameCount(ms, i, xs, z, X, t) /\ SameCount(ms, y, ns, j, n, t)
  BY ONLY <1>5, CountAlike
<1>7. C(ms, z, i) = C(ns, z, i) /\ C(ms, i, y) = C(xs, z, X) /\ C(ms, y, M) = C(ns, j, L)
  BY ONLY <1>3, <1>6 DEF SameCount
<1>8. /\ C(ms, z, i) \in Nat /\ C(ms, i, y) \in Nat /\ C(ms, y, M) \in Nat /\ C(ns, z, i) \in Nat
      /\ C(ns, i, j) \in Nat /\ C(ns, j, L) \in Nat /\ C(xs, z, X) \in Nat
      /\ C(ms, z, y) \in Nat /\ C(ns, z, j) \in Nat
  BY ONLY <1>2, <1>3, HavingIs
<1>9. C(ms, z, M) = C(ms, z, y) + C(ms, y, M) /\ C(ms, z, y) = C(ms, z, i) + C(ms, i, y)
  BY ONLY <1>2, <1>3, CountSplit
<1>10. C(ns, z, L) = C(ns, z, j) + C(ns, j, L) /\ C(ns, z, j) = C(ns, z, i) + C(ns, i, j)
  BY ONLY <1>2, <1>3, CountSplit
<1>11. CountType(ms, t) = C(ms, z, M) /\ CountType(ns, t) = C(ns, z, L)
       /\ CountType(xs, t) = C(xs, z, X)
  BY ONLY <1>1, <1>2, CountIs
<1>12. CountType(SubSeq(ns, i + 1, j), t) = C(ns, i, j)
  BY ONLY <1>1, <1>2, CountPart
<1> HIDE DEF C
<1> QED BY ONLY <1>7, <1>8, <1>9, <1>10, <1>11, <1>12 DEF SwapCounts

(* The nodes of a list are not empty, not too long, of the types that are  *)
(* said to be there, and have different addresses.                         *)
Good(ns, types) ==
  /\ \A k \in 1 .. Len(ns) : NLen(ns[k]) \in 1 .. MaxOf(ns[k].type) /\ ns[k].type \in types
  /\ \A k, l \in 1 .. Len(ns) : k # l => ns[k].id # ns[l].id

(* The nodes that are put in have other addresses than those that stay. *)
Apart(ns, i, j, xs) ==
  \A l \in 1 .. Len(xs) : \A k \in 1 .. Len(ns) : k <= i \/ k > j => xs[l].id # ns[k].id

LEMMA SwapGood ==
  ASSUME NEW ms, NEW ns, NEW i, NEW j, NEW xs, NEW types, NEW more, IsSwap(ms, ns, i, j, xs),
         Good(ns, types), Good(xs, more), Apart(ns, i, j, xs)
  PROVE  Good(ms, types \cup more)
<1>1. PICK L, X, M : L = Len(ns) /\ X = Len(xs) /\ M = Len(ms)
  OBVIOUS
<1>2. /\ ms \in Seq(NodeRec) /\ ns \in Seq(NodeRec) /\ xs \in Seq(NodeRec)
      /\ i \in Nat /\ j \in Nat /\ i <= j /\ j <= L /\ L \in Nat /\ X \in Nat /\ M \in Nat
      /\ M = i + X + (L - j)
  BY <1>1, NodeIs DEF IsSwap
<1>4. /\ \A k \in 1 .. i : ms[k] = ns[k]
      /\ \A k \in 1 .. X : ms[i + k] = xs[k]
      /\ \A k \in 1 .. L - j : ms[i + X + k] = ns[j + k]
  BY <1>1 DEF IsSwap
<1> DEFINE old(k) == IF k <= i THEN k ELSE k - (i + X) + j
           In(k) == k > i /\ k <= i + X
<1>5. \A k \in 1 .. M : IF In(k) THEN k - i \in 1 .. X /\ ms[k] = xs[k - i]
                        ELSE old(k) \in 1 .. L /\ (old(k) <= i \/ old(k) > j) /\ ms[k] = ns[old(k)]
  <2> TAKE k \in 1 .. M
  <2>1. CASE k <= i
    <3>1. k \in 1 .. i /\ k \in 1 .. L /\ ~In(k) /\ old(k) = k
      BY ONLY <1>2, <2>1, k \in 1 .. M
    <3> QED BY <1>4, <2>1, <3>1
  <2>2. CASE In(k)
    <3>1. k - i \in 1 .. X /\ i + (k - i) = k
      BY <1>2, <2>2
    <3> QED BY <1>4, <2>2, <3>1
  <2>3. CASE k > i + X
    <3>1. /\ k - (i + X) \in 1 .. L - j /\ i + X + (k - (i + X)) = k /\ ~In(k) /\ ~(k <= i)
          /\ j + (k - (i + X)) = old(k) /\ old(k) \in 1 .. L /\ old(k) > j
      BY <1>2, <2>3
    <3>2. ms[k] = ns[old(k)]
      BY ONLY <1>4, <3>1
    <3> QED BY ONLY <3>1, <3>2
  <2> QED BY <1>2, <2>1, <2>2, <2>3
<1>6. \A k \in 1 .. M : NLen(ms[k]) \in 1 .. MaxOf(ms[k].type) /\ ms[k].type \in types \cup more
  <2> HIDE DEF old, In
  <2> QED BY ONLY <1>1, <1>5, Good(ns, types), Good(xs, more) DEF Good
<1>7. \A k, l \in 1 .. M : k # l => ms[k].id # ms[l].id
  <2> TAKE k, l \in 1 .. M
  <2> HAVE k # l
  <2>1. ~In(k) /\ ~In(l) => old(k) # old(l)
    BY ONLY <1>2, k \in 1 .. M, l \in 1 .. M, k # l
  <2>2. In(k) /\ In(l) => k - i # l - i
    BY <1>2
  <2> HIDE DEF old, In
  <2>3. CASE In(k) /\ In(l)
    BY <1>1, <1>5, <2>2, <2>3 DEF Good
  <2>4. CASE ~In(k) /\ ~In(l)
    BY <1>1, <1>5, <2>1, <2>4 DEF Good
  <2>5. CASE In(k) /\ ~In(l)
    BY <1>1, <1>5, <2>5 DEF Apart
  <2>6. CASE ~In(k) /\ In(l)
    BY <1>1, <1>5, <2>6 DEF Apart
  <2> QED BY <2>3, <2>4, <2>5, <2>6
<1> QED BY <1>1, <1>6, <1>7 DEF Good

(* A list of one node, and the empty list. *)
LEMMA SingleIs ==
  ASSUME NEW n \in NodeRec
  PROVE  /\ <<n>> \in Seq(NodeRec) /\ Len(<<n>>) = 1 /\ <<n>>[1] = n
         /\ Upto(<<n>>, 1) = NLen(n)
         /\ \A t : CountType(<<n>>, t) = IF n.type = t THEN 1 ELSE 0
<1>1. PICK s : s = <<n>>
  OBVIOUS
<1>2. s \in Seq(NodeRec) /\ Len(s) = 1 /\ s[1] = n
  BY <1>1
<1>3. Upto(s, 1) = NLen(n)
  <2>1. Upto(s, 0) = 0 /\ 1 \in 1 .. Len(s) /\ 1 - 1 = 0 /\ NLen(s[1]) \in Nat
    BY <1>2, UptoIs, NodeIs
  <2>2. Upto(s, 1) = Upto(s, 1 - 1) + NLen(s[1])
    BY ONLY <1>2, <2>1, UptoIs
  <2> QED BY <1>2, <2>1, <2>2
<1>4. \A t : CountType(s, t) = IF n.type = t THEN 1 ELSE 0
  <2> TAKE t
  <2>1. {i \in 1 .. Len(s) : s[i].type = t} = IF n.type = t THEN {1} ELSE {}
    BY <1>2
  <2>2. Cardinality({1}) = 1 /\ Cardinality({}) = 0
    BY FS_Singleton, FS_EmptySet
  <2> QED BY <2>1, <2>2 DEF CountType
<1> QED BY <1>1, <1>2, <1>3, <1>4

(* The empty list. *)
LEMMA EmptyIs ==
  /\ <<>> \in Seq(NodeRec) /\ Len(<<>>) = 0 /\ Upto(<<>>, 0) = 0
  /\ \A t : CountType(<<>>, t) = 0
<1>1. PICK s : s = <<>>
  OBVIOUS
<1>2. s \in Seq(NodeRec) /\ Len(s) = 0
  BY <1>1
<1>3. Upto(s, 0) = 0
  BY <1>2, UptoIs
<1>4. \A t : CountType(s, t) = 0
  <2> TAKE t
  <2>1. {i \in 1 .. Len(s) : s[i].type = t} = {}
    BY <1>2
  <2> QED BY <2>1, FS_EmptySet DEF CountType
<1> QED BY <1>1, <1>2, <1>3, <1>4

(* Node i has len bytes now. *)
Altered(ms, ns, i, len) ==
  /\ ms \in Seq(NodeRec) /\ ns \in Seq(NodeRec) /\ i \in 1 .. Len(ns) /\ len \in Nat
  /\ Len(ms) = Len(ns)
  /\ \A k \in 1 .. Len(ns) :
       /\ ms[k].id = ns[k].id /\ ms[k].type = ns[k].type
       /\ NLen(ms[k]) = IF k = i THEN len ELSE NLen(ns[k])

LEMMA AlteredIs ==
  ASSUME NEW ns \in Seq(NodeRec), NEW i \in 1 .. Len(ns), NEW d \in Seq(Byte)
  PROVE  Altered([ns EXCEPT ![i].data = d], ns, i, Len(d))
<1> DEFINE n == [ns[i] EXCEPT !.data = d]
           ms == [ns EXCEPT ![i] = n]
<1>1. Len(ns) \in Nat /\ ns[i] \in NodeRec
  BY NodeIs
<1>2. n \in NodeRec /\ n.id = ns[i].id /\ n.type = ns[i].type /\ n.data = d
  BY <1>1 DEF NodeRec
<1>3. ms = [ns EXCEPT ![i].data = d]
  OBVIOUS
<1> HIDE DEF n
<1>4. ms \in Seq(NodeRec) /\ Len(ms) = Len(ns) /\ \A k \in 1 .. Len(ns) : ms[k] = IF k = i THEN n ELSE ns[k]
  BY <1>1, <1>2
<1> HIDE DEF ms
<1>5. Len(d) \in Nat
  OBVIOUS
<1>6. Altered(ms, ns, i, Len(d))
  BY <1>2, <1>4, <1>5 DEF Altered, NLen
<1> QED BY <1>3, <1>6

(* What this does to the lengths, ... *)
LEMMA AlteredUpto ==
  ASSUME NEW ms, NEW ns, NEW i, NEW len, Altered(ms, ns, i, len)
  PROVE  /\ \A k \in 0 .. i - 1 : Upto(ms, k) = Upto(ns, k)
         /\ \A k \in i .. Len(ns) : Upto(ms, k) = Upto(ns, k) + (len - NLen(ns[i]))
<1>1. PICK L, y, z, n : L = Len(ns) /\ y = i - 1 /\ z = 0 /\ n = L - i
  OBVIOUS
<1>2. /\ ms \in Seq(NodeRec) /\ ns \in Seq(NodeRec) /\ i \in 1 .. L /\ len \in Nat
      /\ Len(ms) = L /\ L \in Nat
      /\ \A k \in 1 .. L : NLen(ms[k]) = IF k = i THEN len ELSE NLen(ns[k])
  BY <1>1, NodeIs DEF Altered
<1>3. /\ y \in Nat /\ z \in Nat /\ n \in Nat /\ i \in Nat /\ y <= L /\ i + n = L /\ z + y = y /\ y + 1 = i
  BY ONLY <1>1, <1>2
<1>4. Alike(ms, z, ns, z, y)
  <2>1. \A k \in 1 .. y : z + k = k /\ k \in 1 .. L /\ k # i
    BY ONLY <1>1, <1>2, <1>3
  <2>2. \A k \in 1 .. y : NLen(ms[z + k]) = NLen(ns[z + k])
    BY ONLY <1>2, <2>1
  <2> QED BY <1>1, <1>2, <1>3, <2>2 DEF Alike
<1>5. Alike(ms, i, ns, i, n)
  <2>1. \A k \in 1 .. n : i + k \in 1 .. L /\ i + k # i
    BY ONLY <1>1, <1>2, <1>3
  <2>2. \A k \in 1 .. n : NLen(ms[i + k]) = NLen(ns[i + k])
    BY ONLY <1>2, <2>1
  <2> QED BY <1>1, <1>2, <1>3, <2>2 DEF Alike
<1>6. SameUpto(ms, z, ns, z, y) /\ SameUpto(ms, i, ns, i, n)
  BY ONLY <1>4, <1>5, UptoAlike
<1>a. /\ \A k \in 0 .. Len(ms) : Upto(ms, k) \in Nat
      /\ \A k \in 1 .. Len(ms) : Upto(ms, k) = Upto(ms, k - 1) + NLen(ms[k])
  BY ONLY <1>2, UptoIs
<1>b. /\ \A k \in 0 .. Len(ns) : Upto(ns, k) \in Nat
      /\ \A k \in 1 .. Len(ns) : Upto(ns, k) = Upto(ns, k - 1) + NLen(ns[k])
      /\ \A k \in 1 .. Len(ns) : NLen(ns[k]) \in Nat
  BY ONLY <1>2, UptoIs, NodeIs
<1>7. \A k \in 0 .. L : Upto(ms, k) \in Nat /\ Upto(ns, k) \in Nat
  BY ONLY <1>1, <1>2, <1>a, <1>b
<1>8. Upto(ms, z) = 0 /\ Upto(ns, z) = 0
  BY <1>1, <1>2, UptoIs
<1>9. \A k \in 0 .. y : Upto(ms, k) = Upto(ns, k)
  <2> TAKE k \in 0 .. y
  <2>1. z + k = k /\ k \in 0 .. L
    BY ONLY <1>1, <1>3, k \in 0 .. y
  <2>2. Upto(ms, z + k) - Upto(ms, z) = Upto(ns, z + k) - Upto(ns, z)
    BY ONLY <1>6, k \in 0 .. y DEF SameUpto
  <2>3. Upto(ms, k) - 0 = Upto(ns, k) - 0
    BY ONLY <1>8, <2>1, <2>2
  <2> QED BY ONLY <1>7, <2>1, <2>3
<1>10. Upto(ms, i) = Upto(ns, i) + (len - NLen(ns[i])) /\ NLen(ns[i]) \in Nat
  <2>1. Upto(ms, i) = Upto(ms, i - 1) + NLen(ms[i]) /\ Upto(ns, i) = Upto(ns, i - 1) + NLen(ns[i])
    BY ONLY <1>1, <1>2, <1>a, <1>b
  <2>2. Upto(ms, y) = Upto(ns, y) /\ Upto(ns, y) \in Nat
    BY ONLY <1>3, <1>7, <1>9
  <2>3. NLen(ns[i]) \in Nat /\ NLen(ms[i]) = len
    BY ONLY <1>1, <1>2, <1>b
  <2> QED BY ONLY <1>1, <1>2, <2>1, <2>2, <2>3
<1>11. \A k \in i .. L : Upto(ms, k) = Upto(ns, k) + (len - NLen(ns[i]))
  <2> TAKE k \in i .. L
  <2>1. k - i \in 0 .. n /\ i + (k - i) = k /\ k \in 0 .. L /\ i \in 0 .. L
    BY ONLY <1>1, <1>2, k \in i .. L
  <2>2. Upto(ms, i + (k - i)) - Upto(ms, i) = Upto(ns, i + (k - i)) - Upto(ns, i)
    BY ONLY <1>6, <2>1 DEF SameUpto
  <2>3. Upto(ms, k) - Upto(ms, i) = Upto(ns, k) - Upto(ns, i)
    BY ONLY <2>1, <2>2
  <2>4. Upto(ms, k) \in Nat /\ Upto(ms, i) \in Nat /\ Upto(ns, k) \in Nat /\ Upto(ns, i) \in Nat
    BY <1>7, <2>1
  <2>5. len \in Nat
    BY <1>2
  <2> QED BY ONLY <1>10, <2>3, <2>4, <2>5
<1> QED BY <1>1, <1>9, <1>11

(* ... the numbers of nodes ... *)
LEMMA AlteredCount ==
  ASSUME NEW ms, NEW ns, NEW i, NEW len, NEW t, Altered(ms, ns, i, len)
  PROVE  CountType(ms, t) = CountType(ns, t)
<1>1. {k \in 1 .. Len(ms) : ms[k].type = t} = {k \in 1 .. Len(ns) : ns[k].type = t}
  BY DEF Altered
<1> QED BY <1>1 DEF CountType

(* ... and the nodes. *)
LEMMA AlteredGood ==
  ASSUME NEW ms, NEW ns, NEW i, NEW len, NEW types, Altered(ms, ns, i, len), Good(ns, types),
         len > 0, len <= MaxOf(ns[i].type)
  PROVE  Good(ms, types)
<1>1. MaxOf(ns[i].type) \in Nat
  BY NodesAssumption DEF MaxOf
<1>2. len \in 1 .. MaxOf(ns[i].type) /\ i \in 1 .. Len(ns) /\ Len(ms) = Len(ns)
  BY <1>1 DEF Altered
<1>3. \A k \in 1 .. Len(ns) : NLen(ms[k]) \in 1 .. MaxOf(ms[k].type) /\ ms[k].type \in types
  BY <1>2 DEF Altered, Good
<1>4. \A k, l \in 1 .. Len(ns) : k # l => ms[k].id # ms[l].id
  BY <1>2 DEF Altered, Good
<1> QED BY <1>2, <1>3, <1>4 DEF Good

-----------------------------------------------------------------------------
(* Addresses of new nodes *)

Unused(b) == Ids \ {b.nodes[i].id : i \in 1 .. Len(b.nodes)}

(* There are addresses that no node has, ... *)
LEMMA UnusedIs ==
  ASSUME NEW b, b.nodes \in Seq(NodeRec)
  PROVE  /\ Unused(b) \in SUBSET (1 .. 2 * MaxLen)
         /\ Cardinality(Unused(b)) \in Nat
         /\ 2 * MaxLen - Len(b.nodes) <= Cardinality(Unused(b))
<1> DEFINE L == Len(b.nodes)
           A == {b.nodes[i].id : i \in 1 .. L}
           f == [i \in 1 .. L |-> b.nodes[i].id]
<1>1. L \in Nat /\ MaxLen \in Nat
  BY NodesAssumption, NodeIs
<1>2. IsFiniteSet(1 .. L) /\ Cardinality(1 .. L) = L
  <2>1. 1 \in Int /\ L \in Int
    BY <1>1
  <2>2. IsFiniteSet(1 .. L) /\ Cardinality(1 .. L) = IF 1 > L THEN 0 ELSE L - 1 + 1
    BY ONLY <2>1, FS_Interval
  <2> QED BY <1>1, <2>2
<1>3. IsFiniteSet(Ids) /\ Cardinality(Ids) = 2 * MaxLen
  <2>1. PICK n \in Nat : n = 2 * MaxLen
    BY <1>1
  <2>2. 1 \in Int /\ n \in Int
    OBVIOUS
  <2>3. IsFiniteSet(1 .. n) /\ Cardinality(1 .. n) = IF 1 > n THEN 0 ELSE n - 1 + 1
    BY ONLY <2>2, FS_Interval
  <2>4. Cardinality(1 .. n) = n
    BY <2>3
  <2> QED BY <2>1, <2>3, <2>4 DEF Ids
<1>4. IsFiniteSet(A) /\ Cardinality(A) <= L
  <2>1. f \in Surjection(1 .. L, A)
    BY DEF Surjection
  <2> HIDE DEF f, A, L
  <2> QED BY <1>2, <2>1, FS_Surjection
<1>5. Unused(b) = Ids \ A
  BY DEF Unused
<1> HIDE DEF A, L
<1>6. IsFiniteSet(Ids \ A) /\ Cardinality(Ids \ A) = Cardinality(Ids) - Cardinality(Ids \cap A)
  BY ONLY <1>3, FS_Difference
<1>7. Cardinality(Ids \cap A) <= Cardinality(A) /\ IsFiniteSet(Ids \cap A)
  BY <1>4, FS_Subset
<1>8. Cardinality(A) \in Nat /\ Cardinality(Ids \cap A) \in Nat /\ Cardinality(Ids \ A) \in Nat
  BY <1>4, <1>6, <1>7, FS_CardinalityType
<1>9. 2 * MaxLen - L <= Cardinality(Ids \ A)
  BY ONLY <1>1, <1>3, <1>4, <1>6, <1>7, <1>8
<1>10. Ids \ A \in SUBSET (1 .. 2 * MaxLen)
  BY DEF Ids
<1> QED BY <1>5, <1>8, <1>9, <1>10 DEF L

Fresh(b, k, x) == x \in Unused(b) /\ Cardinality({y \in Unused(b) : y < x}) = k - 1

(* ... and FreshId() gives them, ... *)
LEMMA FreshIs ==
  ASSUME NEW b, b.nodes \in Seq(NodeRec), NEW k \in Nat, 1 <= k, Len(b.nodes) + k <= 2 * MaxLen
  PROVE  Fresh(b, k, FreshId(b, k))
<1>1. Len(b.nodes) \in Nat /\ MaxLen \in Nat
  BY NodesAssumption, NodeIs
<1>2. PICK n \in Nat : n = 2 * MaxLen
  BY <1>1
<1>a. /\ Unused(b) \in SUBSET (1 .. 2 * MaxLen) /\ Cardinality(Unused(b)) \in Nat
      /\ 2 * MaxLen - Len(b.nodes) <= Cardinality(Unused(b))
  BY UnusedIs
<1>3. Unused(b) \in SUBSET (1 .. n) /\ k <= Cardinality(Unused(b))
  <2>1. Len(b.nodes) + k <= n /\ n - Len(b.nodes) <= Cardinality(Unused(b))
    BY <1>2, <1>a
  <2>2. k <= Cardinality(Unused(b))
    BY ONLY <1>1, <1>a, <2>1, k \in Nat, n \in Nat
  <2> QED BY <1>2, <1>a, <2>2
<1>4. \E x \in Unused(b) : Cardinality({y \in Unused(b) : y < x}) = k - 1
  BY <1>3, NthOf
<1>5. FreshId(b, k) = CHOOSE x \in Unused(b) : Cardinality({y \in Unused(b) : y < x}) = k - 1
  BY DEF FreshId, Unused
<1> QED BY <1>4, <1>5 DEF Fresh

(* ... each one once. *)
LEMMA FreshApart ==
  ASSUME NEW b, NEW k \in Nat, NEW l \in Nat, NEW x, NEW y, Fresh(b, k, x), Fresh(b, l, y), k # l
  PROVE  x # y
BY DEF Fresh

(* No node has that address. *)
LEMMA FreshNew ==
  ASSUME NEW b, NEW k, NEW x, Fresh(b, k, x)
  PROVE  x \in Ids /\ \A i \in 1 .. Len(b.nodes) : b.nodes[i].id # x
BY DEF Fresh, Unused

-----------------------------------------------------------------------------
(* Spare nodes *)

(* Every node is on a spare list or one of ns. *)
Fits(ns, c) ==
  /\ c \in ConfRec /\ ns \in Seq(NodeRec)
  /\ \A t \in NodeTypes : c.made[t] <= Cap[t] /\ c.made[t] = c.spare[t] + CountType(ns, t)
  /\ c.ref = 1 + CountType(ns, "REF")

(* The nodes that are asked for are made, if there is memory. *)
LEMMA EnsureIs ==
  ASSUME NEW ns, NEW c, Fits(ns, c), NEW t \in NodeTypes, NEW n \in Nat
  PROVE  /\ Fits(ns, Ensure(c, t, n).c) /\ Ensure(c, t, n).ok \in BOOLEAN
         /\ Ensure(c, t, n).ok => Ensure(c, t, n).c.spare[t] >= n
<1> DEFINE want == IF n > c.spare[t] THEN n - c.spare[t] ELSE 0
           got == IF want > Cap[t] - c.made[t] THEN Cap[t] - c.made[t] ELSE want
           d == [c EXCEPT !.spare[t] = @ + got, !.made[t] = @ + got]
<1>1. Ensure(c, t, n) = [c |-> d, ok |-> got = want]
  BY DEF Ensure
<1>2. /\ c.spare[t] \in Nat /\ c.made[t] \in Nat /\ Cap[t] \in Nat /\ c.made[t] <= Cap[t]
      /\ c.spare \in [NodeTypes -> Nat] /\ c.made \in [NodeTypes -> Nat] /\ c \in ConfRec
      /\ c.ref \in Nat /\ ns \in Seq(NodeRec)
  BY NodesAssumption DEF Fits, ConfRec
<1>3. got \in Nat /\ c.made[t] + got <= Cap[t] /\ (got = want => c.spare[t] + got >= n)
  BY <1>2
<1> HIDE DEF got, want
<1>4. /\ d \in ConfRec /\ d.ref = c.ref
      /\ \A u \in NodeTypes : d.spare[u] = (IF u = t THEN c.spare[t] + got ELSE c.spare[u])
                            /\ d.made[u] = (IF u = t THEN c.made[t] + got ELSE c.made[u])
  <2> DEFINE s == [c.spare EXCEPT ![t] = @ + got]
             m == [c.made EXCEPT ![t] = @ + got]
  <2>1. s \in [NodeTypes -> Nat] /\ m \in [NodeTypes -> Nat]
    BY <1>2, <1>3
  <2>2. \A u \in NodeTypes : s[u] = (IF u = t THEN c.spare[t] + got ELSE c.spare[u])
                            /\ m[u] = (IF u = t THEN c.made[t] + got ELSE c.made[u])
    BY <1>2
  <2>3. d = [c EXCEPT !.spare = s, !.made = m]
    OBVIOUS
  <2> HIDE DEF s, m, d
  <2>4. d \in ConfRec /\ d.ref = c.ref /\ d.spare = s /\ d.made = m
    BY <1>2, <2>1, <2>3 DEF ConfRec
  <2> QED BY <2>2, <2>4
<1> HIDE DEF d
<1>5. \A u \in NodeTypes : d.made[u] <= Cap[u] /\ d.made[u] = d.spare[u] + CountType(ns, u)
  <2> TAKE u \in NodeTypes
  <2>1. c.made[u] <= Cap[u] /\ c.made[u] = c.spare[u] + CountType(ns, u)
    BY DEF Fits
  <2>2. CountType(ns, u) \in Nat /\ c.spare[u] \in Nat
    BY <1>2, CountIs
  <2> QED BY <1>3, <1>4, <2>1, <2>2
<1>6. Fits(ns, d)
  <2>1. d.ref = 1 + CountType(ns, "REF") /\ ns \in Seq(NodeRec) /\ d \in ConfRec
    BY <1>4 DEF Fits
  <2> QED BY ONLY <1>5, <2>1 DEF Fits
<1>7. Ensure(c, t, n).c = d /\ Ensure(c, t, n).ok = (got = want)
  BY <1>1
<1>8. (got = want) \in BOOLEAN
  BY ONLY TRUE, Zenon
<1>9. got = want => d.spare[t] >= n
  BY <1>3, <1>4
<1> QED BY ONLY <1>6, <1>7, <1>8, <1>9

(* Some of them are used. *)
LEMMA TakeIs ==
  ASSUME NEW ns, NEW ms, NEW c, NEW t \in NodeTypes, NEW n \in Nat, Fits(ns, c), c.spare[t] >= n,
         ms \in Seq(NodeRec),
         \A u \in NodeTypes : CountType(ms, u) = CountType(ns, u) + (IF u = t THEN n ELSE 0)
  PROVE  Fits(ms, Take(c, t, n))
<1> DEFINE d == Take(c, t, n)
<1>1. /\ c.spare[t] \in Nat /\ c.spare \in [NodeTypes -> Nat] /\ c.made \in [NodeTypes -> Nat]
      /\ c \in ConfRec /\ c.ref \in Nat /\ c.ref = 1 + CountType(ns, "REF") /\ ns \in Seq(NodeRec)
  BY DEF Fits, ConfRec
<1>2. /\ d \in ConfRec /\ d.made = c.made /\ d.ref = c.ref + (IF t = "REF" THEN n ELSE 0)
      /\ \A u \in NodeTypes : d.spare[u] = c.spare[u] - (IF u = t THEN n ELSE 0)
  <2> DEFINE s == [c.spare EXCEPT ![t] = @ - n]
             r == IF t = "REF" THEN c.ref + n ELSE c.ref
  <2>1. s \in [NodeTypes -> Nat] /\ r \in Nat /\ r = c.ref + (IF t = "REF" THEN n ELSE 0)
    BY <1>1
  <2>2. \A u \in NodeTypes : s[u] = c.spare[u] - (IF u = t THEN n ELSE 0)
    BY <1>1
  <2>3. d = [c EXCEPT !.spare = s, !.ref = r]
    BY DEF Take
  <2> HIDE DEF s, r, d
  <2>4. d \in ConfRec /\ d.made = c.made /\ d.spare = s /\ d.ref = r
    BY <1>1, <2>1, <2>3 DEF ConfRec
  <2> QED BY <2>1, <2>2, <2>4
<1> HIDE DEF d
<1>3. \A u \in NodeTypes : d.made[u] <= Cap[u] /\ d.made[u] = d.spare[u] + CountType(ms, u)
  <2> TAKE u \in NodeTypes
  <2>1. c.made[u] <= Cap[u] /\ c.made[u] = c.spare[u] + CountType(ns, u)
    BY DEF Fits
  <2>2. CountType(ns, u) \in Nat /\ c.spare[u] \in Nat
    BY <1>1, CountIs
  <2> QED BY <1>2, <2>1, <2>2
<1>4. d.ref = 1 + CountType(ms, "REF")
  <2>1. CountType(ns, "REF") \in Nat /\ "REF" \in NodeTypes
    BY <1>1, CountIs DEF NodeTypes
  <2>2. CountType(ms, "REF") = CountType(ns, "REF") + (IF t = "REF" THEN n ELSE 0)
    BY <2>1
  <2>3. PICK x \in Nat : x = IF t = "REF" THEN n ELSE 0
    OBVIOUS
  <2>4. d.ref = c.ref + x /\ CountType(ms, "REF") = CountType(ns, "REF") + x
    BY ONLY <1>2, <2>2, <2>3
  <2> QED BY ONLY <1>1, <2>1, <2>4, x \in Nat
<1>5. d \in ConfRec
  BY <1>2
<1> QED BY ONLY <1>3, <1>4, <1>5, ms \in Seq(NodeRec) DEF Fits, d

(* Nodes xs go back to the spare lists. *)
LEMMA RelinkIs ==
  ASSUME NEW ns, NEW ms, NEW c, NEW xs, Fits(ns, c), ms \in Seq(NodeRec), xs \in Seq(NodeRec),
         \A u \in NodeTypes : CountType(ms, u) + CountType(xs, u) = CountType(ns, u)
  PROVE  Fits(ms, Relink(c, xs))
<1> DEFINE d == Relink(c, xs)
<1>1. /\ c.spare \in [NodeTypes -> Nat] /\ c.made \in [NodeTypes -> Nat]
      /\ c \in ConfRec /\ c.ref \in Nat /\ c.ref = 1 + CountType(ns, "REF") /\ ns \in Seq(NodeRec)
  BY DEF Fits, ConfRec
<1>2. \A u : CountType(xs, u) \in Nat /\ CountType(ms, u) \in Nat /\ CountType(ns, u) \in Nat
  BY <1>1, CountIs
<1>3. "REF" \in NodeTypes
  BY DEF NodeTypes
<1>4. c.ref - CountType(xs, "REF") = 1 + CountType(ms, "REF")
  BY <1>1, <1>2, <1>3
<1>5. /\ d \in ConfRec /\ d.made = c.made /\ d.ref = c.ref - CountType(xs, "REF")
      /\ \A u \in NodeTypes : d.spare[u] = c.spare[u] + CountType(xs, u)
  <2> DEFINE s == [u \in NodeTypes |-> c.spare[u] + CountType(xs, u)]
             r == c.ref - CountType(xs, "REF")
  <2>0. \A u \in NodeTypes : c.spare[u] \in Nat
    BY ONLY <1>1
  <2>1. s \in [NodeTypes -> Nat] /\ r \in Nat
    <3>1. s \in [NodeTypes -> Nat]
      BY ONLY <1>2, <2>0
    <3>2. r \in Nat
      BY ONLY <1>2, <1>4
    <3> QED BY ONLY <3>1, <3>2
  <2>2. \A u \in NodeTypes : s[u] = c.spare[u] + CountType(xs, u)
    OBVIOUS
  <2>3. d = [c EXCEPT !.spare = s, !.ref = r]
    BY DEF Relink
  <2> HIDE DEF s, d
  <2>4. d \in ConfRec /\ d.made = c.made /\ d.spare = s /\ d.ref = r
    BY <1>1, <2>1, <2>3 DEF ConfRec
  <2> QED BY <2>1, <2>2, <2>4
<1> HIDE DEF d
<1>6. \A u \in NodeTypes : d.made[u] <= Cap[u] /\ d.made[u] = d.spare[u] + CountType(ms, u)
  <2> TAKE u \in NodeTypes
  <2>1. c.made[u] <= Cap[u] /\ c.made[u] = c.spare[u] + CountType(ns, u) /\ c.spare[u] \in Nat
    BY <1>1 DEF Fits
  <2> QED BY <1>2, <1>5, <2>1
<1>7. d \in ConfRec /\ d.ref = 1 + CountType(ms, "REF")
  BY <1>4, <1>5
<1> QED BY ONLY <1>6, <1>7, ms \in Seq(NodeRec) DEF Fits, d

-----------------------------------------------------------------------------
(* The iovec cache is kept beside the rest of the string. *)

Same(b, d) ==
  /\ IsBase(d)
  /\ d.nodes = b.nodes /\ d.used = b.used /\ d.len = b.len /\ d.num = b.num
  /\ d.end = b.end /\ d.types = b.types /\ d.pc = b.pc /\ d.minoff = b.minoff

(* The fields of a string. *)
LEMMA BaseIs ==
  ASSUME NEW b, IsBase(b)
  PROVE  /\ b.nodes \in Seq(NodeRec) /\ b.used \in Nat /\ b.len \in Nat /\ b.num \in Nat
         /\ b.end \in Nat /\ b.types \in SUBSET NodeTypes /\ b.upto \in BOOLEAN
         /\ b.pc \in PosRec /\ b.minoff \in Nat /\ b.vec.sz \in Nat /\ b.vec.off \in Nat
BY DEF IsBase, BaseRec

(* What the iovec cache may become. *)
LEMMA VecSet ==
  ASSUME NEW b, IsBase(b), NEW upto \in BOOLEAN, NEW w, NEW v, w \in [sz : Nat, off : Nat, v : {v}]
  PROVE  Same(b, [b EXCEPT !.upto = upto, !.vec = w])
<1> DEFINE d == [b EXCEPT !.upto = upto, !.vec = w]
<1>1. w.v = v
  OBVIOUS
<1>2. d \in BaseRec(v) /\ d.vec = w
  BY DEF IsBase, BaseRec
<1>3. IsBase(d)
  BY <1>1, <1>2 DEF IsBase
<1>4. /\ d.nodes = b.nodes /\ d.used = b.used /\ d.len = b.len /\ d.num = b.num
      /\ d.end = b.end /\ d.types = b.types /\ d.pc = b.pc /\ d.minoff = b.minoff
  BY DEF IsBase, BaseRec
<1> QED BY <1>3, <1>4 DEF Same

(* The entries of the cache only change. *)
LEMMA VecEntries ==
  ASSUME NEW b, IsBase(b), NEW upto \in BOOLEAN, NEW v
  PROVE  Same(b, [b EXCEPT !.upto = upto, !.vec.v = v]) /\ Same(b, [b EXCEPT !.vec.v = v])
<1> DEFINE w == [b.vec EXCEPT !.v = v]
<1>1. w \in [sz : Nat, off : Nat, v : {v}] /\ b.upto \in BOOLEAN
  BY DEF IsBase, BaseRec
<1>2. [b EXCEPT !.upto = upto, !.vec.v = v] = [b EXCEPT !.upto = upto, !.vec = w]
  OBVIOUS
<1>3. [b EXCEPT !.vec.v = v] = [b EXCEPT !.upto = b.upto, !.vec = w]
  BY DEF IsBase, BaseRec
<1> HIDE DEF w
<1>4. Same(b, [b EXCEPT !.upto = upto, !.vec = w]) /\ Same(b, [b EXCEPT !.upto = b.upto, !.vec = w])
  BY <1>1, VecSet
<1> QED BY ONLY <1>2, <1>3, <1>4

(* A string is the same as itself. *)
LEMMA SameSelf ==
  ASSUME NEW b, IsBase(b)
  PROVE  Same(b, b)
BY DEF Same

(* Same() twice. *)
LEMMA SameTrans ==
  ASSUME NEW b, NEW d, NEW e, Same(b, d), Same(d, e)
  PROVE  Same(b, e)
BY DEF Same

(* The operations on the entries of the iovec cache leave the rest alone. *)
LEMMA IovecEntriesSame ==
  ASSUME NEW b, IsBase(b), NEW num, NEW k
  PROVE  /\ Same(b, IovecStale(b)) /\ Same(b, IovecLenAdd(b, num, k))
         /\ Same(b, IovecDropFront(b, num, k)) /\ Same(b, IovecRedo(b, k, num))
         /\ Same(b, IovecFill(b))
<1>1. Same(b, IovecStale(b))
  BY VecEntries DEF IovecStale
<1>2. Same(b, IovecLenAdd(b, num, k))
  <2> DEFINE v == [b.vec.v EXCEPT ![num].len = @ + k]
  <2>1. [b EXCEPT !.vec.v[num].len = @ + k] = [b EXCEPT !.vec.v = v]
    OBVIOUS
  <2>2. Same(b, [b EXCEPT !.vec.v = v])
    <3> HIDE DEF v
    <3> QED BY VecEntries
  <2>3. Same(b, [b EXCEPT !.vec.v[num].len = @ + k])
    BY ONLY <2>1, <2>2
  <2> QED BY <2>3, SameSelf DEF IovecLenAdd
<1>3. Same(b, IovecDropFront(b, num, k))
  <2> DEFINE v == [b.vec.v EXCEPT ![num] = IovDropFront(@, k)]
  <2>1. [b EXCEPT !.vec.v[num] = IovDropFront(@, k)] = [b EXCEPT !.vec.v = v]
    OBVIOUS
  <2>2. Same(b, [b EXCEPT !.vec.v = v])
    <3> HIDE DEF v
    <3> QED BY VecEntries
  <2>3. Same(b, [b EXCEPT !.vec.v[num] = IovDropFront(@, k)])
    BY ONLY <2>1, <2>2
  <2> QED BY <2>3, SameSelf DEF IovecDropFront
<1>4. Same(b, IovecRedo(b, k, num))
  <2> DEFINE v == [b.vec.v EXCEPT ![num] = Iov(b.nodes[k])]
  <2>1. [b EXCEPT !.vec.v[num] = Iov(b.nodes[k])] = [b EXCEPT !.vec.v = v]
    OBVIOUS
  <2>2. Same(b, [b EXCEPT !.vec.v = v])
    <3> HIDE DEF v
    <3> QED BY VecEntries
  <2>3. Same(b, [b EXCEPT !.vec.v[num] = Iov(b.nodes[k])])
    BY ONLY <2>1, <2>2
  <2> QED BY <2>3, SameSelf DEF IovecRedo
<1>5. Same(b, IovecFill(b))
  <2> DEFINE v == [i \in 1 .. b.num |-> IF i = 1 THEN IovDropFront(Iov(b.nodes[1]), b.used)
                                        ELSE Iov(b.nodes[i])]
  <2>1. IovecFill(b) = [b EXCEPT !.upto = TRUE, !.vec.v = v]
    BY DEF IovecFill
  <2>2. Same(b, [b EXCEPT !.upto = TRUE, !.vec.v = v])
    <3> HIDE DEF v
    <3> QED BY VecEntries
  <2> QED BY ONLY <2>1, <2>2
<1> QED BY <1>1, <1>2, <1>3, <1>4, <1>5

(* So do the ones that move it in its arrays. *)
LEMMA IovecSame ==
  ASSUME NEW b, IsBase(b), NEW ns, Len(ns) \in Nat, NEW atEnd \in BOOLEAN, NEW n \in Nat
  PROVE  /\ Same(b, IovecMaybeAdd(b, ns, atEnd)) /\ Same(b, IovecReset(b))
         /\ Same(b, IovecAlloc(b, n)) /\ Same(b, [b EXCEPT !.vec.off = IovecOff(b, n)])
<1>0. b.vec.sz \in Nat /\ b.vec.off \in Nat /\ b.minoff \in Nat /\ b.upto \in BOOLEAN
      /\ b.vec \in [sz : Nat, off : Nat, v : {b.vec.v}]
  BY DEF IsBase, BaseRec
<1>1. Same(b, IovecMaybeAdd(b, ns, atEnd))
  <2> DEFINE m == Len(ns)
             es == [i \in 1 .. m |-> Iov(ns[i])]
             fits == IF atEnd THEN b.num + m <= b.vec.sz - b.vec.off ELSE m <= b.vec.off
             v1 == b.vec.v \o es
             v2 == Reverse(es) \o b.vec.v
             b1 == [b EXCEPT !.vec.v = @ \o es]
             b2 == [b EXCEPT !.vec.v = Reverse(es) \o @, !.vec.off = @ - m]
             b3 == [IovecStale(b) EXCEPT !.vec.off = IF atEnd THEN @ ELSE 0]
  <2>1. IovecMaybeAdd(b, ns, atEnd) =
          CASE ~b.upto -> b
            [] b.upto /\ fits /\ atEnd -> b1
            [] b.upto /\ fits /\ ~atEnd -> b2
            [] OTHER -> b3
    BY DEF IovecMaybeAdd
  <2>2. Same(b, b1)
    <3>1. b1 = [b EXCEPT !.vec.v = v1]
      OBVIOUS
    <3>2. Same(b, [b EXCEPT !.vec.v = v1])
      <4> HIDE DEF v1
      <4> QED BY VecEntries
    <3> QED BY ONLY <3>1, <3>2
  <2>3. b.upto /\ fits /\ ~atEnd => Same(b, b2)
    <3> HAVE b.upto /\ fits /\ ~atEnd
    <3> DEFINE w == [b.vec EXCEPT !.v = v2, !.off = @ - m]
    <3>1. b2 = [b EXCEPT !.upto = b.upto, !.vec = w]
      BY DEF IsBase, BaseRec
    <3>2. b.vec.off - m \in Nat
      BY <1>0
    <3>3. w \in [sz : Nat, off : Nat, v : {v2}]
      <4> HIDE DEF v2, m
      <4> QED BY <1>0, <3>2
    <3>4. Same(b, [b EXCEPT !.upto = b.upto, !.vec = w])
      <4> HIDE DEF w, v2
      <4> QED BY <1>0, <3>3, VecSet
    <3> QED BY ONLY <3>1, <3>4
  <2>4. Same(b, b3)
    <3> DEFINE d == IovecStale(b)
               w == [d.vec EXCEPT !.off = IF atEnd THEN @ ELSE 0]
    <3>1. Same(b, d) /\ IsBase(d)
      BY IovecEntriesSame DEF Same
    <3>2. b3 = [d EXCEPT !.vec.off = IF atEnd THEN @ ELSE 0]
      OBVIOUS
    <3> HIDE DEF d
    <3>3. b3 = [d EXCEPT !.upto = d.upto, !.vec = w] /\ d.upto \in BOOLEAN
      BY <3>1, <3>2 DEF IsBase, BaseRec
    <3>4. w \in [sz : Nat, off : Nat, v : {d.vec.v}]
      BY <3>1 DEF IsBase, BaseRec
    <3>5. Same(d, [d EXCEPT !.upto = d.upto, !.vec = w])
      <4> HIDE DEF w
      <4> QED BY <3>1, <3>3, <3>4, VecSet
    <3>6. Same(d, b3)
      BY ONLY <3>3, <3>5
    <3> QED BY ONLY <3>1, <3>6, SameTrans
  <2>5. Same(b, b)
    BY SameSelf
  <2> HIDE DEF b1, b2, b3, fits
  <2> QED BY <1>0, <2>1, <2>2, <2>3, <2>4, <2>5
<1>2. Same(b, IovecReset(b))
  <2> DEFINE off == IF b.vec.sz > b.minoff THEN b.minoff ELSE 0
             w == [b.vec EXCEPT !.off = off, !.v = <<>>]
  <2>1. [b EXCEPT !.upto = TRUE, !.vec.off = off, !.vec.v = <<>>] = [b EXCEPT !.upto = TRUE, !.vec = w]
    OBVIOUS
  <2>2. off \in Nat
    BY <1>0
  <2>3. w \in [sz : Nat, off : Nat, v : {<<>>}]
    <3> HIDE DEF off
    <3> QED BY <1>0, <2>2
  <2>4. Same(b, [b EXCEPT !.upto = TRUE, !.vec = w])
    <3> HIDE DEF w
    <3> QED BY <2>3, VecSet
  <2>5. Same(b, [b EXCEPT !.upto = TRUE, !.vec.off = off, !.vec.v = <<>>])
    BY ONLY <2>1, <2>4
  <2> QED BY <2>5, SameSelf DEF IovecReset
<1>3. IovecOff(b, n) \in Nat /\ IovecSz(b, n) \in Nat
  BY <1>0, NodesAssumption DEF IovecOff, IovecSz
<1>4. Same(b, IovecAlloc(b, n))
  <2> DEFINE sz == IF IovecGrows(b, n) THEN n + b.minoff ELSE IovecSz(b, n)
             w == [b.vec EXCEPT !.sz = sz, !.off = IovecOff(b, n)]
  <2>1. IovecAlloc(b, n) = [b EXCEPT !.upto = b.upto, !.vec = w]
    BY DEF IovecAlloc, IsBase, BaseRec
  <2>2. sz \in Nat
    BY <1>0, <1>3
  <2>3. w \in [sz : Nat, off : Nat, v : {b.vec.v}]
    <3> HIDE DEF sz
    <3> QED BY <1>0, <1>3, <2>2
  <2>4. Same(b, [b EXCEPT !.upto = b.upto, !.vec = w])
    <3> HIDE DEF w
    <3> QED BY <1>0, <2>3, VecSet
  <2> QED BY ONLY <2>1, <2>4
<1>5. Same(b, [b EXCEPT !.vec.off = IovecOff(b, n)])
  <2> DEFINE w == [b.vec EXCEPT !.off = IovecOff(b, n)]
  <2>1. [b EXCEPT !.vec.off = IovecOff(b, n)] = [b EXCEPT !.upto = b.upto, !.vec = w]
    BY DEF IsBase, BaseRec
  <2>2. w \in [sz : Nat, off : Nat, v : {b.vec.v}]
    BY <1>0, <1>3
  <2>3. Same(b, [b EXCEPT !.upto = b.upto, !.vec = w])
    <3> HIDE DEF w
    <3> QED BY <1>0, <2>2, VecSet
  <2> QED BY ONLY <2>1, <2>3
<1> QED BY <1>1, <1>2, <1>4, <1>5

-----------------------------------------------------------------------------
(* Positions *)

EndOf(ns) == IF ns = <<>> THEN 0 ELSE ns[Len(ns)].id

UsedIn(ns, used) == used > 0 => ns # <<>> /\ ns[1].type = "BUF" /\ used < NLen(ns[1])

(* The list of a string, ... *)
Shape(b) ==
  /\ IsBase(b) /\ Good(b.nodes, b.types) /\ b.num = Len(b.nodes) /\ b.end = EndOf(b.nodes)
  /\ UsedIn(b.nodes, b.used)

(* ... its length, and the position cache. *)
LenIs(b) == b.len = Upto(b.nodes, Len(b.nodes)) - b.used

Right(b) == Shape(b) /\ LenIs(b) /\ PosCacheOf(b)

(* The number of a node is found by its address. *)
LEMMA IndexOfIs ==
  ASSUME NEW b, NEW types, Good(b.nodes, types), NEW i \in 1 .. Len(b.nodes)
  PROVE  IndexOf(b, b.nodes[i].id) = i
<1>1. \A k \in 1 .. Len(b.nodes) : b.nodes[k].id = b.nodes[i].id => k = i
  BY DEF Good
<1>2. \E k \in 1 .. Len(b.nodes) : b.nodes[k].id = b.nodes[i].id
  OBVIOUS
<1> QED BY <1>1, <1>2 DEF IndexOf

(* What is known of a list that is not empty. *)
LEMMA ShapeIs ==
  ASSUME NEW b, Shape(b), LenIs(b)
  PROVE  /\ b.nodes \in Seq(NodeRec) /\ Len(b.nodes) \in Nat /\ b.used \in Nat /\ b.len \in Nat
         /\ b.num = Len(b.nodes) /\ Filled(b.nodes)
         /\ Upto(b.nodes, 0) = 0 /\ \A i \in 0 .. Len(b.nodes) : Upto(b.nodes, i) \in Nat
         /\ \A i \in 1 .. Len(b.nodes) : /\ Upto(b.nodes, i) = Upto(b.nodes, i - 1) + NLen(b.nodes[i])
                                         /\ NLen(b.nodes[i]) \in Nat /\ NLen(b.nodes[i]) > 0
                                         /\ b.nodes[i].id \in Ids
                                         /\ b.nodes[i].type \in b.types /\ b.nodes[i].type \in NodeTypes
                                         /\ NLen(b.nodes[i]) <= MaxOf(b.nodes[i].type)
         /\ b.len > 0 => Len(b.nodes) > 0 /\ b.end = b.nodes[Len(b.nodes)].id
         /\ Len(b.nodes) > 0 => b.used < NLen(b.nodes[1])
<1>1. /\ b.nodes \in Seq(NodeRec) /\ Len(b.nodes) \in Nat /\ b.used \in Nat /\ b.len \in Nat
      /\ b.num = Len(b.nodes)
  BY BaseIs, NodeIs DEF Shape
<1>2. /\ Upto(b.nodes, 0) = 0 /\ \A i \in 0 .. Len(b.nodes) : Upto(b.nodes, i) \in Nat
      /\ \A i \in 1 .. Len(b.nodes) : Upto(b.nodes, i) = Upto(b.nodes, i - 1) + NLen(b.nodes[i])
  BY <1>1, UptoIs
<1>3. \A i \in 1 .. Len(b.nodes) : /\ NLen(b.nodes[i]) \in Nat /\ b.nodes[i].id \in Ids
                                   /\ b.nodes[i].type \in NodeTypes /\ MaxOf(b.nodes[i].type) \in Nat
  BY <1>1, NodeIs, NodesAssumption DEF MaxOf
<1>4. \A i \in 1 .. Len(b.nodes) : NLen(b.nodes[i]) > 0 /\ NLen(b.nodes[i]) <= MaxOf(b.nodes[i].type)
                                   /\ b.nodes[i].type \in b.types
  BY <1>3 DEF Shape, Good
<1>5. Filled(b.nodes)
  BY <1>4 DEF Filled
<1>6. b.len > 0 => Len(b.nodes) > 0 /\ b.end = b.nodes[Len(b.nodes)].id
  <2> HAVE b.len > 0
  <2>1. ASSUME Len(b.nodes) = 0 PROVE FALSE
    <3>1. b.len = Upto(b.nodes, 0) - b.used
      BY <2>1 DEF LenIs
    <3> QED BY <1>1, <1>2, <3>1
  <2>2. b.nodes # <<>> /\ Len(b.nodes) > 0
    BY <1>1, <2>1
  <2> QED BY <2>2 DEF Shape, EndOf
<1>7. Len(b.nodes) > 0 => b.used < NLen(b.nodes[1])
  <2> HAVE Len(b.nodes) > 0
  <2>1. 1 \in 1 .. Len(b.nodes)
    BY <1>1
  <2>2. NLen(b.nodes[1]) > 0
    BY <1>4, <2>1
  <2>3. UsedIn(b.nodes, b.used)
    BY DEF Shape
  <2> QED BY <1>1, <2>2, <2>3 DEF UsedIn
<1> QED BY <1>1, <1>2, <1>3, <1>4, <1>5, <1>6, <1>7

(* Where a position is. *)
Found(b, pos, f) ==
  /\ f.i \in 1 .. Len(b.nodes) /\ f.p \in 1 .. NLen(b.nodes[f.i])
  /\ Upto(b.nodes, f.i - 1) + f.p = pos + b.used
  /\ f.num \in Int /\ f.scanned \in BOOLEAN /\ (f.scanned => f.i >= 2)

(* vstr_base__pos() finds it. *)
LEMMA BasePosIs ==
  ASSUME NEW b, Right(b), NEW pos \in 1 .. b.len
  PROVE  Found(b, pos, BasePos(b, pos))
<1>1. PICK ns, L, u, q : ns = b.nodes /\ L = Len(b.nodes) /\ u = b.used /\ q = pos + b.used
  OBVIOUS
<1>2. /\ ns \in Seq(NodeRec) /\ L \in Nat /\ u \in Nat /\ b.len \in Nat /\ Filled(ns)
      /\ Upto(ns, 0) = 0 /\ \A i \in 0 .. L : Upto(ns, i) \in Nat
      /\ \A i \in 1 .. L : Upto(ns, i) = Upto(ns, i - 1) + NLen(ns[i]) /\ NLen(ns[i]) \in Nat
      /\ L > 0 /\ b.end = ns[L].id /\ b.num = L /\ L = Len(ns)
  BY <1>1, ShapeIs DEF Right
<1>3. b.len = Upto(ns, L) - u
  BY <1>1 DEF Right, LenIs
<1>4. q \in Nat /\ q = pos + u /\ pos \in Nat /\ 1 <= pos /\ pos <= b.len /\ q <= Upto(ns, L)
  <2>1. L \in 0 .. L /\ Upto(ns, L) \in Nat
    BY <1>2
  <2> QED BY ONLY <1>1, <1>2, <1>3, <2>1, pos \in 1 .. b.len
<1>5. \A i \in 1 .. L : IndexOf(b, ns[i].id) = i
  BY <1>1, IndexOfIs DEF Right, Shape
<1> DEFINE last == IndexOf(b, b.end)
           hit == b.pc.node # 0 /\ b.pc.pos <= pos
           from == IF hit THEN IndexOf(b, b.pc.node) ELSE 1
           p == IF hit THEN pos - b.pc.pos + 1 ELSE pos + b.used
           n == IF hit THEN b.pc.num ELSE 1
           skip(i) == Upto(b.nodes, i) - Upto(b.nodes, from - 1)
           P(j) == skip(j - 1) < p /\ p <= skip(j)
           c == CHOOSE j \in from .. Len(b.nodes) : P(j)
           r1 == [i |-> 1, p |-> pos + b.used, num |-> 1, scanned |-> FALSE]
           r2 == [i |-> last, p |-> pos - (b.len - NLen(b.nodes[last])), num |-> b.num, scanned |-> FALSE]
           r3 == [i |-> c, p |-> p - skip(c - 1), num |-> n + (c - from), scanned |-> TRUE]
           g1 == pos + b.used <= NLen(b.nodes[1])
           g2 == pos + b.used > NLen(b.nodes[1]) /\ pos > b.len - NLen(b.nodes[last])
<1>6. BasePos(b, pos) = CASE g1 -> r1 [] g2 -> r2 [] OTHER -> r3
  BY DEF BasePos
<1>7. last = L
  BY <1>2, <1>5
<1>8. from \in 1 .. L /\ p = q - Upto(ns, from - 1) /\ n \in Int /\ p \in Int /\ p > 0
  <2>1. CASE hit
    <3>1. PICK k \in 2 .. L : ns[k].id = b.pc.node /\ b.pc.pos = Upto(ns, k - 1) - u + 1
      BY <1>1, <2>1 DEF Right, PosCacheOf
    <3>2. from = k /\ p = pos - b.pc.pos + 1 /\ n = b.pc.num
      BY <1>2, <1>5, <2>1, <3>1
    <3>3. b.pc.num \in Int
      BY BaseIs DEF Right, Shape, PosRec
    <3>4. k - 1 \in 0 .. L /\ Upto(ns, k - 1) \in Nat /\ k \in 1 .. L
      BY <1>2, <3>1
    <3>5. pos - b.pc.pos + 1 = q - Upto(ns, k - 1) /\ pos - b.pc.pos + 1 > 0
          /\ pos - b.pc.pos + 1 \in Int
      <4>1. PICK w \in Nat : w = Upto(ns, k - 1)
        BY <3>4
      <4>2. b.pc.pos = w - u + 1 /\ b.pc.pos <= pos /\ u \in Nat /\ q = pos + u /\ pos \in Nat
        BY <1>2, <1>4, <2>1, <3>1, <4>1
      <4>3. pos - b.pc.pos + 1 = q - w /\ pos - b.pc.pos + 1 > 0 /\ pos - b.pc.pos + 1 \in Int
        BY ONLY <4>2, w \in Nat
      <4> QED BY ONLY <4>1, <4>3
    <3> HIDE DEF from, p, n, hit
    <3> QED BY ONLY <3>2, <3>3, <3>4, <3>5
  <2>2. CASE ~hit
    <3>1. from = 1 /\ p = q /\ n = 1
      BY <1>1, <2>2
    <3>2. Upto(ns, 1 - 1) = 0
      BY <1>2
    <3> HIDE DEF from, p, n, hit
    <3> QED BY ONLY <1>2, <1>4, <3>1, <3>2
  <2> QED BY <2>1, <2>2
<1> HIDE DEF hit, from, p, n
<1>9. \E j \in from .. Len(b.nodes) : P(j)
  <2>1. PICK a : a = from - 1
    OBVIOUS
  <2>2. a \in 0 .. L /\ Upto(ns, a) \in Nat /\ Upto(ns, a) < q
    <3>1. a \in 0 .. L
      BY ONLY <1>2, <1>8, <2>1
    <3>2. Upto(ns, a) \in Nat
      BY <1>2, <3>1
    <3> QED BY ONLY <1>4, <1>8, <2>1, <3>1, <3>2
  <2>3. PICK i \in a + 1 .. L : Upto(ns, i - 1) < q /\ q <= Upto(ns, i)
    BY ONLY <1>2, <1>4, <2>2, UptoFind
  <2>4. i \in from .. L /\ i \in 0 .. L /\ i - 1 \in 0 .. L
    BY ONLY <1>2, <1>8, <2>1, <2>3
  <2>5. Upto(ns, i) \in Nat /\ Upto(ns, i - 1) \in Nat
    BY <1>2, <2>4
  <2>6. p = q - Upto(ns, a)
    BY ONLY <1>8, <2>1
  <2>7. Upto(ns, i - 1) - Upto(ns, a) < p /\ p <= Upto(ns, i) - Upto(ns, a)
    BY ONLY <1>4, <2>2, <2>3, <2>5, <2>6
  <2>8. P(i)
    BY ONLY <1>1, <2>1, <2>7
  <2> HIDE DEF P
  <2> QED BY <1>1, <2>4, <2>8
<1>10. c \in from .. L /\ P(c)
  <2> HIDE DEF P
  <2> QED BY <1>1, <1>9
<1> HIDE DEF c
<1>11. CASE g1
  <2>0. ~g2
    <3>1. 1 \in 1 .. L /\ NLen(ns[1]) \in Nat
      BY <1>2
    <3> QED BY ONLY <1>1, <1>2, <1>4, <1>11, <3>1
  <2>1. BasePos(b, pos) = r1
    <3> HIDE DEF g1, g2, r1, r2, r3
    <3> QED BY ONLY <1>6, <1>11, <2>0
  <2>2. 1 \in 1 .. L /\ pos + b.used \in 1 .. NLen(ns[1])
    BY ONLY <1>1, <1>2, <1>4, <1>11
  <2>3. Upto(ns, 1 - 1) + (pos + b.used) = pos + b.used
    BY <1>1, <1>2
  <2> QED BY <1>1, <2>1, <2>2, <2>3 DEF Found
<1>12. CASE g2
  <2>1. ~g1
    <3>1. 1 \in 1 .. L /\ NLen(ns[1]) \in Nat
      BY <1>2
    <3> QED BY ONLY <1>1, <1>2, <1>4, <1>12, <3>1
  <2>2. BasePos(b, pos) = r2
    BY <1>6, <1>12, <2>1
  <2>3. L \in 1 .. L /\ NLen(ns[L]) \in Nat /\ Upto(ns, L) = Upto(ns, L - 1) + NLen(ns[L])
    BY <1>2
  <2>4. Upto(ns, L) \in Nat /\ Upto(ns, L - 1) \in Nat
    <3>1. L \in 0 .. L /\ L - 1 \in 0 .. L
      BY <1>2
    <3> QED BY <1>2, <3>1
  <2>5. pos > b.len - NLen(ns[L])
    BY ONLY <1>1, <1>7, <1>12
  <2> DEFINE x == pos - (b.len - NLen(ns[L]))
  <2>6. x \in 1 .. NLen(ns[L]) /\ Upto(ns, L - 1) + x = pos + u
    <3>1. PICK l, w, y, z : l = b.len /\ w = NLen(ns[L]) /\ y = Upto(ns, L - 1) /\ z = Upto(ns, L)
      OBVIOUS
    <3>2. /\ l \in Nat /\ w \in Nat /\ y \in Nat /\ z \in Nat /\ l = z - u /\ z = y + w /\ pos > l - w
          /\ pos <= l /\ pos \in Nat /\ u \in Nat
      BY ONLY <1>2, <1>3, <1>4, <2>3, <2>4, <2>5, <3>1
    <3>3. pos - (l - w) \in 1 .. w /\ y + (pos - (l - w)) = pos + u
      BY ONLY <3>2
    <3> QED BY ONLY <3>1, <3>3
  <2>7. r2.i = L /\ r2.p = x /\ r2.num \in Int /\ r2.scanned = FALSE
    BY ONLY <1>1, <1>2, <1>7
  <2> HIDE DEF x, r2
  <2> QED BY ONLY <1>1, <2>2, <2>3, <2>6, <2>7 DEF Found
<1>13. CASE ~g1 /\ ~g2
  <2>1. BasePos(b, pos) = r3
    <3> HIDE DEF g1, g2, r1, r2, r3
    <3> QED BY ONLY <1>6, <1>13
  <2>2. c \in 1 .. L /\ c - 1 \in 0 .. L /\ c \in 0 .. L /\ from - 1 \in 0 .. L
    <3>1. L \in Nat /\ from \in 1 .. L /\ c \in from .. L
      BY ONLY <1>2, <1>8, <1>10
    <3> QED BY ONLY <3>1
  <2>3. Upto(ns, c) \in Nat /\ Upto(ns, c - 1) \in Nat /\ Upto(ns, from - 1) \in Nat
        /\ Upto(ns, c) = Upto(ns, c - 1) + NLen(ns[c]) /\ NLen(ns[c]) \in Nat
    BY ONLY <1>2, <2>2
  <2>4. Upto(ns, c - 1) - Upto(ns, from - 1) < p /\ p <= Upto(ns, c) - Upto(ns, from - 1)
    BY ONLY <1>1, <1>10
  <2> DEFINE x == p - (Upto(ns, c - 1) - Upto(ns, from - 1))
  <2>5. x \in 1 .. NLen(ns[c]) /\ Upto(ns, c - 1) + x = q
    BY ONLY <1>4, <1>8, <2>3, <2>4
  <2>6. c >= 2
    <3>1. ASSUME c = 1 PROVE FALSE
      <4>1. Upto(ns, 1 - 1) = 0 /\ NLen(ns[1]) \in Nat /\ ~(q <= NLen(ns[1]))
        BY <1>1, <1>2, <1>13
      <4> QED BY ONLY <1>4, <2>5, <3>1, <4>1
    <3> QED BY ONLY <2>2, <3>1
  <2>7. r3.i = c /\ r3.p = x /\ r3.num = n + (c - from) /\ r3.scanned = TRUE
    BY ONLY <1>1
  <2>8. n + (c - from) \in Int
    BY ONLY <1>8, <2>2
  <2> HIDE DEF x, r3
  <2> QED BY ONLY <1>1, <2>1, <2>2, <2>5, <2>6, <2>7, <2>8 DEF Found
<1> QED BY <1>11, <1>12, <1>13

(* vstr_cache__pos() *)
LEMMA CachePosIs ==
  ASSUME NEW b, Right(b), NEW pos \in Nat, NEW f, Found(b, pos, f)
  PROVE  /\ Right(CachePos(b, pos, f)) /\ Found(CachePos(b, pos, f), pos, f)
         /\ CachePos(b, pos, f).nodes = b.nodes /\ CachePos(b, pos, f).used = b.used
         /\ CachePos(b, pos, f).len = b.len
<1>1. CASE ~f.scanned
  <2>1. CachePos(b, pos, f) = b
    BY <1>1 DEF CachePos
  <2> QED BY <2>1
<1>2. CASE f.scanned
  <2> DEFINE pc == [node |-> b.nodes[f.i].id, pos |-> pos - f.p + 1, num |-> f.num]
             d == [b EXCEPT !.pc = pc]
  <2>1. CachePos(b, pos, f) = d
    BY <1>2 DEF CachePos
  <2>2. /\ b.nodes \in Seq(NodeRec) /\ b.used \in Nat /\ Len(b.nodes) \in Nat
        /\ \A i \in 0 .. Len(b.nodes) : Upto(b.nodes, i) \in Nat
        /\ \A i \in 1 .. Len(b.nodes) : b.nodes[i].id \in Ids /\ NLen(b.nodes[i]) \in Nat
    BY ShapeIs DEF Right
  <2>3. f.i \in 2 .. Len(b.nodes) /\ f.p \in Nat /\ Upto(b.nodes, f.i - 1) + f.p = pos + b.used
        /\ f.num \in Int
    <3>1. f.i \in 1 .. Len(b.nodes) /\ f.p \in 1 .. NLen(b.nodes[f.i]) /\ f.i >= 2
          /\ Upto(b.nodes, f.i - 1) + f.p = pos + b.used /\ f.num \in Int
      BY <1>2 DEF Found
    <3> QED BY <2>2, <3>1
  <2>4. pc \in PosRec
    <3>1. \A x \in Ids : x \in Nat
      BY NodesAssumption DEF Ids
    <3>a. f.i \in 1 .. Len(b.nodes) /\ f.p \in Nat
      BY ONLY <2>2, <2>3
    <3>b. pos - f.p + 1 \in Int
      BY ONLY <3>a, pos \in Nat
    <3>2. b.nodes[f.i].id \in Nat /\ pos - f.p + 1 \in Int
      BY ONLY <2>2, <3>1, <3>a, <3>b
    <3> QED BY <2>3, <3>2 DEF PosRec
  <2>5. pc.node = b.nodes[f.i].id /\ pc.pos = Upto(b.nodes, f.i - 1) - b.used + 1
    <3>1. f.i - 1 \in 0 .. Len(b.nodes)
      BY <2>2, <2>3
    <3>2. Upto(b.nodes, f.i - 1) \in Nat
      BY <2>2, <3>1
    <3>3. pos - f.p + 1 = Upto(b.nodes, f.i - 1) - b.used + 1
      <4>1. PICK w : w = Upto(b.nodes, f.i - 1)
        OBVIOUS
      <4>2. w \in Nat /\ b.used \in Nat /\ f.p \in Nat /\ w + f.p = pos + b.used
        BY ONLY <2>2, <2>3, <3>2, <4>1
      <4>3. pos - f.p + 1 = w - b.used + 1
        BY ONLY <4>2, pos \in Nat
      <4> QED BY ONLY <4>1, <4>3
    <3> QED BY <3>3
  <2> HIDE DEF pc
  <2>6. IsBase(b)
    BY DEF Right, Shape
  <2>7. /\ IsBase(d) /\ d.nodes = b.nodes /\ d.used = b.used /\ d.len = b.len /\ d.num = b.num
        /\ d.end = b.end /\ d.types = b.types /\ d.pc = pc
    BY <2>4, <2>6 DEF IsBase, BaseRec
  <2> HIDE DEF d
  <2>8. PosCacheOf(d)
    BY <2>3, <2>5, <2>7 DEF PosCacheOf
  <2>9. Right(d)
    BY <2>7, <2>8 DEF Right, Shape, LenIs
  <2>10. Found(d, pos, f)
    BY <2>7 DEF Found
  <2> QED BY <2>1, <2>7, <2>9, <2>10
<1>3. f.scanned \in BOOLEAN
  BY DEF Found
<1> QED BY <1>1, <1>2, <1>3

(* Every node has data of the string. *)
LEMMA NodesAtMost ==
  ASSUME NEW b, Shape(b), LenIs(b)
  PROVE  Len(b.nodes) <= b.len
<1>1. PICK L, ns : L = Len(b.nodes) /\ ns = b.nodes
  OBVIOUS
<1>2. /\ ns \in Seq(NodeRec) /\ L \in Nat /\ b.used \in Nat /\ b.len \in Nat /\ Filled(ns) /\ L = Len(ns)
      /\ \A i \in 0 .. L : Upto(ns, i) \in Nat
      /\ \A i \in 1 .. L : Upto(ns, i) = Upto(ns, i - 1) + NLen(ns[i]) /\ NLen(ns[i]) \in Nat
      /\ L > 0 => b.used < NLen(ns[1])
      /\ Upto(ns, 0) = 0
  BY <1>1, ShapeIs
<1>3. b.len = Upto(ns, L) - b.used
  BY <1>1 DEF LenIs
<1>4. CASE L = 0
  BY <1>1, <1>2, <1>4
<1>5. CASE L > 0
  <2>1. PICK o : o = 1
    OBVIOUS
  <2>2. o \in 0 .. L /\ L \in 0 .. L /\ o <= L /\ o \in 1 .. L /\ o - 1 = 0
    BY <1>2, <1>5, <2>1
  <2>3. Upto(ns, o) + (L - o) <= Upto(ns, L)
    BY ONLY <1>2, <2>2, UptoGrows
  <2>4. Upto(ns, o) = NLen(ns[o]) /\ NLen(ns[o]) \in Nat /\ b.used < NLen(ns[o]) /\ Upto(ns, L) \in Nat
    <3>1. Upto(ns, o) = Upto(ns, o - 1) + NLen(ns[o]) /\ NLen(ns[o]) \in Nat
      BY ONLY <1>2, <2>2
    <3>2. b.used < NLen(ns[o]) /\ Upto(ns, L) \in Nat
      BY <1>2, <1>5, <2>1, <2>2
    <3> QED BY ONLY <1>2, <2>2, <3>1, <3>2
  <2>5. PICK w, y : w = NLen(ns[o]) /\ y = Upto(ns, L)
    OBVIOUS
  <2>6. w + (L - 1) <= y /\ b.used < w /\ b.len = y - b.used /\ w \in Nat /\ y \in Nat
    BY ONLY <1>3, <2>1, <2>3, <2>4, <2>5
  <2>7. L <= b.len
    BY ONLY <1>2, <2>6
  <2> QED BY <1>1, <2>7
<1> QED BY <1>2, <1>4, <1>5

-----------------------------------------------------------------------------
(* Splitting a node *)

(* InsertAt() puts one node in. *)
LEMMA InsertIs ==
  ASSUME NEW s, NEW i \in Nat, NEW e
  PROVE  InsertAt(s, i + 1, e) = SubSeq(s, 1, i) \o <<e>> \o SubSeq(s, i + 1, Len(s))
<1>1. PICK j : j = i + 1
  OBVIOUS
<1>2. InsertAt(s, j, e) = SubSeq(s, 1, j - 1) \o <<e>> \o SubSeq(s, j, Len(s))
  BY DEF InsertAt
<1>3. j - 1 = i
  BY <1>1
<1> QED BY ONLY <1>1, <1>2, <1>3

(* Node i keeps p bytes, and node x after it has the rest. *)
IsSplit(ms, ns, i, p, x) ==
  /\ ms \in Seq(NodeRec) /\ Len(ms) = Len(ns) + 1
  /\ \A k \in 1 .. i : /\ ms[k].id = ns[k].id /\ ms[k].type = ns[k].type
                       /\ NLen(ms[k]) = IF k = i THEN p ELSE NLen(ns[k])
  /\ ms[i + 1] = x
  /\ \A k \in i + 1 .. Len(ns) : ms[k + 1].id = ns[k].id
  /\ \A k \in 0 .. i - 1 : Upto(ms, k) = Upto(ns, k)
  /\ \A k \in i .. Len(ns) : Upto(ms, k + 1) = Upto(ns, k)
  /\ \A t : CountType(ms, t) = CountType(ns, t) + (IF t = x.type THEN 1 ELSE 0)

LEMMA SplitListIs ==
  ASSUME NEW ns \in Seq(NodeRec), NEW i \in 1 .. Len(ns), NEW p \in Nat, NEW x \in NodeRec,
         NEW m1, NEW types, Altered(m1, ns, i, p), Good(ns, types), 0 < p, p < NLen(ns[i]),
         x.type = ns[i].type, NLen(x) = NLen(ns[i]) - p, \A k \in 1 .. Len(ns) : ns[k].id # x.id
  PROVE  /\ IsSplit(InsertAt(m1, i + 1, x), ns, i, p, x)
         /\ Good(InsertAt(m1, i + 1, x), types)
<1>1. PICK L, ms, xs : L = Len(ns) /\ ms = InsertAt(m1, i + 1, x) /\ xs = <<x>>
  OBVIOUS
<1>2. /\ m1 \in Seq(NodeRec) /\ Len(m1) = L /\ L \in Nat /\ i \in 1 .. L /\ i \in Nat
      /\ \A k \in 1 .. L : /\ m1[k].id = ns[k].id /\ m1[k].type = ns[k].type
                           /\ NLen(m1[k]) = IF k = i THEN p ELSE NLen(ns[k])
  BY <1>1, NodeIs DEF Altered
<1>3. /\ xs \in Seq(NodeRec) /\ Len(xs) = 1 /\ xs[1] = x /\ Upto(xs, 1) = NLen(x)
      /\ \A t : CountType(xs, t) = IF x.type = t THEN 1 ELSE 0
  BY <1>1, SingleIs
<1>4. IsSwap(ms, m1, i, i, xs)
  <2>1. i <= i /\ i <= Len(m1)
    BY <1>2
  <2>2. ms = SubSeq(m1, 1, i) \o xs \o SubSeq(m1, i + 1, Len(m1))
    BY ONLY <1>1, <1>2, InsertIs
  <2>3. IsSwap(SubSeq(m1, 1, i) \o xs \o SubSeq(m1, i + 1, Len(m1)), m1, i, i, xs)
    BY ONLY <1>2, <1>3, <2>1, SwapIs
  <2> QED BY ONLY <2>2, <2>3
<1>5. /\ ms \in Seq(NodeRec) /\ Len(ms) = L + 1 /\ \A k \in 1 .. i : ms[k] = m1[k]
      /\ ms[i + 1] = x /\ \A k \in 1 .. L - i : ms[i + 1 + k] = m1[i + k]
  <2>1. /\ ms \in Seq(NodeRec) /\ Len(ms) = i + Len(xs) + (Len(m1) - i)
        /\ \A k \in 1 .. i : ms[k] = m1[k]
        /\ \A k \in 1 .. Len(xs) : ms[i + k] = xs[k]
        /\ \A k \in 1 .. Len(m1) - i : ms[i + Len(xs) + k] = m1[i + k]
    BY ONLY <1>4 DEF IsSwap
  <2>2. 1 \in 1 .. Len(xs) /\ i + Len(xs) + (Len(m1) - i) = L + 1
    BY <1>2, <1>3
  <2>3. ms[i + 1] = x /\ Len(ms) = L + 1
    BY ONLY <1>3, <2>1, <2>2
  <2>4. \A k \in 1 .. L - i : ms[i + 1 + k] = m1[i + k]
    BY ONLY <1>2, <1>3, <2>1
  <2> QED BY ONLY <2>1, <2>3, <2>4
<1>6. \A k \in i + 1 .. L : ms[k + 1].id = ns[k].id
  <2> TAKE k \in i + 1 .. L
  <2>1. k - i \in 1 .. L - i /\ i + 1 + (k - i) = k + 1 /\ i + (k - i) = k /\ k \in 1 .. L
    BY ONLY <1>2, k \in i + 1 .. L
  <2>2. ms[k + 1] = m1[k]
    BY ONLY <1>5, <2>1
  <2> QED BY ONLY <1>2, <2>1, <2>2
<1>7. /\ \A k \in 0 .. i - 1 : Upto(m1, k) = Upto(ns, k)
      /\ \A k \in i .. L : Upto(m1, k) = Upto(ns, k) + (p - NLen(ns[i]))
  BY <1>1, AlteredUpto
<1>8. /\ \A k \in 0 .. i : Upto(ms, k) = Upto(m1, k)
      /\ \A k \in 0 .. Len(m1) - i :
           Upto(ms, i + Len(xs) + k)
             = Upto(m1, i) + Upto(xs, Len(xs)) + (Upto(m1, i + k) - Upto(m1, i))
  <2>1. SwapSums(ms, m1, i, i, xs)
    BY ONLY <1>4, SwapUpto
  <2> QED BY ONLY <2>1 DEF SwapSums
<1>9. \A k \in 0 .. i - 1 : Upto(ms, k) = Upto(ns, k)
  <2>1. \A k \in 0 .. i - 1 : k \in 0 .. i
    BY <1>2
  <2> QED BY ONLY <1>7, <1>8, <2>1
<1>10. \A k \in i .. L : Upto(ms, k + 1) = Upto(ns, k)
  <2> TAKE k \in i .. L
  <2>1. k - i \in 0 .. Len(m1) - i /\ i + (k - i) = k /\ i + Len(xs) + (k - i) = k + 1 /\ k \in 0 .. L
        /\ i \in 0 .. L /\ i \in i .. L
    BY ONLY <1>2, <1>3, k \in i .. L
  <2>2. Upto(ms, k + 1) = Upto(m1, i) + Upto(xs, Len(xs)) + (Upto(m1, k) - Upto(m1, i))
    BY ONLY <1>8, <2>1
  <2>3. Upto(xs, Len(xs)) = NLen(ns[i]) - p
    BY <1>3
  <2>4. Upto(m1, k) = Upto(ns, k) + (p - NLen(ns[i])) /\ Upto(m1, i) = Upto(ns, i) + (p - NLen(ns[i]))
    BY ONLY <1>7, <2>1, k \in i .. L
  <2>5. Upto(ns, k) \in Nat /\ Upto(ns, i) \in Nat /\ NLen(ns[i]) \in Nat
    BY <1>1, <2>1, UptoIs, NodeIs
  <2>6. PICK a, b, c : a = Upto(ns, k) /\ b = Upto(ns, i) /\ c = NLen(ns[i])
    OBVIOUS
  <2>7. Upto(ms, k + 1) = (b + (p - c)) + (c - p) + ((a + (p - c)) - (b + (p - c)))
        /\ a \in Nat /\ b \in Nat /\ c \in Nat
    BY ONLY <2>2, <2>3, <2>4, <2>5, <2>6
  <2>8. Upto(ms, k + 1) = a
    BY ONLY <2>7, p \in Nat
  <2> QED BY ONLY <2>6, <2>8
<1>11. \A t : CountType(ms, t) = CountType(ns, t) + (IF t = x.type THEN 1 ELSE 0)
  <2> TAKE t
  <2>1. CountType(m1, t) = CountType(ns, t) /\ CountType(ns, t) \in Nat
    BY AlteredCount, CountIs
  <2>2. CountType(ms, t) + CountType(SubSeq(m1, i + 1, i), t) = CountType(m1, t) + CountType(xs, t)
    <3>1. SwapCounts(ms, m1, i, i, xs, t)
      BY ONLY <1>4, SwapCount
    <3> QED BY ONLY <3>1 DEF SwapCounts
  <2>3. SubSeq(m1, i + 1, i) = <<>>
    BY <1>2
  <2>4. CountType(SubSeq(m1, i + 1, i), t) = 0
    BY ONLY <2>3, EmptyIs
  <2>5. CountType(ms, t) \in Nat
    BY <1>5, CountIs
  <2>6. CountType(xs, t) = IF t = x.type THEN 1 ELSE 0
    BY <1>3
  <2>7. PICK a, b, c : a = CountType(ms, t) /\ b = CountType(ns, t) /\ c = IF t = x.type THEN 1 ELSE 0
    OBVIOUS
  <2>8. a + 0 = b + c /\ a \in Nat
    BY ONLY <2>1, <2>2, <2>4, <2>5, <2>6, <2>7
  <2>9. a = b + c
    BY ONLY <2>8
  <2> QED BY ONLY <2>7, <2>9
<1>12. IsSplit(ms, ns, i, p, x)
  <2>1. \A k \in 1 .. i : /\ ms[k].id = ns[k].id /\ ms[k].type = ns[k].type
                          /\ NLen(ms[k]) = IF k = i THEN p ELSE NLen(ns[k])
    BY <1>2, <1>5
  <2> QED BY ONLY <1>1, <1>5, <1>6, <1>9, <1>10, <1>11, <2>1 DEF IsSplit
<1>13. Good(ms, types)
  <2>1. NLen(ns[i]) \in Nat /\ MaxOf(ns[i].type) \in Nat /\ NLen(ns[i]) <= MaxOf(ns[i].type)
        /\ ns[i].type \in types
    BY NodeIs, NodesAssumption DEF Good, MaxOf
  <2>2. Good(m1, types)
    BY <2>1, AlteredGood
  <2>3. Good(xs, types)
    <3>1. NLen(x) \in 1 .. MaxOf(x.type) /\ x.type \in types
      BY <2>1
    <3>2. \A k \in 1 .. Len(xs) : k = 1
      BY <1>3
    <3> QED BY ONLY <1>3, <3>1, <3>2 DEF Good
  <2>4. Apart(m1, i, i, xs)
    <3>1. \A k \in 1 .. Len(xs) : k = 1
      BY <1>3
    <3>2. \A k \in 1 .. Len(m1) : m1[k].id # x.id
      BY <1>1, <1>2
    <3> QED BY ONLY <1>3, <3>1, <3>2 DEF Apart
  <2>5. Good(ms, types \cup types)
    BY ONLY <1>4, <2>2, <2>3, <2>4, SwapGood
  <2>6. types \cup types = types
    OBVIOUS
  <2> QED BY ONLY <2>5, <2>6
<1> QED BY <1>1, <1>12, <1>13

(* A call that gives r: the string is as it should be, and every node is   *)
(* accounted for.                                                          *)
Sound(r) == r.ok \in BOOLEAN /\ Right(r.b) /\ Fits(r.b.nodes, r.c)

(* vstr__base_split_node(): node i keeps p bytes, or nothing has changed. *)
SplitDone(b, i, p, r) ==
  /\ Sound(r) /\ r.b.len = b.len /\ r.b.used = b.used
  /\ r.ok => /\ i \in 1 .. Len(r.b.nodes) /\ NLen(r.b.nodes[i]) = p
             /\ Upto(r.b.nodes, i - 1) = Upto(b.nodes, i - 1)
  /\ ~r.ok => r.b = b

(* Where a string may be split. *)
MaySplit(b, i, p) ==
  /\ b.len <= MaxLen
  /\ i \in 1 .. Len(b.nodes) /\ p \in Nat /\ 0 < p /\ p < NLen(b.nodes[i])
  /\ i = 1 => b.used < p

(* The lists of a string that was split. *)
LEMMA SplitShape ==
  ASSUME NEW b, Right(b), NEW i, NEW p, MaySplit(b, i, p), NEW d, NEW x,
         IsSplit(d.nodes, b.nodes, i, p, x), Good(d.nodes, b.types), IsBase(d),
         d.used = b.used, d.types = b.types, d.num = b.num + 1, d.len = b.len, d.pc = b.pc,
         d.end = IF b.end = b.nodes[i].id THEN x.id ELSE b.end
  PROVE  Right(d)
<1>1. PICK L, ns, ms : L = Len(b.nodes) /\ ns = b.nodes /\ ms = d.nodes
  OBVIOUS
<1>2. /\ L \in Nat /\ i \in 1 .. L /\ i \in Nat /\ b.used \in Nat /\ b.len \in Nat /\ b.num = L
      /\ L > 0 => b.used < NLen(ns[1])
      /\ \A k \in 0 .. L : Upto(ns, k) \in Nat
  BY <1>1, ShapeIs DEF Right, MaySplit
<1>3. /\ ms \in Seq(NodeRec) /\ Len(ms) = L + 1 /\ ms[i + 1] = x
      /\ \A k \in 1 .. i : /\ ms[k].id = ns[k].id /\ ms[k].type = ns[k].type
                           /\ NLen(ms[k]) = IF k = i THEN p ELSE NLen(ns[k])
      /\ \A k \in i + 1 .. L : ms[k + 1].id = ns[k].id
      /\ \A k \in 0 .. i - 1 : Upto(ms, k) = Upto(ns, k)
      /\ \A k \in i .. L : Upto(ms, k + 1) = Upto(ns, k)
  BY ONLY <1>1, IsSplit(d.nodes, b.nodes, i, p, x) DEF IsSplit
<1>4. d.end = EndOf(ms)
  <2>1. b.end = ns[L].id /\ ms # <<>> /\ EndOf(ms) = ms[L + 1].id
    <3>1. ns # <<>> /\ ms # <<>>
      BY <1>1, <1>2, <1>3
    <3>2. b.end = EndOf(ns)
      BY <1>1 DEF Right, Shape
    <3> QED BY ONLY <1>1, <1>3, <3>1, <3>2 DEF EndOf
  <2>2. CASE i = L
    BY <1>1, <1>3, <2>1, <2>2
  <2>3. CASE i # L
    <3>1. L \in i + 1 .. L /\ L \in 1 .. L
      BY <1>2, <2>3
    <3>2. ns[L].id # ns[i].id
      BY <1>1, <1>2, <2>3, <3>1 DEF Right, Shape, Good
    <3>3. ms[L + 1].id = ns[L].id
      BY <1>3, <3>1
    <3> QED BY <1>1, <2>1, <3>2, <3>3
  <2> QED BY <2>2, <2>3
<1>5. UsedIn(ms, b.used)
  <2>1. 1 \in 1 .. i /\ ms # <<>> /\ L > 0
    BY <1>2, <1>3
  <2>2. ms[1].type = ns[1].type /\ b.used < NLen(ms[1])
    <3>1. ms[1].type = ns[1].type /\ NLen(ms[1]) = IF 1 = i THEN p ELSE NLen(ns[1])
      BY ONLY <1>3, <2>1
    <3>2. i = 1 => b.used < p
      BY DEF MaySplit
    <3> QED BY ONLY <1>2, <2>1, <3>1, <3>2
  <2>3. UsedIn(ns, b.used)
    BY <1>1 DEF Right, Shape
  <2> QED BY ONLY <2>1, <2>2, <2>3 DEF UsedIn
<1>6. Shape(d)
  <2>1. d.num = Len(ms)
    BY <1>2, <1>3
  <2> QED BY <1>1, <1>4, <1>5, <2>1 DEF Shape
<1>7. LenIs(d)
  <2>1. L \in i .. L
    BY <1>2
  <2>2. Upto(ms, L + 1) = Upto(ns, L)
    BY ONLY <1>3, <2>1
  <2>3. b.len = Upto(ns, L) - b.used
    BY <1>1 DEF Right, LenIs
  <2> QED BY <1>1, <1>3, <2>2, <2>3 DEF LenIs
<1>8. PosCacheOf(d)
  <2> SUFFICES ASSUME b.pc.node # 0
               PROVE  \E k \in 2 .. L + 1 : /\ ms[k].id = b.pc.node
                                            /\ b.pc.pos = Upto(ms, k - 1) - b.used + 1
    BY <1>1, <1>3 DEF PosCacheOf
  <2>1. PICK k \in 2 .. L : ns[k].id = b.pc.node /\ b.pc.pos = Upto(ns, k - 1) - b.used + 1
    BY <1>1 DEF Right, PosCacheOf
  <2>2. CASE k <= i
    <3>1. k \in 1 .. i /\ k - 1 \in 0 .. i - 1 /\ k \in 2 .. L + 1
      BY <1>2, <2>1, <2>2
    <3>2. ms[k].id = ns[k].id /\ Upto(ms, k - 1) = Upto(ns, k - 1)
      BY ONLY <1>3, <3>1
    <3> QED BY <2>1, <3>1, <3>2
  <2>3. CASE k > i
    <3>1. k \in i + 1 .. L /\ k - 1 \in i .. L /\ k + 1 \in 2 .. L + 1 /\ (k + 1) - 1 = (k - 1) + 1
      BY <1>2, <2>1, <2>3
    <3>2. ms[k + 1].id = ns[k].id /\ Upto(ms, (k - 1) + 1) = Upto(ns, k - 1)
      BY ONLY <1>3, <3>1
    <3>3. ms[k + 1].id = b.pc.node /\ b.pc.pos = Upto(ms, (k + 1) - 1) - b.used + 1
      BY ONLY <2>1, <3>1, <3>2
    <3> QED BY <3>1, <3>3
  <2> QED BY <1>2, <2>1, <2>2, <2>3
<1> QED BY <1>6, <1>7, <1>8 DEF Right

(* And the spare nodes. *)
LEMMA SplitNodeIs ==
  ASSUME NEW b, NEW c, Right(b), Fits(b.nodes, c), NEW i, NEW p, MaySplit(b, i, p)
  PROVE  SplitDone(b, i, p, SplitNode(b, c, i, p))
<1>1. PICK n, e, t : n = b.nodes[i] /\ e = Ensure(c, b.nodes[i].type, 1) /\ t = b.nodes[i].type
  OBVIOUS
<1>2. /\ b.nodes \in Seq(NodeRec) /\ Len(b.nodes) \in Nat /\ i \in 1 .. Len(b.nodes) /\ p \in Nat
      /\ NLen(n) \in Nat /\ n.data \in Seq(Byte) /\ 0 < p /\ p < NLen(n) /\ t \in NodeTypes
      /\ b.len <= MaxLen /\ IsBase(b) /\ b.end \in Nat /\ b.num \in Nat /\ i \in Nat
      /\ Good(b.nodes, b.types)
  <2>1. b.nodes \in Seq(NodeRec) /\ Len(b.nodes) \in Nat /\ IsBase(b) /\ b.end \in Nat /\ b.num \in Nat
        /\ Good(b.nodes, b.types)
    BY ShapeIs, BaseIs DEF Right, Shape
  <2>2. i \in 1 .. Len(b.nodes) /\ p \in Nat /\ 0 < p /\ p < NLen(n) /\ b.len <= MaxLen
    BY <1>1 DEF MaySplit
  <2>3. NLen(n) \in Nat /\ n.data \in Seq(Byte) /\ t \in NodeTypes
    BY ONLY <1>1, <2>1, <2>2, NodeIs
  <2>4. i \in Nat
    BY <2>1, <2>2
  <2> QED BY ONLY <2>1, <2>2, <2>3, <2>4
<1>3. Fits(b.nodes, e.c) /\ e.ok \in BOOLEAN /\ (e.ok => e.c.spare[t] >= 1)
  <2>1. PICK o \in Nat : o = 1
    OBVIOUS
  <2>2. /\ Fits(b.nodes, Ensure(c, t, o).c) /\ Ensure(c, t, o).ok \in BOOLEAN
        /\ Ensure(c, t, o).ok => Ensure(c, t, o).c.spare[t] >= o
    BY <1>2, EnsureIs
  <2> QED BY <1>1, <2>1, <2>2
<1> DEFINE x == [id |-> FreshId(b, 1), type |-> n.type, data |-> SubSeq(n.data, p + 1, NLen(n))]
           m1 == [b.nodes EXCEPT ![i].data = SubSeq(@, 1, p)]
           ms == InsertAt(m1, i + 1, x)
           s == IovecStale(b)
           d == [s EXCEPT !.nodes = ms, !.num = @ + 1, !.end = IF @ = n.id THEN x.id ELSE @]
<1>4. SplitNode(b, c, i, p) = IF e.ok THEN [b |-> d, c |-> Take(e.c, n.type, 1), ok |-> TRUE]
                                      ELSE [b |-> b, c |-> e.c, ok |-> FALSE]
  BY <1>1 DEF SplitNode
<1>5. CASE ~e.ok
  <2> DEFINE r == SplitNode(b, c, i, p)
  <2>1. r.b = b /\ r.c = e.c /\ r.ok = FALSE
    BY <1>4, <1>5
  <2> HIDE DEF r
  <2>2. SplitDone(b, i, p, r)
    BY <1>3, <2>1 DEF SplitDone, Sound
  <2> QED BY <2>2 DEF r
<1>6. CASE e.ok
  <2>1. /\ x \in NodeRec /\ x.type = t /\ NLen(x) = NLen(n) - p
        /\ \A k \in 1 .. Len(b.nodes) : b.nodes[k].id # x.id
    <3>1. PICK o \in Nat : o = 1
      OBVIOUS
    <3>2. Len(b.nodes) <= b.len /\ b.len \in Nat /\ MaxLen \in Nat /\ MaxLen > 0
      BY NodesAtMost, ShapeIs, NodesAssumption DEF Right
    <3>3. 1 <= o /\ Len(b.nodes) + o <= 2 * MaxLen
      BY ONLY <1>2, <3>1, <3>2
    <3>4. Fresh(b, o, FreshId(b, o))
      BY ONLY <1>2, <3>3, o \in Nat, FreshIs
    <3>5. FreshId(b, o) \in Ids /\ \A k \in 1 .. Len(b.nodes) : b.nodes[k].id # FreshId(b, o)
      BY ONLY <3>4, FreshNew
    <3>6. PICK l : l = NLen(n)
      OBVIOUS
    <3>7. l \in Nat /\ p <= l /\ l <= Len(n.data)
      BY <1>2, <3>6 DEF NLen
    <3>8. SubSeq(n.data, p + 1, l) \in Seq(Byte) /\ Len(SubSeq(n.data, p + 1, l)) = l - p
      BY ONLY <1>2, <3>7, PartIs
    <3>9. x.id = FreshId(b, o) /\ x.type = t /\ x.data = SubSeq(n.data, p + 1, l)
      BY <1>1, <3>1, <3>6
    <3>10. x \in NodeRec
      BY <1>1, <1>2, <3>5, <3>8, <3>1, <3>6 DEF NodeRec
    <3> HIDE DEF x
    <3> QED BY <3>5, <3>6, <3>8, <3>9, <3>10 DEF NLen
  <2>2. Altered(m1, b.nodes, i, p)
    <3> DEFINE y == SubSeq(n.data, 1, p)
    <3>1. p <= Len(n.data) /\ 1 \in Nat /\ 1 <= 1 /\ 1 <= p + 1 /\ p - 1 + 1 = p
      BY <1>2 DEF NLen
    <3>2. y \in Seq(Byte) /\ Len(y) = p
      BY ONLY <1>2, <3>1, SubSeqIs
    <3>3. m1 = [b.nodes EXCEPT ![i].data = y]
      BY <1>1
    <3> HIDE DEF y
    <3>4. Altered([b.nodes EXCEPT ![i].data = y], b.nodes, i, Len(y))
      BY ONLY <1>2, <3>2, AlteredIs
    <3> QED BY ONLY <3>2, <3>3, <3>4
  <2> HIDE DEF m1, x
  <2>3. IsSplit(ms, b.nodes, i, p, x) /\ Good(ms, b.types)
    BY ONLY <1>1, <1>2, <2>1, <2>2, SplitListIs
  <2> HIDE DEF ms
  <2>4. Same(b, s)
    BY <1>2, IovecEntriesSame
  <2> HIDE DEF s
  <2>5. ms \in Seq(NodeRec) /\ x.id \in Nat
    <3>1. ms \in Seq(NodeRec)
      BY <2>3 DEF IsSplit
    <3>2. x.id \in Ids
      BY <2>1 DEF NodeRec
    <3> QED BY <3>1, <3>2, NodesAssumption DEF Ids
  <2>6. /\ IsBase(d) /\ d.nodes = ms /\ d.used = b.used /\ d.types = b.types /\ d.num = b.num + 1
        /\ d.len = b.len /\ d.pc = b.pc /\ d.end = IF b.end = n.id THEN x.id ELSE b.end
    <3>1. IsBase(s) /\ s.used = b.used /\ s.types = b.types /\ s.num = b.num /\ s.len = b.len
          /\ s.pc = b.pc /\ s.end = b.end
      BY <2>4 DEF Same
    <3>2. (IF s.end = n.id THEN x.id ELSE s.end) \in Nat /\ s.num + 1 \in Nat
      BY <1>2, <2>5, <3>1
    <3>3. IsBase(d)
      BY <2>5, <3>1, <3>2 DEF IsBase, BaseRec
    <3>4. /\ d.nodes = ms /\ d.used = s.used /\ d.types = s.types /\ d.num = s.num + 1
          /\ d.len = s.len /\ d.pc = s.pc /\ d.end = IF s.end = n.id THEN x.id ELSE s.end
      BY <3>1 DEF IsBase, BaseRec
    <3> QED BY <3>1, <3>3, <3>4
  <2> HIDE DEF d
  <2>7. Right(d)
    BY <1>1, <2>3, <2>6, SplitShape
  <2>8. Fits(ms, Take(e.c, t, 1))
    <3>1. PICK o \in Nat : o = 1
      OBVIOUS
    <3>2. \A u \in NodeTypes : CountType(ms, u) = CountType(b.nodes, u) + (IF u = t THEN o ELSE 0)
      BY <2>1, <2>3, <3>1 DEF IsSplit
    <3>3. Fits(ms, Take(e.c, t, o))
      BY <1>2, <1>3, <1>6, <2>5, <3>1, <3>2, TakeIs
    <3> QED BY <3>1, <3>3
  <2> DEFINE r == SplitNode(b, c, i, p)
  <2>9. r.b = d /\ r.c = Take(e.c, t, 1) /\ r.ok = TRUE
    BY <1>1, <1>4, <1>6
  <2> HIDE DEF r
  <2>10. i \in 1 .. Len(ms) /\ NLen(ms[i]) = p /\ Upto(ms, i - 1) = Upto(b.nodes, i - 1)
    <3>1. i \in 1 .. i /\ i - 1 \in 0 .. i - 1 /\ i \in 1 .. Len(b.nodes) + 1
      BY ONLY <1>2
    <3> QED BY <2>3, <3>1 DEF IsSplit
  <2>11. SplitDone(b, i, p, r)
    BY <2>6, <2>7, <2>8, <2>9, <2>10 DEF SplitDone, Sound
  <2> QED BY <2>11 DEF r
<1> QED BY <1>3, <1>5, <1>6

(* vstr__add_setup_pos(): the node that has the position ends there. *)
SetupDone(b, pos, f, r) ==
  /\ Sound(r) /\ r.b.len = b.len /\ r.b.used = b.used
  /\ r.ok => Found(r.b, pos, f) /\ f.p = NLen(r.b.nodes[f.i])

LEMMA SetupPosIs ==
  ASSUME NEW b, NEW c, Right(b), Fits(b.nodes, c), b.len <= MaxLen, NEW pos \in 1 .. b.len,
         NEW f, Found(b, pos, f)
  PROVE  SetupDone(b, pos, f, SetupPos(b, c, pos, f))
<1>1. PICK d : d = CachePos(b, pos, f)
  OBVIOUS
<1>2. b.len \in Nat /\ pos \in Nat /\ b.used \in Nat /\ 0 < pos
  BY ShapeIs DEF Right
<1>3. Right(d) /\ Found(d, pos, f) /\ d.nodes = b.nodes /\ d.used = b.used /\ d.len = b.len
  BY <1>1, <1>2, CachePosIs
<1>4. CASE f.p = NLen(b.nodes[f.i])
  <2> DEFINE r == SetupPos(b, c, pos, f)
  <2>1. r.b = d /\ r.c = c /\ r.ok = TRUE
    BY <1>1, <1>4 DEF SetupPos
  <2> HIDE DEF r
  <2>2. SetupDone(b, pos, f, r)
    BY <1>3, <1>4, <2>1 DEF SetupDone, Sound
  <2> QED BY <2>2 DEF r
<1>5. CASE f.p # NLen(b.nodes[f.i])
  <2>1. PICK r : r = SetupPos(b, c, pos, f)
    OBVIOUS
  <2>2. r = SplitNode(d, c, f.i, f.p)
    BY <1>1, <1>5, <2>1 DEF SetupPos
  <2>3. /\ f.i \in 1 .. Len(d.nodes) /\ f.p \in 1 .. NLen(d.nodes[f.i])
        /\ Upto(d.nodes, f.i - 1) + f.p = pos + d.used /\ f.num \in Int
        /\ f.scanned \in BOOLEAN /\ (f.scanned => f.i >= 2)
    BY ONLY <1>3 DEF Found
  <2>4. /\ Len(d.nodes) \in Nat /\ NLen(d.nodes[f.i]) \in Nat /\ Upto(d.nodes, 0) = 0
    BY <1>3, <2>3, ShapeIs DEF Right
  <2>5. MaySplit(d, f.i, f.p)
    <3>1. f.p \in Nat /\ 0 < f.p /\ f.p < NLen(d.nodes[f.i])
      BY <1>3, <1>5, <2>3, <2>4
    <3>2. f.i = 1 => d.used < f.p
      <4> HAVE f.i = 1
      <4>1. f.i - 1 = 0
        OBVIOUS
      <4>2. 0 + f.p = pos + d.used
        BY ONLY <2>3, <2>4, <4>1
      <4> QED BY ONLY <1>2, <1>3, <3>1, <4>2
    <3> QED BY <1>3, <2>3, <3>1, <3>2 DEF MaySplit
  <2>6. SplitDone(d, f.i, f.p, r)
    BY ONLY <1>3, <2>2, <2>5, Fits(b.nodes, c), SplitNodeIs
  <2>7. r.ok => Found(r.b, pos, f) /\ f.p = NLen(r.b.nodes[f.i])
    <3> HAVE r.ok
    <3>1. /\ f.i \in 1 .. Len(r.b.nodes) /\ NLen(r.b.nodes[f.i]) = f.p
          /\ Upto(r.b.nodes, f.i - 1) = Upto(d.nodes, f.i - 1) /\ r.b.used = d.used
      BY <2>6 DEF SplitDone
    <3>2. f.p \in 1 .. f.p
      BY <2>3, <2>4
    <3> QED BY ONLY <2>3, <3>1, <3>2 DEF Found
  <2> QED BY <1>3, <2>1, <2>6, <2>7 DEF SetupDone, SplitDone
<1> QED BY <1>4, <1>5

-----------------------------------------------------------------------------
(* The position cache while a string is changed *)

(* It is right as far as the position pos. *)
PosUpto(b, pos) ==
  b.pc.node # 0 /\ b.pc.pos <= pos =>
    \E i \in 2 .. Len(b.nodes) :
      b.nodes[i].id = b.pc.node /\ b.pc.pos = Upto(b.nodes, i - 1) - b.used + 1

(* A string of which it is forgotten, ... *)
LEMMA PosReset ==
  ASSUME NEW b, Shape(b), LenIs(b)
  PROVE  /\ Right([b EXCEPT !.pc = NoPos]) /\ [b EXCEPT !.pc = NoPos].nodes = b.nodes
         /\ [b EXCEPT !.pc = NoPos].len = b.len /\ [b EXCEPT !.pc = NoPos].used = b.used
<1> DEFINE d == [b EXCEPT !.pc = NoPos]
<1>1. IsBase(b)
  BY DEF Shape
<1>2. NoPos \in PosRec /\ NoPos.node = 0
  BY DEF NoPos, PosRec
<1>3. /\ IsBase(d) /\ d.nodes = b.nodes /\ d.used = b.used /\ d.len = b.len /\ d.num = b.num
      /\ d.end = b.end /\ d.types = b.types /\ d.pc = NoPos
  BY <1>1, <1>2 DEF IsBase, BaseRec
<1> HIDE DEF d
<1>4. PosCacheOf(d)
  BY <1>2, <1>3 DEF PosCacheOf
<1>5. Right(d)
  BY <1>3, <1>4 DEF Right, Shape, LenIs
<1> QED BY <1>3, <1>5 DEF d

(* What vstr__cache_pos_cb() leaves of it. *)
CacheDone(b, d) == Right(d) /\ d.nodes = b.nodes /\ d.len = b.len /\ d.used = b.used

(* An addition leaves what is before its position. *)
LEMMA CacheAddIs ==
  ASSUME NEW b, NEW pos \in Nat, Shape(b), LenIs(b), PosUpto(b, pos)
  PROVE  CacheDone(b, CacheAdd(b, pos))
<1>1. b.pc.pos \in Int
  BY BaseIs DEF Shape, PosRec
<1>2. CASE pos >= b.pc.pos
  <2>1. CacheAdd(b, pos) = b
    BY <1>2 DEF CacheAdd
  <2>2. PosCacheOf(b)
    BY <1>1, <1>2 DEF PosUpto, PosCacheOf
  <2> QED BY <2>1, <2>2 DEF Right, CacheDone
<1>3. CASE ~(pos >= b.pc.pos)
  BY <1>3, PosReset DEF CacheAdd, CacheDone
<1> QED BY <1>2, <1>3

(* So does a deletion. *)
LEMMA CacheDelIs ==
  ASSUME NEW b, NEW pos \in Nat, Shape(b), LenIs(b), PosUpto(b, pos - 1)
  PROVE  CacheDone(b, CacheDel(b, pos))
<1>1. b.pc.pos \in Int
  BY BaseIs DEF Shape, PosRec
<1>2. CASE pos > b.pc.pos
  <2>1. CacheDel(b, pos) = b
    BY <1>2 DEF CacheDel
  <2>2. b.pc.pos <= pos - 1
    BY <1>1, <1>2
  <2>3. PosCacheOf(b)
    BY <2>2 DEF PosUpto, PosCacheOf
  <2> QED BY <2>1, <2>3 DEF Right, CacheDone
<1>3. CASE ~(pos > b.pc.pos)
  BY <1>3, PosReset DEF CacheDel, CacheDone
<1> QED BY <1>2, <1>3

(* It begins right. *)
LEMMA PosStart ==
  ASSUME NEW b, Right(b), NEW pos
  PROVE  PosUpto(b, pos)
BY DEF Right, PosCacheOf, PosUpto

-----------------------------------------------------------------------------
(* Changing the length of a node *)

(* The length a string should have. *)
LenAs(b) == Upto(b.nodes, Len(b.nodes)) - b.used

(* The first i nodes have their places. *)
FrontKept(ms, ns, i) ==
  /\ i \in 0 .. Len(ns) /\ i <= Len(ms)
  /\ \A k \in 1 .. i : ms[k].id = ns[k].id /\ Upto(ms, k - 1) = Upto(ns, k - 1)

(* z is b with node i of len bytes, ... *)
AlterLike(z, b, i, len) ==
  /\ Shape(b) /\ IsBase(z) /\ Altered(z.nodes, b.nodes, i, len)
  /\ z.used = b.used /\ z.types = b.types /\ z.num = b.num /\ z.end = b.end /\ z.pc = b.pc
  /\ 0 < len /\ len <= MaxOf(b.nodes[i].type) /\ (i = 1 => b.used < len)

(* ... and still a string. *)
AlterDone(z, b, i, len) ==
  /\ Shape(z) /\ LenAs(z) = LenAs(b) + (len - NLen(b.nodes[i])) /\ FrontKept(z.nodes, b.nodes, i)
  /\ \A k \in 0 .. i - 1 : Upto(z.nodes, k) = Upto(b.nodes, k)
  /\ Upto(z.nodes, i) = Upto(b.nodes, i - 1) + len
  /\ \A t : CountType(z.nodes, t) = CountType(b.nodes, t)

LEMMA AlterLikeIs ==
  ASSUME NEW b, NEW z, NEW i, NEW len, AlterLike(z, b, i, len)
  PROVE  AlterDone(z, b, i, len)
<1>1. PICK L, ns, ms : L = Len(b.nodes) /\ ns = b.nodes /\ ms = z.nodes
  OBVIOUS
<1>2. ns \in Seq(NodeRec) /\ L = Len(ns) /\ L \in Nat /\ b.used \in Nat /\ b.num = L
  BY <1>1, BaseIs, NodeIs DEF AlterLike, Shape
<1>a. \A k \in 0 .. L : Upto(ns, k) \in Nat
  BY <1>2, UptoIs
<1>b. \A k \in 1 .. L : NLen(ns[k]) \in Nat /\ Upto(ns, k) = Upto(ns, k - 1) + NLen(ns[k])
  BY <1>2, UptoIs, NodeIs
<1>3. /\ Altered(ms, ns, i, len) /\ z.used = b.used /\ z.types = b.types /\ z.num = b.num /\ z.end = b.end
      /\ 0 < len /\ len <= MaxOf(ns[i].type) /\ (i = 1 => b.used < len)
  BY <1>1 DEF AlterLike
<1>4. /\ ms \in Seq(NodeRec) /\ i \in 1 .. L /\ len \in Nat /\ Len(ms) = L
      /\ \A k \in 1 .. L : /\ ms[k].id = ns[k].id /\ ms[k].type = ns[k].type
                           /\ NLen(ms[k]) = IF k = i THEN len ELSE NLen(ns[k])
  BY ONLY <1>1, <1>3 DEF Altered
<1>5. Good(ms, z.types)
  <2>1. Good(ns, b.types)
    BY <1>1 DEF AlterLike, Shape
  <2>2. Good(ms, b.types)
    BY ONLY <1>3, <2>1, AlteredGood
  <2> QED BY <1>3, <2>2
<1>6. z.end = EndOf(ms)
  <2>1. L \in 1 .. L /\ ms # <<>> /\ ns # <<>>
    BY <1>1, <1>2, <1>4
  <2>2. ms[L].id = ns[L].id
    BY <1>4, <2>1
  <2>3. b.end = EndOf(ns)
    BY <1>1 DEF AlterLike, Shape
  <2> QED BY ONLY <1>1, <1>3, <1>4, <2>1, <2>2, <2>3 DEF EndOf
<1>7. UsedIn(ms, b.used)
  <2> SUFFICES ASSUME b.used > 0
               PROVE  ms # <<>> /\ ms[1].type = "BUF" /\ b.used < NLen(ms[1])
    BY DEF UsedIn
  <2>1. 1 \in 1 .. L /\ ms # <<>> /\ L > 0
    BY <1>2, <1>4
  <2>2. ms[1].type = ns[1].type /\ NLen(ms[1]) = IF 1 = i THEN len ELSE NLen(ns[1])
    BY ONLY <1>4, <2>1
  <2>3. ns[1].type = "BUF" /\ b.used < NLen(ns[1])
    BY <1>1 DEF AlterLike, Shape, UsedIn
  <2>4. b.used < NLen(ms[1])
    BY ONLY <1>2, <1>3, <2>2, <2>3
  <2> QED BY ONLY <2>1, <2>2, <2>3, <2>4
<1>8. Shape(z)
  BY <1>1, <1>2, <1>3, <1>4, <1>5, <1>6, <1>7 DEF Shape, AlterLike
<1>9. /\ \A k \in 0 .. i - 1 : Upto(ms, k) = Upto(ns, k)
      /\ \A k \in i .. Len(ns) : Upto(ms, k) = Upto(ns, k) + (len - NLen(ns[i]))
  BY ONLY <1>3, AlteredUpto
<1>10. LenAs(z) = LenAs(b) + (len - NLen(ns[i])) /\ Upto(ms, i) = Upto(ns, i - 1) + len
  <2>1. L \in i .. L /\ L \in 0 .. L /\ i \in i .. L /\ i - 1 \in 0 .. L
    BY ONLY <1>2, <1>4
  <2>3. /\ Upto(ms, L) = Upto(ns, L) + (len - NLen(ns[i]))
        /\ Upto(ms, i) = Upto(ns, i) + (len - NLen(ns[i]))
        /\ Upto(ns, i) = Upto(ns, i - 1) + NLen(ns[i])
    BY ONLY <1>2, <1>4, <1>9, <1>b, <2>1
  <2>4. PICK x, y, v : x = Upto(ns, L) /\ y = NLen(ns[i]) /\ v = Upto(ns, i - 1)
    OBVIOUS
  <2>5. x \in Nat /\ y \in Nat /\ v \in Nat /\ len \in Nat /\ b.used \in Nat
    BY ONLY <1>2, <1>4, <1>a, <1>b, <2>1, <2>4
  <2>6. /\ LenAs(z) = (x + (len - y)) - b.used /\ LenAs(b) = x - b.used
        /\ Upto(ms, i) = (v + y) + (len - y)
    BY ONLY <1>1, <1>3, <1>4, <2>3, <2>4 DEF LenAs
  <2>7. LenAs(z) = LenAs(b) + (len - y) /\ Upto(ms, i) = v + len
    BY ONLY <2>5, <2>6
  <2> QED BY ONLY <2>4, <2>7
<1>11. FrontKept(ms, ns, i)
  <2>1. i \in 0 .. L /\ i <= L /\ \A k \in 1 .. i : k \in 1 .. L /\ k - 1 \in 0 .. i - 1
    BY ONLY <1>2, <1>4
  <2> QED BY ONLY <1>2, <1>4, <1>9, <2>1 DEF FrontKept
<1>12. \A t : CountType(ms, t) = CountType(ns, t)
  BY ONLY <1>3, AlteredCount
<1> QED BY ONLY <1>1, <1>8, <1>9, <1>10, <1>11, <1>12 DEF AlterDone

(* d is b with node i of len bytes, and the length that goes with it. *)
AlterBase(d, b, i, len) ==
  LenIs(b) /\ AlterLike(d, b, i, len) /\ d.len = b.len + (len - NLen(b.nodes[i]))

LEMMA AlterShape ==
  ASSUME NEW b, NEW d, NEW i, NEW len, AlterBase(d, b, i, len)
  PROVE  Shape(d) /\ LenIs(d)
<1>1. AlterLike(d, b, i, len) /\ LenIs(b) /\ d.len = b.len + (len - NLen(b.nodes[i]))
  BY DEF AlterBase, AlterLike
<1>2. AlterDone(d, b, i, len)
  BY ONLY <1>1, AlterLikeIs
<1> QED BY ONLY <1>1, <1>2 DEF AlterDone, LenAs, LenIs

(* A node gets other data, and the string its length. *)
LEMMA AlterIs ==
  ASSUME NEW b, NEW e, Shape(b), LenIs(b), Same(b, e), NEW i \in 1 .. Len(b.nodes),
         NEW x \in Seq(Byte), 0 < Len(x), Len(x) <= MaxOf(b.nodes[i].type), i = 1 => b.used < Len(x),
         NEW m \in Nat, m = b.len + (Len(x) - NLen(b.nodes[i]))
  PROVE  AlterBase([e EXCEPT !.nodes[i].data = x, !.len = m], b, i, Len(x))
<1> DEFINE ms == [b.nodes EXCEPT ![i].data = x]
           d == [e EXCEPT !.nodes = ms, !.len = m]
<1>1. IsBase(e) /\ e.nodes = b.nodes /\ b.nodes \in Seq(NodeRec)
  BY BaseIs DEF Same, Shape
<1>2. [e EXCEPT !.nodes[i].data = x, !.len = m] = d
  BY <1>1
<1>3. Altered(ms, b.nodes, i, Len(x))
  BY <1>1, AlteredIs
<1> HIDE DEF ms
<1>4. ms \in Seq(NodeRec)
  BY ONLY <1>3 DEF Altered
<1>5. /\ IsBase(d) /\ d.nodes = ms /\ d.used = e.used /\ d.len = m /\ d.num = e.num
      /\ d.end = e.end /\ d.types = e.types /\ d.pc = e.pc
  BY <1>1, <1>4 DEF IsBase, BaseRec
<1> HIDE DEF d
<1>6. AlterBase(d, b, i, Len(x))
  BY <1>3, <1>5 DEF AlterBase, AlterLike, Same
<1> QED BY ONLY <1>2, <1>6

(* The position cache of a string whose first i nodes begin where they did *)
(* stays right up to the end of them, ...                                  *)
LEMMA PosKept ==
  ASSUME NEW b, NEW d, NEW i, Shape(b), LenIs(b), NEW pos \in Nat, PosUpto(b, pos),
         IsBase(d), d.used = b.used, d.pc = b.pc, FrontKept(d.nodes, b.nodes, i),
         pos + b.used <= Upto(b.nodes, i)
  PROVE  PosUpto(d, pos)
<1>1. PICK L, ns, ms, M : L = Len(b.nodes) /\ ns = b.nodes /\ ms = d.nodes /\ M = Len(d.nodes)
  OBVIOUS
<1>2. /\ L \in Nat /\ b.used \in Nat /\ \A k \in 0 .. L : Upto(ns, k) \in Nat
      /\ ns \in Seq(NodeRec) /\ Filled(ns) /\ L = Len(ns)
  BY <1>1, ShapeIs
<1>3. M \in Nat
  BY <1>1, BaseIs, NodeIs
<1>4. /\ i \in 0 .. L /\ i <= M
      /\ \A k \in 1 .. i : ms[k].id = ns[k].id /\ Upto(ms, k - 1) = Upto(ns, k - 1)
  BY <1>1 DEF FrontKept
<1> SUFFICES ASSUME b.pc.node # 0, b.pc.pos <= pos
             PROVE  \E k \in 2 .. M : ms[k].id = b.pc.node /\ b.pc.pos = Upto(ms, k - 1) - b.used + 1
  BY <1>1 DEF PosUpto
<1>6. PICK k \in 2 .. L : ns[k].id = b.pc.node /\ b.pc.pos = Upto(ns, k - 1) - b.used + 1
  BY <1>1 DEF PosUpto
<1>7. k - 1 \in 0 .. L /\ i \in 0 .. L /\ k \in 1 .. L
  BY <1>2, <1>4, <1>6
<1>8. Upto(ns, k - 1) \in Nat /\ Upto(ns, i) \in Nat
  BY <1>2, <1>7
<1>9. Upto(ns, k - 1) < Upto(ns, i)
  <2>1. PICK x, y : x = Upto(ns, k - 1) /\ y = Upto(ns, i)
    OBVIOUS
  <2>2. x \in Nat /\ y \in Nat /\ x - b.used + 1 <= pos /\ pos + b.used <= y /\ b.used \in Nat
    BY <1>1, <1>2, <1>6, <1>8, <2>1
  <2>3. x < y
    BY ONLY <2>2, pos \in Nat
  <2> QED BY ONLY <2>1, <2>3
<1>10. k - 1 < i
  <2>1. PICK l : l = k - 1
    OBVIOUS
  <2>2. l \in 0 .. Len(ns) /\ i \in 0 .. Len(ns) /\ Upto(ns, l) < Upto(ns, i)
    BY ONLY <1>2, <1>7, <1>9, <2>1
  <2>3. l < i
    BY ONLY <1>2, <2>2, UptoOrder
  <2> QED BY ONLY <2>1, <2>3
<1>11. k \in 1 .. i /\ k \in 2 .. M
  BY ONLY <1>2, <1>3, <1>4, <1>6, <1>7, <1>10
<1> QED BY ONLY <1>4, <1>6, <1>11

(* ... and it never names the first byte. *)
LEMMA PosBeyond ==
  ASSUME NEW b, Right(b), NEW d, d.pc = b.pc, NEW pos \in 0 .. 1
  PROVE  PosUpto(d, pos)
<1> SUFFICES ASSUME b.pc.node # 0, b.pc.pos <= pos
             PROVE  FALSE
  BY DEF PosUpto
<1>1. PICK ns, L, o : ns = b.nodes /\ L = Len(b.nodes) /\ o = 1
  OBVIOUS
<1>2. PICK k \in 2 .. L : b.pc.pos = Upto(ns, k - 1) - b.used + 1
  BY <1>1 DEF Right, PosCacheOf
<1>3. /\ L \in Nat /\ b.used \in Nat /\ ns \in Seq(NodeRec) /\ Filled(ns) /\ L = Len(ns)
      /\ Upto(ns, 0) = 0 /\ \A l \in 0 .. L : Upto(ns, l) \in Nat
      /\ \A l \in 1 .. L : Upto(ns, l) = Upto(ns, l - 1) + NLen(ns[l]) /\ NLen(ns[l]) \in Nat
      /\ L > 0 => b.used < NLen(ns[1])
  BY <1>1, ShapeIs DEF Right
<1>4. PICK l : l = k - 1
  OBVIOUS
<1>5. o \in 0 .. L /\ l \in 0 .. L /\ o <= l /\ o \in 1 .. L /\ L > 0 /\ o - 1 = 0
  BY ONLY <1>1, <1>2, <1>3, <1>4
<1>6. Upto(ns, o) + (l - o) <= Upto(ns, l)
  BY ONLY <1>3, <1>5, UptoGrows
<1>7. Upto(ns, o) = Upto(ns, o - 1) + NLen(ns[o]) /\ NLen(ns[o]) \in Nat /\ Upto(ns, l) \in Nat
  BY ONLY <1>3, <1>5
<1>8. PICK w, y : w = NLen(ns[o]) /\ y = Upto(ns, l)
  OBVIOUS
<1>9. w \in Nat /\ y \in Nat /\ b.used < w /\ Upto(ns, o) = w
  BY ONLY <1>1, <1>3, <1>5, <1>7, <1>8
<1>10. w + (l - o) <= y /\ y - b.used + 1 <= pos
  BY ONLY <1>2, <1>4, <1>6, <1>8, <1>9, b.pc.pos <= pos
<1>11. o \in Nat /\ l \in Nat /\ o <= l
  BY ONLY <1>3, <1>5
<1> QED BY ONLY <1>3, <1>9, <1>10, <1>11, pos \in 0 .. 1

(* A node that grows or shrinks leaves the nodes before it, and itself,    *)
(* where they begin.                                                       *)
LEMMA AlterPos ==
  ASSUME NEW b, NEW d, NEW i, NEW len, AlterBase(d, b, i, len), NEW pos \in Nat,
         PosUpto(b, pos), pos + b.used <= Upto(b.nodes, i)
  PROVE  PosUpto(d, pos)
<1>1. /\ Shape(b) /\ LenIs(b) /\ IsBase(d) /\ d.used = b.used /\ d.pc = b.pc
      /\ AlterLike(d, b, i, len)
  BY DEF AlterBase, AlterLike
<1>2. FrontKept(d.nodes, b.nodes, i)
  BY ONLY <1>1, AlterLikeIs DEF AlterDone
<1> QED BY ONLY <1>1, <1>2, pos \in Nat, PosUpto(b, pos), pos + b.used <= Upto(b.nodes, i), PosKept

-----------------------------------------------------------------------------
(* Merging *)

(* How much is merged. *)
LEMMA MergeLenIs ==
  ASSUME NEW n \in NodeRec, NEW in \in Inputs
  PROVE  /\ MergeLen(n, in) \in Nat /\ MergeLen(n, in) <= in.len
         /\ MergeLen(n, in) > 0 =>
              n.type = in.type /\ NLen(n) + MergeLen(n, in) <= MaxOf(in.type)
<1>1. NLen(n) \in Nat /\ in.len \in Nat /\ in.type \in NodeTypes /\ MaxOf(in.type) \in Nat
  BY NodesAssumption DEF NodeRec, NLen, MaxOf
<1>2. PICK x, y, j : /\ x = NLen(n) /\ y = MaxOf(in.type)
                     /\ j = (in.type \in {"PTR", "REF"} =>
                               PtrAdd(NodePtr(n), NLen(n)) = <<in.obj, 0, in.off>>)
  OBVIOUS
<1>3. MergeLen(n, in) = IF n.type = in.type /\ y - x > 0 /\ j
                        THEN IF y - x > in.len THEN in.len ELSE y - x
                        ELSE 0
  BY <1>2 DEF MergeLen
<1>4. x \in Nat /\ y \in Nat /\ in.len \in Nat
  BY <1>1, <1>2
<1>5. PICK m : m = MergeLen(n, in)
  OBVIOUS
<1>6. m \in Nat /\ m <= in.len /\ (m > 0 => n.type = in.type /\ x + m <= y)
  <2>1. CASE n.type = in.type /\ y - x > 0 /\ j
    BY ONLY <1>3, <1>4, <1>5, <2>1
  <2>2. CASE ~(n.type = in.type /\ y - x > 0 /\ j)
    BY ONLY <1>3, <1>4, <1>5, <2>2
  <2> QED BY ONLY <2>1, <2>2
<1> QED BY ONLY <1>2, <1>5, <1>6

(* What a merge leaves: the nodes are the ones that were there, with k     *)
(* bytes more in one of them.                                              *)
MergeDone(b, i, pos, k, d) ==
  /\ Shape(d) /\ LenIs(d) /\ PosUpto(d, pos) /\ d.len = b.len + k /\ d.used = b.used
  /\ Len(d.nodes) = Len(b.nodes) /\ \A j \in 1 .. Len(b.nodes) : d.nodes[j].id = b.nodes[j].id
  /\ \A t : CountType(d.nodes, t) = CountType(b.nodes, t)
  /\ pos + b.used <= Upto(d.nodes, i)

(* The node at f has room for them. *)
MayMerge(b, f, in, k) ==
  /\ k \in Nat /\ k <= in.len
  /\ k > 0 => /\ b.nodes[f.i].type = in.type
              /\ NLen(b.nodes[f.i]) + k <= MaxOf(in.type)

LEMMA MergeIs ==
  ASSUME NEW b, Right(b), NEW pos \in Nat, NEW f, Found(b, pos, f), f.p = NLen(b.nodes[f.i]),
         NEW in \in Inputs, NEW k, MayMerge(b, f, in, k)
  PROVE  MergeDone(b, f.i, pos, k, Merge(b, f, in, k))
<1>1. PICK i, d, ns, n : i = f.i /\ d = Merge(b, f, in, k) /\ ns = b.nodes /\ n = b.nodes[f.i]
  OBVIOUS
<1>2. /\ ns \in Seq(NodeRec) /\ Len(ns) \in Nat /\ b.used \in Nat /\ b.len \in Nat
      /\ \A j \in 1 .. Len(ns) : /\ Upto(ns, j) = Upto(ns, j - 1) + NLen(ns[j]) /\ NLen(ns[j]) \in Nat
                                 /\ NLen(ns[j]) > 0
      /\ \A j \in 0 .. Len(ns) : Upto(ns, j) \in Nat
      /\ Len(ns) > 0 => b.used < NLen(ns[1])
  BY <1>1, ShapeIs DEF Right
<1>3. /\ i \in 1 .. Len(ns) /\ n = ns[i] /\ NLen(n) \in Nat /\ NLen(n) > 0 /\ n.data \in Seq(Byte)
      /\ Upto(ns, i - 1) + NLen(n) = pos + b.used
  BY <1>1, <1>2, NodeIs DEF Found
<1>4. Upto(ns, i) = pos + b.used /\ PosUpto(b, pos)
  <2>1. Upto(ns, i) = Upto(ns, i - 1) + NLen(ns[i])
    BY ONLY <1>2, <1>3
  <2> QED BY <1>3, <2>1, PosStart
<1>5. k \in Nat /\ Shape(b) /\ LenIs(b) /\ IsBase(b)
  BY DEF MayMerge, Right, Shape
<1>6. CASE k = 0
  <2>1. d = b
    BY <1>1, <1>6 DEF Merge
  <2>2. d.len = b.len + k
    BY <1>2, <1>6, <2>1
  <2>3. pos + b.used <= Upto(ns, i)
    BY <1>2, <1>4
  <2> QED BY <1>1, <1>4, <1>5, <2>1, <2>2, <2>3 DEF MergeDone
<1>7. CASE k > 0
  <2> DEFINE y == [j \in 1 .. k |-> InByte(in, j)]
             x == n.data \o y
             e == IovecLenAdd(b, f.num, k)
             m == b.len + k
             g == [e EXCEPT !.nodes[i].data = x, !.len = m]
  <2>1. y \in Seq(Byte) /\ Len(y) = k
    <3>1. \A j \in 1 .. k : InByte(in, j) \in Byte
      BY <1>5 DEF Byte
    <3> QED BY <1>5, <3>1
  <2>2. x \in Seq(Byte) /\ Len(x) = NLen(n) + k
    <3>1. PICK z, v : z = y /\ v = n.data
      OBVIOUS
    <3>2. z \in Seq(Byte) /\ v \in Seq(Byte) /\ Len(z) = k /\ Len(v) = NLen(n) /\ x = v \o z
      BY ONLY <1>3, <2>1, <3>1 DEF NLen, x
    <3>3. v \o z \in Seq(Byte) /\ Len(v \o z) = Len(v) + Len(z)
      BY ONLY <3>2, ConcatIs
    <3> QED BY ONLY <3>2, <3>3
  <2>3. Same(b, e)
    BY <1>5, IovecEntriesSame
  <2>4. d = g
    <3>1. e.nodes = b.nodes /\ e.len = b.len
      BY ONLY <2>3 DEF Same
    <3> HIDE DEF e
    <3>2. g = [e EXCEPT !.nodes[f.i].data = @ \o [j \in 1 .. k |-> InByte(in, j)], !.len = @ + k]
      BY ONLY <1>1, <3>1 DEF g, x, y, m
    <3>3. d = [e EXCEPT !.nodes[f.i].data = @ \o [j \in 1 .. k |-> InByte(in, j)], !.len = @ + k]
      BY <1>1, <1>7 DEF Merge, e
    <3> QED BY ONLY <3>2, <3>3
  <2>5. AlterBase(g, b, i, Len(x))
    <3>1. 0 < Len(x) /\ Len(x) <= MaxOf(b.nodes[i].type)
      BY <1>1, <1>3, <1>5, <1>7, <2>2 DEF MayMerge
    <3>2. i = 1 => b.used < Len(x)
      <4> HAVE i = 1
      <4>1. b.used < NLen(n)
        BY ONLY <1>2, <1>3, i = 1
      <4> QED BY ONLY <1>2, <1>3, <1>5, <2>2, <4>1
    <3>3. m \in Nat /\ m = b.len + (Len(x) - NLen(b.nodes[i]))
      <4>1. PICK l, o : l = NLen(n) /\ o = b.len
        OBVIOUS
      <4>2. l \in Nat /\ o \in Nat /\ k \in Nat /\ Len(x) = l + k /\ l = NLen(b.nodes[i]) /\ m = o + k
        BY ONLY <1>1, <1>2, <1>3, <1>5, <2>2, <4>1
      <4>3. o + k \in Nat /\ o + k = o + ((l + k) - l)
        BY ONLY <4>2
      <4> QED BY ONLY <4>1, <4>2, <4>3
    <3>4. i \in 1 .. Len(b.nodes)
      BY <1>1, <1>3
    <3> HIDE DEF x, m, e
    <3> QED BY ONLY <1>5, <2>2, <2>3, <3>1, <3>2, <3>3, <3>4, AlterIs
  <2>6. d.len = b.len + k /\ d.used = b.used /\ Altered(d.nodes, ns, i, Len(x))
    <3>1. d.len = b.len + (Len(x) - NLen(n))
      BY ONLY <1>1, <2>4, <2>5 DEF AlterBase, AlterLike
    <3>2. d.len = b.len + k
      BY ONLY <1>2, <1>3, <1>5, <2>2, <3>1
    <3> QED BY ONLY <1>1, <2>4, <2>5, <3>2 DEF AlterBase, AlterLike
  <2> HIDE DEF g, x
  <2>7. Shape(d) /\ LenIs(d)
    BY ONLY <2>4, <2>5, AlterShape
  <2>8. pos + b.used <= Upto(ns, i)
    BY <1>2, <1>4
  <2>9. PosUpto(d, pos)
    BY ONLY <1>1, <1>4, <2>4, <2>5, <2>8, pos \in Nat, AlterPos
  <2>10. pos + b.used <= Upto(d.nodes, i)
    <3>1. \A j \in i .. Len(ns) : Upto(d.nodes, j) = Upto(ns, j) + (Len(x) - NLen(ns[i]))
      BY ONLY <2>6, AlteredUpto
    <3>2. Upto(d.nodes, i) = Upto(ns, i) + (Len(x) - NLen(ns[i]))
      BY ONLY <1>2, <1>3, <3>1
    <3>3. Upto(d.nodes, i) = (pos + b.used) + ((NLen(n) + k) - NLen(n))
      BY ONLY <1>3, <1>4, <2>2, <3>2
    <3> QED BY ONLY <1>2, <1>3, <1>5, <3>3, pos \in Nat
  <2>11. \A t : CountType(d.nodes, t) = CountType(ns, t)
    BY ONLY <2>6, AlteredCount
  <2>12. Len(d.nodes) = Len(ns) /\ \A j \in 1 .. Len(ns) : d.nodes[j].id = ns[j].id
    BY ONLY <2>6 DEF Altered
  <2> QED BY <1>1, <2>6, <2>7, <2>9, <2>10, <2>11, <2>12 DEF MergeDone
<1> QED BY <1>5, <1>6, <1>7

-----------------------------------------------------------------------------
(* New nodes *)

(* Division by the size of a node. *)
LEMMA DivIs ==
  ASSUME NEW x \in Nat, NEW M \in Nat, M > 0
  PROVE  x \div M \in Nat /\ (x \div M) * M <= x /\ x < (x \div M) * M + M
OBVIOUS

(* How many nodes of M bytes it takes for r bytes: all but the last one    *)
(* are full.                                                               *)
LEMMA DivUp ==
  ASSUME NEW r \in Nat, NEW M \in Nat, M > 0, NEW m, m = (r + M - 1) \div M
  PROVE  m \in Nat /\ (m - 1) * M < r /\ r <= m * M
<1>1. PICK x \in Nat : x = r + M - 1
  OBVIOUS
<1>2. m \in Nat /\ m * M <= x /\ x < m * M + M
  BY <1>1, DivIs
<1>3. (m - 1) * M = m * M - M
  BY <1>2
<1>4. PICK y : y = m * M
  OBVIOUS
<1>5. y \in Nat
  BY <1>2, <1>4
<1> QED BY <1>1, <1>2, <1>3, <1>4, <1>5

(* More bytes do not take fewer nodes. *)
LEMMA DivUpLess ==
  ASSUME NEW r \in Nat, NEW n \in Nat, r <= n, r > 0, NEW M \in Nat, M > 0
  PROVE  /\ (r + M - 1) \div M \in Nat /\ (r + M - 1) \div M > 0
         /\ (r + M - 1) \div M <= (n + M - 1) \div M /\ (r + M - 1) \div M <= r
<1>1. PICK m, q : m = (r + M - 1) \div M /\ q = (n + M - 1) \div M
  OBVIOUS
<1>2. m \in Nat /\ (m - 1) * M < r /\ r <= m * M
  BY <1>1, DivUp
<1>3. q \in Nat /\ n <= q * M
  BY <1>1, DivUp
<1>4. m > 0
  <2>1. m = 0 => m * M = 0
    OBVIOUS
  <2> QED BY <1>2, <2>1
<1>5. m - 1 < q
  <2>1. PICK a \in Int : a = m - 1
    BY <1>2
  <2>2. PICK y, z : y = a * M /\ z = q * M
    OBVIOUS
  <2>3. y \in Int /\ z \in Int /\ y < z
    BY ONLY <1>2, <1>3, <2>1, <2>2, r \in Nat, n \in Nat, M \in Nat, r <= n
  <2>4. a * M < q * M
    BY ONLY <2>2, <2>3
  <2>5. a < q
    BY ONLY <1>3, <2>1, <2>4, M \in Nat, M > 0
  <2> QED BY <2>1, <2>5
<1>6. m <= r
  <2>1. PICK a \in Nat : a = m - 1
    BY <1>2, <1>4
  <2>2. a <= a * M
    BY ONLY <2>1, M \in Nat, M > 0
  <2>3. PICK y : y = a * M
    OBVIOUS
  <2>4. y \in Nat
    BY <2>1, <2>3
  <2>5. a < r
    BY ONLY <1>2, <2>1, <2>2, <2>3, <2>4, r \in Nat
  <2> QED BY ONLY <1>2, <2>1, <2>5, r \in Nat
<1> QED BY <1>1, <1>2, <1>3, <1>4, <1>5, <1>6

(* Nodes that are all full but the last. *)
LEMMA UptoEven ==
  ASSUME NEW xs \in Seq(NodeRec), NEW m \in Nat, m > 0, Len(xs) = m, NEW M \in Nat,
         \A k \in 1 .. m - 1 : NLen(xs[k]) = M
  PROVE  \A k \in 0 .. m - 1 : Upto(xs, k) = k * M
<1>1. Upto(xs, 0) = 0 /\ \A i \in 1 .. m : Upto(xs, i) = Upto(xs, i - 1) + NLen(xs[i])
  BY UptoIs
<1> DEFINE h == [k \in 0 .. m - 1 |-> Upto(xs, k)]
           S == [k \in 0 .. m - 1 |-> {k * M}]
<1>2. h[0] \in S[0]
  BY <1>1
<1>3. \A k \in 1 .. m - 1 : h[k - 1] \in S[k - 1] => h[k] \in S[k]
  <2> TAKE k \in 1 .. m - 1
  <2>1. k \in 1 .. m /\ k - 1 \in 0 .. m - 1 /\ k \in 0 .. m - 1
    OBVIOUS
  <2>2. Upto(xs, k) = Upto(xs, k - 1) + M
    BY <1>1, <2>1
  <2>3. (k - 1) * M + M = k * M
    OBVIOUS
  <2> QED BY ONLY <2>1, <2>2, <2>3
<1>4. PICK n \in Nat : n = m - 1
  OBVIOUS
<1>5. h[0] \in S[0] /\ \A k \in 1 .. n : h[k - 1] \in S[k - 1] => h[k] \in S[k]
  BY ONLY <1>2, <1>3, <1>4
<1>6. \A k \in 0 .. n : h[k] \in S[k]
  <2> HIDE DEF h, S
  <2> QED BY ONLY <1>4, <1>5, RecKeeps
<1> QED BY ONLY <1>4, <1>6

(* m nodes of one type, that no node of b has the address of, for rest     *)
(* bytes.                                                                  *)
AreNew(xs, b, type, rest, m) ==
  /\ xs \in Seq(NodeRec) /\ Len(xs) = m /\ m \in Nat /\ m > 0 /\ Upto(xs, m) = rest
  /\ Good(xs, {type})
  /\ \A l \in 1 .. m : \A k \in 1 .. Len(b.nodes) : xs[l].id # b.nodes[k].id
  /\ \A u : CountType(xs, u) = IF u = type THEN m ELSE 0

LEMMA NewNodesIs ==
  ASSUME NEW b, b.nodes \in Seq(NodeRec), NEW in \in Inputs, NEW done \in Nat, done < in.len,
         Len(b.nodes) + in.len <= 2 * MaxLen
  PROVE  AreNew(NewNodes(b, in, done), b, in.type, in.len - done,
                (in.len - done + MaxOf(in.type) - 1) \div MaxOf(in.type))
<1>1. /\ in.len \in Nat /\ in.type \in NodeTypes /\ MaxOf(in.type) \in Nat /\ MaxOf(in.type) > 0
      /\ MaxLen \in Nat /\ MaxNodeAll \in Nat
  BY NodesAssumption DEF MaxOf
<1>2. PICK t, M, r, m, L : /\ t = in.type /\ M = MaxOf(in.type) /\ r = in.len - done
                           /\ m = (r + M - 1) \div M /\ L = Len(b.nodes)
  OBVIOUS
<1>3. r \in Nat /\ r > 0 /\ r <= in.len /\ M \in Nat /\ M > 0 /\ L \in Nat
  <2>1. M \in Nat /\ M > 0 /\ L \in Nat
    BY <1>1, <1>2, NodeIs
  <2>2. r \in Nat /\ r > 0 /\ r <= in.len
    <3>1. r = in.len - done /\ in.len \in Nat
      BY ONLY <1>1, <1>2
    <3> QED BY ONLY <3>1, done \in Nat, done < in.len
  <2> QED BY ONLY <2>1, <2>2
<1>4. m \in Nat /\ m > 0 /\ m <= r /\ (m - 1) * M < r /\ r <= m * M
  <2>1. m \in Nat /\ (m - 1) * M < r /\ r <= m * M
    BY ONLY <1>2, <1>3, DivUp
  <2>2. r <= r
    BY <1>3
  <2>3. (r + M - 1) \div M > 0 /\ (r + M - 1) \div M <= r
    BY ONLY <1>3, <2>2, DivUpLess
  <2> QED BY ONLY <1>2, <2>1, <2>3
<1>5. PICK w \in Nat : w = (m - 1) * M
  <2>1. m - 1 \in Nat
    BY ONLY <1>4
  <2> QED BY ONLY <1>3, <2>1
<1>6. w < r /\ r - w <= M
  <2>1. m * M = w + M
    BY ONLY <1>3, <1>4, <1>5
  <2> QED BY ONLY <1>3, <1>4, <1>5, <2>1
<1> DEFINE size(j) == IF j < m THEN M ELSE r - (m - 1) * M
           data(j) == [k \in 1 .. size(j) |-> InByte(in, NodeOff(in, done, r, j) + k)]
           x(j) == [id |-> FreshId(b, j), type |-> t, data |-> data(j)]
           xs == [j \in 1 .. m |-> x(j)]
<1>7. NewNodes(b, in, done) = xs
  BY ONLY <1>2 DEF NewNodes
<1>8. \A j \in 1 .. m : size(j) \in 1 .. M /\ (j < m => size(j) = M)
  BY ONLY <1>3, <1>4, <1>5, <1>6
<1>9. \A j \in 1 .. m : data(j) \in Seq(Byte) /\ Len(data(j)) = size(j)
  <2> TAKE j \in 1 .. m
  <2>1. NodeOff(in, done, r, j) \in Int
    <3>1. (j - 1) * MaxNodeAll \in Int /\ done + (j - 1) * MaxOf(in.type) \in Int
      BY <1>1, <1>4
    <3>2. PICK y \in Int : y = (j - 1) * (j - 2)
      BY <1>4
    <3>3. y \div 2 \in Int
      BY <3>2
    <3>4. PICK z \in Int : z = y \div 2
      BY <3>3
    <3>5. (j - 1) * r \in Int /\ MaxNodeAll * z \in Int
      BY <1>1, <1>3, <1>4, <3>4
    <3>6. (j - 1) * r - MaxNodeAll * z \in Int
      BY ONLY <3>5
    <3> QED BY ONLY <3>1, <3>2, <3>4, <3>6 DEF NodeOff
  <2>2. PICK o \in Int : o = NodeOff(in, done, r, j)
    BY <2>1
  <2>3. PICK s \in 1 .. M : s = size(j)
    BY <1>8
  <2>4. \A k \in 1 .. s : InByte(in, o + k) \in Byte
    BY DEF Byte
  <2>5. PICK f : f = [k \in 1 .. s |-> InByte(in, o + k)]
    OBVIOUS
  <2>6. f \in Seq(Byte) /\ Len(f) = s
    BY ONLY <1>3, <2>3, <2>4, <2>5
  <2> QED BY ONLY <2>2, <2>3, <2>5, <2>6
<1> HIDE DEF data, size
<1>10. \A j \in 1 .. m : Fresh(b, j, FreshId(b, j))
  <2> TAKE j \in 1 .. m
  <2>0. PICK y : y = 2 * MaxLen
    OBVIOUS
  <2>a. y \in Nat /\ L + in.len <= y
    BY <1>1, <1>2, <2>0
  <2>b. j \in Nat /\ 1 <= j /\ L + j <= y
    BY ONLY <1>1, <1>3, <1>4, <2>a, j \in 1 .. m
  <2>1. j \in Nat /\ 1 <= j /\ L + j <= 2 * MaxLen
    BY ONLY <2>0, <2>b
  <2> QED BY <1>2, <2>1, FreshIs
<1>11. \A j \in 1 .. m : /\ x(j) \in NodeRec /\ x(j).type = t /\ NLen(x(j)) = size(j)
                         /\ x(j).id = FreshId(b, j)
  <2> TAKE j \in 1 .. m
  <2>1. FreshId(b, j) \in Ids
    BY <1>10, FreshNew
  <2>2. data(j) \in Seq(Byte) /\ Len(data(j)) = size(j) /\ t \in NodeTypes
    BY <1>1, <1>2, <1>9
  <2> QED BY ONLY <2>1, <2>2 DEF NodeRec, NLen
<1> HIDE DEF x
<1>12. xs \in Seq(NodeRec) /\ Len(xs) = m /\ \A j \in 1 .. m : xs[j] = x(j)
  BY ONLY <1>4, <1>11
<1> HIDE DEF xs
<1>13. \A j \in 1 .. m : /\ xs[j].type = t /\ NLen(xs[j]) = size(j) /\ xs[j].id = FreshId(b, j)
  BY ONLY <1>11, <1>12
<1>14. Upto(xs, m) = r
  <2>1. \A i \in 1 .. m : Upto(xs, i) = Upto(xs, i - 1) + NLen(xs[i])
    BY ONLY <1>12, UptoIs
  <2>2. \A k \in 1 .. m - 1 : NLen(xs[k]) = M
    BY ONLY <1>4, <1>8, <1>13
  <2>3. Upto(xs, m - 1) = (m - 1) * M
    <3>1. m - 1 \in 0 .. m - 1
      BY ONLY <1>4
    <3>2. \A k \in 0 .. m - 1 : Upto(xs, k) = k * M
      BY ONLY <1>3, <1>4, <1>12, <2>2, UptoEven
    <3> QED BY ONLY <3>1, <3>2
  <2>4. m \in 1 .. m /\ ~(m < m)
    BY ONLY <1>4
  <2>5. Upto(xs, m) = Upto(xs, m - 1) + size(m) /\ size(m) = r - (m - 1) * M
    BY ONLY <1>13, <2>1, <2>4 DEF size
  <2> QED BY ONLY <1>3, <1>5, <2>3, <2>5
<1>15. Good(xs, {t})
  <2>1. \A k \in 1 .. m : NLen(xs[k]) \in 1 .. MaxOf(xs[k].type) /\ xs[k].type \in {t}
    BY ONLY <1>2, <1>8, <1>13
  <2>2. \A k, l \in 1 .. m : k # l => xs[k].id # xs[l].id
    <3> SUFFICES ASSUME NEW k \in 1 .. m, NEW l \in 1 .. m, k # l
                 PROVE  xs[k].id # xs[l].id
      OBVIOUS
    <3>1. k \in Nat /\ l \in Nat
      BY <1>4
    <3>2. Fresh(b, k, xs[k].id) /\ Fresh(b, l, xs[l].id)
      BY ONLY <1>10, <1>13, k \in 1 .. m, l \in 1 .. m
    <3> QED BY <3>1, <3>2, FreshApart
  <2> QED BY ONLY <1>12, <2>1, <2>2 DEF Good
<1>16. \A l \in 1 .. m : \A k \in 1 .. Len(b.nodes) : xs[l].id # b.nodes[k].id
  BY <1>10, <1>13, FreshNew
<1>17. \A u : CountType(xs, u) = IF u = t THEN m ELSE 0
  <2> TAKE u
  <2>1. {i \in 1 .. Len(xs) : xs[i].type = u} = IF u = t THEN 1 .. m ELSE {}
    BY ONLY <1>12, <1>13
  <2>2. Cardinality(1 .. m) = m
    <3>1. 1 \in Int /\ m \in Int
      BY <1>4
    <3>2. Cardinality(1 .. m) = IF 1 > m THEN 0 ELSE m - 1 + 1
      BY ONLY <3>1, FS_Interval
    <3> QED BY <1>4, <3>2
  <2> QED BY <2>1, <2>2, FS_EmptySet DEF CountType
<1>18. AreNew(xs, b, t, r, m)
  BY ONLY <1>4, <1>12, <1>14, <1>15, <1>16, <1>17 DEF AreNew
<1> QED BY ONLY <1>2, <1>7, <1>18

-----------------------------------------------------------------------------
(* Linking nodes into a string *)

(* d is b with m nodes of type t and r bytes in all after its node i. *)
LinkDone(b, i, t, r, m, d) ==
  /\ Shape(d) /\ LenIs(d) /\ d.len = b.len + r /\ d.used = b.used /\ d.pc = b.pc
  /\ FrontKept(d.nodes, b.nodes, i)
  /\ \A u : CountType(d.nodes, u) = CountType(b.nodes, u) + (IF u = t THEN m ELSE 0)

(* VSTR__ADD_MID and VSTR__ADD_END *)
LEMMA LinkedIs ==
  ASSUME NEW b, Shape(b), LenIs(b), NEW i \in 0 .. Len(b.nodes), i = 0 => b.used = 0,
         NEW xs, NEW t \in NodeTypes, NEW r \in Nat, NEW m, AreNew(xs, b, t, r, m)
  PROVE  LinkDone(b, i, t, r, m, Linked(b, xs, i, t))
<1>1. PICK ns, L, e : /\ ns = b.nodes /\ L = Len(b.nodes)
                      /\ e = IovecMaybeAdd(b, xs, i > 0 \/ b.len = 0)
  OBVIOUS
<1>2. /\ ns \in Seq(NodeRec) /\ L = Len(ns) /\ L \in Nat /\ b.used \in Nat /\ b.len \in Nat
      /\ b.num = L /\ \A j \in 0 .. L : Upto(ns, j) \in Nat
  BY <1>1, ShapeIs
<1>3. /\ xs \in Seq(NodeRec) /\ Len(xs) = m /\ m \in Nat /\ m > 0 /\ Upto(xs, m) = r
      /\ Good(xs, {t}) /\ \A u : CountType(xs, u) = IF u = t THEN m ELSE 0
      /\ \A l \in 1 .. m : \A k \in 1 .. L : xs[l].id # ns[k].id
  BY ONLY <1>1, AreNew(xs, b, t, r, m) DEF AreNew
<1>4. Same(b, e) /\ IsBase(e)
  <2>1. (i > 0 \/ b.len = 0) \in BOOLEAN
    BY ONLY TRUE, Zenon
  <2>2. PICK at \in BOOLEAN : at = (i > 0 \/ b.len = 0)
    BY <2>1
  <2>3. IsBase(b) /\ Len(xs) \in Nat /\ 0 \in Nat
    BY <1>3 DEF Shape
  <2>4. Same(b, IovecMaybeAdd(b, xs, at))
    BY ONLY <2>2, <2>3, IovecSame
  <2>5. Same(b, e)
    BY ONLY <1>1, <2>2, <2>4
  <2> QED BY ONLY <2>5 DEF Same
<1> DEFINE ms == SubSeq(ns, 1, i) \o xs \o SubSeq(ns, i + 1, L)
           E == IF i = L THEN xs[m].id ELSE b.end
           d == [e EXCEPT !.nodes = ms, !.len = b.len + r, !.num = b.num + m,
                          !.types = b.types \cup {t}, !.end = E]
<1>5. IsSwap(ms, ns, i, i, xs)
  <2>1. i \in Nat /\ i <= i /\ i <= Len(ns)
    BY <1>1, <1>2
  <2>2. IsSwap(SubSeq(ns, 1, i) \o xs \o SubSeq(ns, i + 1, Len(ns)), ns, i, i, xs)
    BY ONLY <1>2, <1>3, <2>1, SwapIs
  <2> QED BY ONLY <1>2, <2>2
<1>6. Linked(b, xs, i, t) = d
  BY ONLY <1>1, <1>3, <1>4 DEF Linked, Same
<1> HIDE DEF ms
<1>7. /\ ms \in Seq(NodeRec) /\ Len(ms) = i + m + (L - i) /\ Len(ms) = L + m
      /\ \A k \in 1 .. i : ms[k] = ns[k]
      /\ \A k \in 1 .. m : ms[i + k] = xs[k]
      /\ \A k \in 1 .. L - i : ms[i + m + k] = ns[i + k]
  <2>1. /\ ms \in Seq(NodeRec) /\ Len(ms) = i + m + (L - i)
        /\ \A k \in 1 .. i : ms[k] = ns[k]
        /\ \A k \in 1 .. m : ms[i + k] = xs[k]
        /\ \A k \in 1 .. L - i : ms[i + m + k] = ns[i + k]
    BY ONLY <1>2, <1>3, <1>5 DEF IsSwap
  <2>2. i + m + (L - i) = L + m
    BY <1>1, <1>2, <1>3
  <2> QED BY ONLY <2>1, <2>2
<1>8. E \in Nat
  <2>1. m \in 1 .. m
    BY <1>3
  <2>2. xs[m].id \in Ids
    BY <1>3, <2>1, NodeIs
  <2>3. xs[m].id \in Nat /\ b.end \in Nat
    <3>1. \A x \in Ids : x \in Nat
      BY ONLY NodesAssumption DEF Ids
    <3>2. b.end \in Nat
      BY BaseIs DEF Shape
    <3> QED BY ONLY <2>2, <3>1, <3>2
  <2> QED BY ONLY <2>3
<1>9. /\ IsBase(d) /\ d.nodes = ms /\ d.len = b.len + r /\ d.num = L + m /\ d.used = b.used
      /\ d.types = b.types \cup {t} /\ d.end = E /\ d.pc = b.pc
  <2>1. b.types \cup {t} \in SUBSET NodeTypes
    BY BaseIs DEF Shape
  <2>2. b.len + r \in Nat /\ b.num + m \in Nat /\ b.num + m = L + m
    BY <1>2, <1>3
  <2> HIDE DEF E
  <2>3. /\ IsBase(d) /\ d.nodes = ms /\ d.len = b.len + r /\ d.num = b.num + m
        /\ d.types = b.types \cup {t} /\ d.end = E /\ d.pc = e.pc /\ d.used = e.used
    BY ONLY <1>4, <1>7, <1>8, <2>1, <2>2 DEF IsBase, BaseRec
  <2> QED BY ONLY <1>4, <2>2, <2>3 DEF Same
<1> HIDE DEF d
<1>10. Good(ms, b.types \cup {t})
  <2>1. Apart(ns, i, i, xs)
    BY ONLY <1>1, <1>3 DEF Apart
  <2>2. Good(ns, b.types)
    BY <1>1 DEF Shape
  <2> QED BY ONLY <1>3, <1>5, <2>1, <2>2, SwapGood
<1>11. E = EndOf(ms)
  <2>0. ms # <<>> /\ EndOf(ms) = ms[L + m].id
    <3>1. ms # <<>>
      BY <1>2, <1>3, <1>7
    <3> QED BY ONLY <1>7, <3>1 DEF EndOf
  <2>1. CASE i = L
    <3>1. m \in 1 .. m /\ L + m = i + m
      BY <1>3, <2>1
    <3>2. ms[i + m] = xs[m]
      BY ONLY <1>7, <3>1
    <3> QED BY ONLY <2>0, <2>1, <3>1, <3>2
  <2>2. CASE i # L
    <3>a. i \in 0 .. L /\ L > 0
      BY <1>1, <1>2, <2>2
    <3>b. L - i \in 1 .. L - i /\ i + m + (L - i) = L + m /\ i + (L - i) = L
      BY ONLY <1>2, <1>3, <2>2, <3>a
    <3>1. L - i \in 1 .. L - i /\ i + m + (L - i) = L + m /\ i + (L - i) = L /\ ns # <<>>
      BY <1>2, <3>a, <3>b
    <3>2. ms[i + m + (L - i)] = ns[i + (L - i)]
      BY ONLY <1>7, <3>1
    <3>3. b.end = ns[L].id
      BY <1>1, <3>1 DEF Shape, EndOf
    <3> QED BY ONLY <2>0, <2>2, <3>1, <3>2, <3>3
  <2> QED BY ONLY <2>1, <2>2
<1>12. UsedIn(ms, b.used)
  <2> SUFFICES ASSUME b.used > 0
               PROVE  ms # <<>> /\ ms[1].type = "BUF" /\ b.used < NLen(ms[1])
    BY DEF UsedIn
  <2>1. 1 \in 1 .. i /\ ms # <<>>
    BY <1>1, <1>2, <1>3, <1>7
  <2>2. ms[1] = ns[1]
    BY ONLY <1>7, <2>1
  <2>3. ns[1].type = "BUF" /\ b.used < NLen(ns[1])
    BY <1>1 DEF Shape, UsedIn
  <2> QED BY <2>1, <2>2, <2>3
<1>13. Shape(d)
  BY ONLY <1>7, <1>9, <1>10, <1>11, <1>12 DEF Shape
<1>14. SwapSums(ms, ns, i, i, xs)
  BY ONLY <1>5, SwapUpto
<1>15. LenIs(d)
  <2>1. L - i \in 0 .. Len(ns) - i /\ i + (L - i) = L /\ i \in 0 .. L /\ L \in 0 .. L
    BY <1>1, <1>2
  <2>2. Upto(ms, i + m + (L - i)) = Upto(ns, i) + r + (Upto(ns, L) - Upto(ns, i))
    BY ONLY <1>3, <1>14, <2>1 DEF SwapSums
  <2>3. b.len = Upto(ns, L) - b.used
    BY <1>1 DEF LenIs
  <2>4. PICK x, y : x = Upto(ns, i) /\ y = Upto(ns, L)
    OBVIOUS
  <2>5. x \in Nat /\ y \in Nat /\ b.used \in Nat /\ b.len = y - b.used
    BY ONLY <1>2, <2>1, <2>3, <2>4
  <2>6. Upto(ms, Len(ms)) = x + r + (y - x)
    BY ONLY <1>7, <2>2, <2>4
  <2>7. d.len = Upto(ms, Len(ms)) - b.used
    BY ONLY <1>9, <2>5, <2>6, r \in Nat
  <2> QED BY ONLY <1>9, <2>7 DEF LenIs
<1>16. FrontKept(ms, ns, i)
  <2>1. \A k \in 1 .. i : k - 1 \in 0 .. i
    BY <1>1, <1>2
  <2>a. i \in 0 .. L /\ Len(ms) = L + m /\ Len(ns) = L
    BY <1>1, <1>2, <1>7
  <2>2. i <= Len(ms) /\ i \in 0 .. Len(ns)
    BY ONLY <1>2, <1>3, <2>a
  <2> QED BY ONLY <1>7, <1>14, <2>1, <2>2 DEF FrontKept, SwapSums
<1>17. \A u : CountType(ms, u) = CountType(ns, u) + (IF u = t THEN m ELSE 0)
  <2> TAKE u
  <2>1. SwapCounts(ms, ns, i, i, xs, u)
    BY ONLY <1>5, SwapCount
  <2>2. CountType(SubSeq(ns, i + 1, i), u) = 0
    <3>1. i \in Nat /\ i <= i /\ i <= Len(ns)
      BY <1>1, <1>2
    <3>2. CountType(SubSeq(ns, i + 1, i), u) = Cardinality(Having(ns, u, i, i))
      BY ONLY <1>2, <3>1, CountPart
    <3>3. Having(ns, u, i, i) = {}
      BY <3>1 DEF Having
    <3> QED BY ONLY <3>2, <3>3, FS_EmptySet
  <2>3. CountType(ms, u) \in Nat /\ CountType(ns, u) \in Nat
    BY <1>2, <1>7, CountIs
  <2> QED BY ONLY <1>3, <2>1, <2>2, <2>3 DEF SwapCounts
<1>18. LinkDone(b, i, t, r, m, d)
  BY ONLY <1>1, <1>9, <1>13, <1>15, <1>16, <1>17 DEF LinkDone
<1> QED BY ONLY <1>6, <1>18

(* The string nodes are linked into has the same nodes, and in front of    *)
(* them no used data.                                                      *)
IntoDone(b, i, z) ==
  /\ Shape(z) /\ LenIs(z) /\ z.len = b.len /\ z.pc = b.pc
  /\ Len(z.nodes) = Len(b.nodes) /\ \A k \in 1 .. Len(b.nodes) : z.nodes[k].id = b.nodes[k].id
  /\ \A u : CountType(z.nodes, u) = CountType(b.nodes, u)
  /\ IF i = 0 THEN z.used = 0 ELSE z.nodes = b.nodes /\ z.used = b.used

(* A string with the same list is as right. *)
LEMMA SameShape ==
  ASSUME NEW b, NEW d, Same(b, d), Shape(b), LenIs(b)
  PROVE  Shape(d) /\ LenIs(d)
BY DEF Same, Shape, LenIs

(* So is its position cache. *)
LEMMA SameRight ==
  ASSUME NEW b, NEW d, Same(b, d), Right(b)
  PROVE  Right(d)
<1>1. Shape(d) /\ LenIs(d)
  BY SameShape DEF Right
<1>2. PosCacheOf(d)
  BY DEF Same, Right, PosCacheOf
<1> QED BY <1>1, <1>2 DEF Right

(* vstr__base_zero_used() *)
LEMMA ZeroUsedIs ==
  ASSUME NEW b, Shape(b), LenIs(b)
  PROVE  IntoDone(b, 0, ZeroUsed(b))
<1>1. CASE b.used = 0
  <2>1. ZeroUsed(b) = b
    BY <1>1 DEF ZeroUsed
  <2> QED BY <1>1, <2>1 DEF IntoDone
<1>2. CASE b.used # 0
  <2>1. PICK ns, L, u, n, o : ns = b.nodes /\ L = Len(b.nodes) /\ u = b.used /\ n = b.nodes[1] /\ o = 1
    OBVIOUS
  <2>2. /\ ns \in Seq(NodeRec) /\ L = Len(ns) /\ L \in Nat /\ u \in Nat /\ b.len \in Nat
        /\ L > 0 => u < NLen(n)
        /\ b.len = Upto(ns, L) - u
    BY <2>1, ShapeIs DEF LenIs
  <2>3. L > 0 /\ u > 0 /\ o \in 1 .. L
    <3>1. UsedIn(ns, u) /\ u > 0
      BY <1>2, <2>1, <2>2 DEF Shape
    <3>2. ns # <<>>
      BY ONLY <3>1 DEF UsedIn
    <3> QED BY <2>1, <2>2, <3>1, <3>2
  <2>4. NLen(n) \in Nat /\ n.data \in Seq(Byte) /\ Len(n.data) = NLen(n) /\ u < NLen(n)
        /\ NLen(n) <= MaxOf(n.type) /\ MaxOf(n.type) \in Nat
    <3>1. NLen(ns[o]) \in Nat /\ ns[o].data \in Seq(Byte)
      BY ONLY <2>2, <2>3, NodeIs
    <3>2. NLen(b.nodes[o]) <= MaxOf(b.nodes[o].type)
      BY <2>1, <2>3, ShapeIs
    <3> QED BY <2>1, <2>2, <2>3, <3>1, <3>2, NodesAssumption DEF NLen, MaxOf
  <2> DEFINE x == SubSeq(n.data, u + 1, NLen(n))
             e == [b EXCEPT !.used = 0, !.len = b.len + u]
             m == b.len
             z == [e EXCEPT !.nodes[o].data = x, !.len = m]
  <2>5. x \in Seq(Byte) /\ Len(x) = NLen(n) - u
    <3>1. PICK s, l : s = n.data /\ l = NLen(n)
      OBVIOUS
    <3>2. s \in Seq(Byte) /\ u \in Nat /\ l \in Nat /\ u <= l /\ l <= Len(s)
      BY ONLY <2>2, <2>4, <3>1
    <3>3. SubSeq(s, u + 1, l) \in Seq(Byte) /\ Len(SubSeq(s, u + 1, l)) = l - u
      BY ONLY <3>2, PartIs
    <3> QED BY ONLY <3>1, <3>3
  <2>6. /\ IsBase(e) /\ e.nodes = ns /\ e.used = 0 /\ e.len = b.len + u /\ e.num = b.num
        /\ e.end = b.end /\ e.types = b.types /\ e.pc = b.pc
    <3>1. 0 \in Nat /\ b.len + u \in Nat /\ IsBase(b)
      BY <2>2 DEF Shape
    <3> QED BY ONLY <2>1, <3>1 DEF IsBase, BaseRec
  <2>7. Shape(e)
    BY ONLY <2>1, <2>6, Shape(b) DEF Shape, UsedIn
  <2>8. LenIs(e)
    <3>1. Upto(ns, L) \in Nat
      BY <2>1, <2>2, ShapeIs
    <3>2. e.len = Upto(ns, L) - 0
      BY ONLY <2>2, <2>6, <3>1
    <3> QED BY ONLY <2>2, <2>6, <3>2 DEF LenIs
  <2>9. z = ZeroUsed(b)
    <3>1. [b EXCEPT !.nodes[1].data = SubSeq(@, b.used + 1, Len(@)), !.used = 0]
            = [b EXCEPT !.used = 0, !.nodes[1].data = SubSeq(@, b.used + 1, Len(@))]
      OBVIOUS
    <3>2. z = [b EXCEPT !.used = 0, !.nodes[1].data = SubSeq(@, b.used + 1, Len(@))]
      BY ONLY <2>1, Shape(b) DEF NLen, Shape, IsBase, BaseRec
    <3> QED BY <1>2, <3>1, <3>2 DEF ZeroUsed
  <2>10. AlterBase(z, e, o, Len(x))
    <3>1. Same(e, e)
      BY ONLY <2>6, SameSelf
    <3>2. /\ 0 < Len(x) /\ Len(x) <= MaxOf(e.nodes[o].type) /\ (o = 1 => e.used < Len(x))
          /\ m \in Nat /\ m = e.len + (Len(x) - NLen(e.nodes[o]))
      <4>1. e.nodes[o] = n
        BY ONLY <2>1, <2>6
      <4>2. PICK v, w, y : v = Len(x) /\ w = NLen(n) /\ y = MaxOf(n.type)
        OBVIOUS
      <4>3. /\ v = w - u /\ w \in Nat /\ u \in Nat /\ u < w /\ w <= y /\ y \in Nat /\ b.len \in Nat
            /\ e.used = 0 /\ e.len = b.len + u
        BY ONLY <2>2, <2>4, <2>5, <2>6, <4>2
      <4>4. 0 < v /\ v <= y /\ e.used < v /\ b.len = e.len + (v - w)
        <5> HIDE DEF e
        <5> QED BY ONLY <4>3
      <4> HIDE DEF x, e
      <4> QED BY ONLY <4>1, <4>2, <4>3, <4>4
    <3>3. o \in 1 .. Len(e.nodes)
      BY ONLY <2>2, <2>3, <2>6
    <3> HIDE DEF x, e, m
    <3> QED BY ONLY <2>5, <2>7, <2>8, <3>1, <3>2, <3>3, AlterIs
  <2> HIDE DEF z, x, e
  <2>11. Shape(z) /\ LenIs(z)
    BY ONLY <2>10, AlterShape
  <2>12. /\ Altered(z.nodes, ns, o, Len(x)) /\ z.used = 0 /\ z.pc = b.pc
    BY ONLY <2>6, <2>10 DEF AlterBase, AlterLike
  <2>13. z.len = b.len
    <3>1. z.len = e.len + (Len(x) - NLen(n))
      BY ONLY <2>1, <2>6, <2>10 DEF AlterBase, AlterLike
    <3> QED BY ONLY <2>2, <2>4, <2>5, <2>6, <3>1
  <2>14. Len(z.nodes) = L /\ \A k \in 1 .. L : z.nodes[k].id = ns[k].id
    BY ONLY <2>2, <2>12 DEF Altered
  <2>15. \A t : CountType(z.nodes, t) = CountType(ns, t)
    BY ONLY <2>12, AlteredCount
  <2>16. IntoDone(b, 0, z)
    BY ONLY <2>1, <2>11, <2>12, <2>13, <2>14, <2>15 DEF IntoDone
  <2> QED BY ONLY <2>9, <2>16
<1> QED BY <1>1, <1>2

(* In whichever place. *)
LEMMA LinkIntoIs ==
  ASSUME NEW b, Shape(b), LenIs(b), NEW i \in 0 .. Len(b.nodes)
  PROVE  IntoDone(b, i, LinkInto(b, i))
<1>1. Len(b.nodes) \in Nat /\ b.len \in Nat /\ b.used \in Nat /\ IsBase(b) /\ Len(b.nodes) <= b.len
  BY ShapeIs, NodesAtMost DEF Shape
<1>2. CASE i > 0 /\ b.nodes[i].id # b.end
  <2>1. LinkInto(b, i) = IovecStale(b) /\ i # 0
    <3>1. ~(i = 0 /\ b.len > 0) /\ i # 0
      BY <1>1, <1>2
    <3> QED BY ONLY <1>2, <3>1 DEF LinkInto
  <2>2. Same(b, IovecStale(b))
    BY <1>1, IovecEntriesSame
  <2>3. PICK z : z = IovecStale(b)
    OBVIOUS
  <2>4. Shape(z) /\ LenIs(z)
    BY <2>2, <2>3, SameShape
  <2>5. IntoDone(b, i, z)
    BY ONLY <2>1, <2>2, <2>3, <2>4 DEF IntoDone, Same
  <2> QED BY ONLY <2>1, <2>3, <2>5
<1>3. CASE i = 0 /\ b.len > 0
  <2>1. LinkInto(b, i) = ZeroUsed(b)
    <3>1. ~(i > 0 /\ b.nodes[i].id # b.end)
      BY <1>3
    <3> QED BY ONLY <1>3, <3>1 DEF LinkInto
  <2> QED BY ONLY <1>3, <2>1, Shape(b), LenIs(b), ZeroUsedIs
<1>4. CASE ~(i > 0 /\ b.nodes[i].id # b.end) /\ ~(i = 0 /\ b.len > 0)
  <2>1. LinkInto(b, i) = b
    BY ONLY <1>4 DEF LinkInto
  <2>2. i = 0 => b.used = 0
    <3> HAVE i = 0
    <3>1. Len(b.nodes) = 0
      BY <1>1, <1>4
    <3>2. b.nodes = <<>>
      BY <3>1, BaseIs DEF Shape
    <3> QED BY <1>1, <3>2 DEF Shape, UsedIn
  <2> QED BY ONLY <2>1, <2>2, Shape(b), LenIs(b) DEF IntoDone
<1> QED BY ONLY <1>2, <1>3, <1>4

(* Where nodes may be linked in: behind the node that ends at pos, or in   *)
(* front of all.                                                           *)
MayLink(b, i, pos) ==
  /\ Shape(b) /\ LenIs(b) /\ PosUpto(b, pos) /\ i \in 0 .. Len(b.nodes) /\ pos \in Nat
  /\ IF i = 0 THEN pos = 0 /\ Right(b) ELSE pos + b.used <= Upto(b.nodes, i)

(* Linking new nodes in, and taking them from the spare list. *)
LEMMA LinkNodesIs ==
  ASSUME NEW b, NEW i, NEW pos, MayLink(b, i, pos), NEW c, Fits(b.nodes, c), NEW in \in Inputs,
         NEW xs, NEW r \in Nat, NEW m, AreNew(xs, b, in.type, r, m), c.spare[in.type] >= m
  PROVE  LET s == LinkNodes(b, c, i, pos, in, xs)
         IN  Sound(s) /\ s.b.len = b.len + r /\ s.ok
<1>1. PICK t, z, d, g : /\ t = in.type /\ z = LinkInto(b, i) /\ d = Linked(z, xs, i, t)
                        /\ g = CacheAdd(d, pos)
  OBVIOUS
<1>2. t \in NodeTypes
  BY <1>1, NodesAssumption
<1>3. Shape(b) /\ LenIs(b) /\ i \in 0 .. Len(b.nodes) /\ pos \in Nat /\ PosUpto(b, pos)
  BY DEF MayLink
<1>4. IntoDone(b, i, z)
  BY ONLY <1>1, <1>3, LinkIntoIs
<1>5. /\ Shape(z) /\ LenIs(z) /\ z.len = b.len /\ z.pc = b.pc /\ Len(z.nodes) = Len(b.nodes)
      /\ \A k \in 1 .. Len(b.nodes) : z.nodes[k].id = b.nodes[k].id
      /\ \A u : CountType(z.nodes, u) = CountType(b.nodes, u)
      /\ IF i = 0 THEN z.used = 0 ELSE z.nodes = b.nodes /\ z.used = b.used
  BY ONLY <1>4 DEF IntoDone
<1>6. AreNew(xs, z, t, r, m) /\ Len(xs) = m /\ m \in Nat
  BY ONLY <1>1, <1>5, AreNew(xs, b, in.type, r, m) DEF AreNew
<1>7. LinkDone(z, i, t, r, m, d)
  <2>1. i \in 0 .. Len(z.nodes) /\ (i = 0 => z.used = 0)
    BY <1>3, <1>5
  <2> QED BY ONLY <1>1, <1>2, <1>5, <1>6, <2>1, r \in Nat, LinkedIs
<1>8. /\ Shape(d) /\ LenIs(d) /\ d.len = b.len + r /\ d.used = z.used /\ d.pc = b.pc
      /\ FrontKept(d.nodes, z.nodes, i)
      /\ \A u : CountType(d.nodes, u) = CountType(b.nodes, u) + (IF u = t THEN m ELSE 0)
  BY ONLY <1>5, <1>7 DEF LinkDone
<1>9. PosUpto(d, pos)
  <2>1. CASE i = 0
    <3>1. pos \in 0 .. 1 /\ Right(b)
      BY <2>1 DEF MayLink
    <3> QED BY ONLY <1>8, <3>1, PosBeyond
  <2>2. CASE i # 0
    <3>1. z.nodes = b.nodes /\ z.used = b.used /\ pos + z.used <= Upto(z.nodes, i)
      BY <1>5, <2>2 DEF MayLink
    <3>2. PosUpto(z, pos)
      BY ONLY <1>3, <1>5, <3>1 DEF PosUpto
    <3>3. IsBase(d) /\ d.pc = z.pc
      BY ONLY <1>5, <1>8 DEF Shape
    <3> QED BY ONLY <1>3, <1>5, <1>8, <3>1, <3>2, <3>3, PosKept
  <2> QED BY ONLY <2>1, <2>2
<1>10. CacheDone(d, g)
  BY ONLY <1>1, <1>3, <1>8, <1>9, CacheAddIs
<1>11. Right(g) /\ g.nodes = d.nodes /\ g.len = b.len + r
  BY ONLY <1>8, <1>10 DEF CacheDone
<1>12. Fits(d.nodes, Take(c, t, m))
  <2>1. d.nodes \in Seq(NodeRec)
    BY ONLY <1>8, BaseIs DEF Shape
  <2>2. \A u \in NodeTypes : CountType(d.nodes, u) = CountType(b.nodes, u) + (IF u = t THEN m ELSE 0)
    BY ONLY <1>8
  <2>3. c.spare[t] >= m
    BY <1>1
  <2> QED BY ONLY <1>2, <1>6, <2>1, <2>2, <2>3, Fits(b.nodes, c), TakeIs
<1>13. PICK s : s = LinkNodes(b, c, i, pos, in, xs)
  OBVIOUS
<1>14. s.b = g /\ s.c = Take(c, t, m) /\ s.ok = TRUE
  BY ONLY <1>1, <1>6, <1>13 DEF LinkNodes
<1>15. Sound(s) /\ s.b.len = b.len + r /\ s.ok
  BY ONLY <1>11, <1>12, <1>14 DEF Sound
<1> QED BY ONLY <1>13, <1>15

-----------------------------------------------------------------------------
(* Adding *)

(* The spare nodes that are asked for are enough for what is not merged. *)
LEMMA NodesForIs ==
  ASSUME NEW ns, NEW c, Fits(ns, c), NEW in \in Inputs, NEW k \in Nat, k <= in.len
  PROVE  LET e == NodesFor(c, in, k)
         IN  /\ Fits(ns, e.c) /\ e.ok \in BOOLEAN
             /\ e.ok /\ k < in.len =>
                  e.c.spare[in.type] >= (in.len - k + MaxOf(in.type) - 1) \div MaxOf(in.type)
<1>1. /\ in.len \in Nat /\ in.type \in NodeTypes /\ MaxOf(in.type) \in Nat /\ MaxOf(in.type) > 0
      /\ in.len > 0
  BY NodesAssumption DEF MaxOf
<1>2. PICK e, t, M, n, r : /\ e = NodesFor(c, in, k) /\ t = in.type /\ M = MaxOf(in.type)
                           /\ n = in.len /\ r = in.len - k
  OBVIOUS
<1>3. CASE t = "BUF" /\ k = n
  <2>1. e.c = c /\ e.ok = TRUE /\ ~(k < n)
    BY <1>1, <1>2, <1>3 DEF NodesFor
  <2> QED BY <1>2, <2>1
<1>4. CASE ~(t = "BUF" /\ k = n)
  <2>1. PICK q : q = (n + M - 1) \div M
    OBVIOUS
  <2>2. e = Ensure(c, t, q)
    BY <1>2, <1>4, <2>1 DEF NodesFor
  <2>3. q \in Nat
    BY ONLY <1>1, <1>2, <2>1, DivUp
  <2>4. /\ Fits(ns, e.c) /\ e.ok \in BOOLEAN /\ (e.ok => e.c.spare[t] >= q)
    BY ONLY <1>1, <1>2, <2>2, <2>3, Fits(ns, c), EnsureIs
  <2>5. e.ok /\ k < n => e.c.spare[t] >= (r + M - 1) \div M
    <3> SUFFICES ASSUME e.ok, k < n
                 PROVE  e.c.spare[t] >= (r + M - 1) \div M
      OBVIOUS
    <3>1. r \in Nat /\ n \in Nat /\ r <= n /\ r > 0 /\ M \in Nat /\ M > 0
      BY ONLY <1>1, <1>2, k < n, k \in Nat
    <3>2. PICK p : p = (r + M - 1) \div M
      OBVIOUS
    <3>3. p \in Nat /\ p <= q
      BY ONLY <2>1, <3>1, <3>2, DivUpLess
    <3>4. e.c.spare[t] \in Nat
      BY <1>1, <1>2, <2>4 DEF Fits, ConfRec
    <3>5. e.c.spare[t] >= q
      BY ONLY <2>4, e.ok
    <3> QED BY ONLY <2>3, <3>2, <3>3, <3>4, <3>5
  <2> QED BY ONLY <1>2, <2>4, <2>5
<1> QED BY ONLY <1>3, <1>4

(* An add that worked has added all, and one that failed nothing. *)
AddDone(b, in, r) == Sound(r) /\ r.b.len = IF r.ok THEN b.len + in.len ELSE b.len

(* Where data may be added: behind the node at f, which ends at pos, k     *)
(* bytes of it into that node, or in front of all.                         *)
MayAdd(b, f, pos, in, k) ==
  /\ Right(b) /\ pos \in Nat /\ b.len + in.len <= MaxLen
  /\ \/ pos = 0 /\ f.i = 0 /\ k = 0
     \/ Found(b, pos, f) /\ f.p = NLen(b.nodes[f.i]) /\ MayMerge(b, f, in, k)

LEMMA AddMergingIs ==
  ASSUME NEW s, Sound(s), NEW f, NEW pos, NEW in \in Inputs, NEW k, MayAdd(s.b, f, pos, in, k)
  PROVE  AddDone(s.b, in, AddMerging(s, f, pos, in, k))
<1>1. PICK b, c, e, r, i : /\ b = s.b /\ c = s.c /\ e = NodesFor(s.c, in, k)
                           /\ r = AddMerging(s, f, pos, in, k) /\ i = f.i
  OBVIOUS
<1>2. /\ in.len \in Nat /\ in.type \in NodeTypes /\ MaxOf(in.type) \in Nat /\ MaxOf(in.type) > 0
      /\ in.len > 0 /\ MaxLen \in Nat
  BY NodesAssumption DEF MaxOf
<1>3. Right(b) /\ Fits(b.nodes, c) /\ pos \in Nat /\ b.len + in.len <= MaxLen /\ Shape(b) /\ LenIs(b)
  BY <1>1 DEF Sound, MayAdd, Right
<1>4. k \in Nat /\ k <= in.len
  <2>1. CASE k = 0
    BY <1>2, <2>1
  <2>2. CASE MayMerge(b, f, in, k)
    BY <2>2 DEF MayMerge
  <2> QED BY <1>1, <2>1, <2>2 DEF MayAdd
<1>5. /\ Fits(b.nodes, e.c) /\ e.ok \in BOOLEAN
      /\ e.ok /\ k < in.len =>
           e.c.spare[in.type] >= (in.len - k + MaxOf(in.type) - 1) \div MaxOf(in.type)
  BY ONLY <1>1, <1>3, <1>4, in \in Inputs, NodesForIs
<1>6. b.nodes \in Seq(NodeRec) /\ Len(b.nodes) \in Nat /\ b.len \in Nat /\ Len(b.nodes) <= b.len
  BY <1>3, ShapeIs, NodesAtMost
<1>7. r = AddData(s, e, f, pos, in, k)
  BY <1>1 DEF AddMerging
<1>8. CASE ~e.ok
  <2>1. r.b = b /\ r.c = e.c /\ r.ok = FALSE
    BY ONLY <1>1, <1>7, <1>8 DEF AddData
  <2> QED BY ONLY <1>1, <1>3, <1>5, <2>1 DEF AddDone, Sound
<1>9. CASE e.ok
  <2>1. PICK d : d = Merge(b, f, in, k)
    OBVIOUS
  <2>2. /\ Shape(d) /\ LenIs(d) /\ PosUpto(d, pos) /\ d.len = b.len + k
        /\ Len(d.nodes) = Len(b.nodes) /\ \A j \in 1 .. Len(b.nodes) : d.nodes[j].id = b.nodes[j].id
        /\ \A t : CountType(d.nodes, t) = CountType(b.nodes, t)
        /\ MayLink(d, i, pos)
    <3>1. CASE pos = 0 /\ i = 0 /\ k = 0
      <4>1. d = b
        BY <2>1, <3>1 DEF Merge
      <4>2. PosUpto(b, pos)
        BY <1>3, PosStart
      <4>3. d.len = b.len + k /\ i \in 0 .. Len(b.nodes)
        BY <1>6, <3>1, <4>1
      <4> QED BY ONLY <1>3, <3>1, <4>1, <4>2, <4>3 DEF MayLink
    <3>2. CASE Found(b, pos, f) /\ f.p = NLen(b.nodes[f.i]) /\ MayMerge(b, f, in, k)
      <4>1. MergeDone(b, i, pos, k, d)
        BY ONLY <1>1, <1>3, <2>1, <3>2, in \in Inputs, MergeIs
      <4>2. /\ Shape(d) /\ LenIs(d) /\ PosUpto(d, pos) /\ d.len = b.len + k /\ d.used = b.used
            /\ Len(d.nodes) = Len(b.nodes) /\ \A j \in 1 .. Len(b.nodes) : d.nodes[j].id = b.nodes[j].id
            /\ \A t : CountType(d.nodes, t) = CountType(b.nodes, t)
            /\ pos + b.used <= Upto(d.nodes, i)
        BY ONLY <4>1 DEF MergeDone
      <4>3. i \in 0 .. Len(d.nodes) /\ i # 0
        <5>1. i \in 1 .. Len(b.nodes)
          BY ONLY <1>1, <3>2 DEF Found
        <5> QED BY ONLY <1>6, <4>2, <5>1
      <4>4. MayLink(d, i, pos)
        BY ONLY <1>3, <4>2, <4>3 DEF MayLink
      <4> QED BY ONLY <4>2, <4>4
    <3> QED BY ONLY <1>1, <3>1, <3>2, MayAdd(s.b, f, pos, in, k) DEF MayAdd
  <2>3. d.nodes \in Seq(NodeRec)
    BY <2>2, BaseIs DEF Shape
  <2>4. Fits(d.nodes, e.c)
    BY ONLY <1>5, <2>2, <2>3 DEF Fits
  <2>5. CASE k = in.len
    <3>1. r.b = CacheAdd(d, pos) /\ r.c = e.c /\ r.ok = TRUE
      BY ONLY <1>1, <1>7, <1>9, <2>1, <2>5 DEF AddData
    <3>2. CacheDone(d, r.b)
      BY ONLY <1>3, <2>2, <3>1, CacheAddIs
    <3> QED BY ONLY <1>1, <2>2, <2>4, <2>5, <3>1, <3>2 DEF AddDone, Sound, CacheDone
  <2>6. CASE k # in.len
    <3>1. k < in.len
      BY ONLY <1>2, <1>4, <2>6
    <3>2. PICK xs, m, o : /\ xs = NewNodes(b, in, k) /\ o = in.len - k
                          /\ m = (in.len - k + MaxOf(in.type) - 1) \div MaxOf(in.type)
      OBVIOUS
    <3>3. Len(b.nodes) + in.len <= 2 * MaxLen
      BY ONLY <1>2, <1>3, <1>6
    <3>4. AreNew(xs, b, in.type, o, m)
      BY ONLY <1>4, <1>6, <3>1, <3>2, <3>3, in \in Inputs, NewNodesIs
    <3>5. AreNew(xs, d, in.type, o, m)
      BY ONLY <2>2, <3>4 DEF AreNew
    <3>6. o \in Nat /\ e.c.spare[in.type] >= m
      BY ONLY <1>2, <1>4, <1>5, <1>9, <3>1, <3>2
    <3>7. r = LinkNodes(d, e.c, i, pos, in, xs)
      BY ONLY <1>1, <1>7, <1>9, <2>1, <2>6, <3>2 DEF AddData
    <3>a. PICK h : h = e.c
      OBVIOUS
    <3>b. /\ MayLink(d, i, pos) /\ Fits(d.nodes, h) /\ h.spare[in.type] >= m /\ o \in Nat
          /\ r = LinkNodes(d, h, i, pos, in, xs)
      BY ONLY <2>2, <2>4, <3>6, <3>7, <3>a
    <3>8. Sound(r) /\ r.b.len = d.len + o /\ r.ok
      BY ONLY <3>5, <3>b, in \in Inputs, LinkNodesIs
    <3>9. r.b.len = b.len + in.len
      BY ONLY <1>2, <1>4, <1>6, <2>2, <3>2, <3>8
    <3> QED BY ONLY <1>1, <3>8, <3>9 DEF AddDone
  <2> QED BY ONLY <2>5, <2>6
<1> QED BY ONLY <1>1, <1>5, <1>8, <1>9

(* vstr_add_buf(), vstr_add_ptr(), vstr_add_non() and vstr_add_ref() *)
LEMMA AddIs ==
  ASSUME NEW b, NEW c, Right(b), Fits(b.nodes, c), NEW pos \in 0 .. b.len, NEW in \in Inputs,
         b.len + in.len <= MaxLen
  PROVE  AddDone(b, in, AddOp(b, c, pos, in))
<1>1. PICK r : r = AddOp(b, c, pos, in)
  OBVIOUS
<1>2. b.len \in Nat /\ in.len \in Nat /\ MaxLen \in Nat
  BY ShapeIs, NodesAssumption DEF Right
<1>3. CASE pos = 0
  <2>1. PICK s, f : s = [b |-> b, c |-> c, ok |-> TRUE] /\ f = Nowhere
    OBVIOUS
  <2>2. s.b = b /\ s.c = c /\ s.ok = TRUE /\ f.i = 0
    BY <2>1 DEF Nowhere
  <2>3. r = AddMerging(s, f, pos, in, 0)
    BY <1>1, <1>3, <2>1 DEF AddOp
  <2>4. Sound(s)
    BY <2>2 DEF Sound
  <2>5. PICK k : k = 0
    OBVIOUS
  <2>6. MayAdd(s.b, f, pos, in, k)
    BY <1>3, <2>2, <2>5 DEF MayAdd
  <2>7. AddDone(s.b, in, AddMerging(s, f, pos, in, k))
    BY ONLY <2>4, <2>6, in \in Inputs, AddMergingIs
  <2> QED BY ONLY <1>1, <2>2, <2>3, <2>5, <2>7
<1>4. CASE pos # 0
  <2>1. PICK f, s : f = BasePos(b, pos) /\ s = SetupPos(b, c, pos, f)
    OBVIOUS
  <2>2. pos \in 1 .. b.len /\ pos > 0 /\ pos \in Nat /\ b.len <= MaxLen
    BY <1>2, <1>4
  <2>3. Found(b, pos, f)
    BY ONLY <2>1, <2>2, Right(b), BasePosIs
  <2>4. SetupDone(b, pos, f, s)
    BY ONLY <2>1, <2>2, <2>3, Right(b), Fits(b.nodes, c), SetupPosIs
  <2>5. /\ Sound(s) /\ s.b.len = b.len /\ Right(s.b) /\ s.ok \in BOOLEAN
        /\ s.ok => Found(s.b, pos, f) /\ f.p = NLen(s.b.nodes[f.i])
    BY ONLY <2>4 DEF SetupDone, Sound
  <2>6. r = AddAfter(s, f, pos, in)
    BY ONLY <1>1, <2>1, <2>2 DEF AddOp, AddFound
  <2>7. CASE ~s.ok
    <3>1. r = s
      BY ONLY <2>6, <2>7 DEF AddAfter
    <3>2. AddDone(b, in, r)
      BY ONLY <2>5, <2>7, <3>1 DEF AddDone
    <3> QED BY ONLY <1>1, <3>2
  <2>8. CASE s.ok
    <3>1. PICK n, k : n = s.b.nodes[f.i] /\ k = MergeLen(s.b.nodes[f.i], in)
      OBVIOUS
    <3>2. r = AddMerging(s, f, pos, in, k)
      BY ONLY <2>6, <2>8, <3>1 DEF AddAfter
    <3>3. n \in NodeRec
      <4>1. s.b.nodes \in Seq(NodeRec)
        BY <2>5, ShapeIs DEF Right
      <4>2. f.i \in 1 .. Len(s.b.nodes)
        BY <2>5, <2>8 DEF Found
      <4> QED BY <3>1, <4>1, <4>2, NodeIs
    <3>4. k \in Nat /\ k <= in.len /\ (k > 0 => n.type = in.type /\ NLen(n) + k <= MaxOf(in.type))
      BY ONLY <3>1, <3>3, in \in Inputs, MergeLenIs
    <3>5. MayAdd(s.b, f, pos, in, k)
      BY <2>2, <2>5, <2>8, <3>1, <3>4 DEF MayAdd, MayMerge
    <3>6. AddDone(s.b, in, r)
      BY ONLY <2>5, <3>2, <3>5, in \in Inputs, AddMergingIs
    <3>7. AddDone(b, in, r)
      BY ONLY <2>5, <3>6 DEF AddDone
    <3> QED BY ONLY <1>1, <3>7
  <2> QED BY ONLY <2>5, <2>7, <2>8
<1> QED BY ONLY <1>3, <1>4

-----------------------------------------------------------------------------
(* Deleting.  The length of a string is set at another time than its       *)
(* nodes.                                                                  *)

Like(b, d) ==
  /\ IsBase(d) /\ d.nodes = b.nodes /\ d.used = b.used /\ d.num = b.num /\ d.end = b.end
  /\ d.types = b.types /\ d.pc = b.pc

(* Nothing else of a string depends on it. *)
LEMMA LikeShape ==
  ASSUME NEW b, NEW d, Shape(b), Like(b, d)
  PROVE  Shape(d) /\ LenAs(d) = LenAs(b) /\ (d.len = LenAs(b) => LenIs(d))
BY DEF Like, Shape, LenAs, LenIs

(* Setting it. *)
LEMMA LikeLen ==
  ASSUME NEW b, IsBase(b), NEW m \in Nat
  PROVE  Like(b, [b EXCEPT !.len = m]) /\ [b EXCEPT !.len = m].len = m
BY DEF Like, IsBase, BaseRec

(* A string of a given length. *)
LEMMA LenAsIs ==
  ASSUME NEW b, Shape(b)
  PROVE  LenAs(b) \in Int /\ (LenIs(b) <=> b.len = LenAs(b))
<1>1. b.nodes \in Seq(NodeRec) /\ Len(b.nodes) \in Nat /\ b.used \in Nat
  BY BaseIs, NodeIs DEF Shape
<1>2. Upto(b.nodes, Len(b.nodes)) \in Nat
  BY <1>1, UptoIs
<1> QED BY <1>1, <1>2 DEF LenAs, LenIs

(* A node gets other data, and the string a length. *)
DataDone(g, b, i, len, m) ==
  /\ IsBase(g) /\ Altered(g.nodes, b.nodes, i, len) /\ g.len = m
  /\ g.used = b.used /\ g.types = b.types /\ g.num = b.num /\ g.end = b.end /\ g.pc = b.pc

LEMMA DataSet ==
  ASSUME NEW b, IsBase(b), NEW i \in 1 .. Len(b.nodes), NEW x \in Seq(Byte), NEW m \in Nat
  PROVE  /\ DataDone([b EXCEPT !.nodes[i].data = x, !.len = m], b, i, Len(x), m)
         /\ DataDone([b EXCEPT !.nodes[i].data = x], b, i, Len(x), b.len)
<1> DEFINE ms == [b.nodes EXCEPT ![i].data = x]
           d == [b EXCEPT !.nodes = ms, !.len = m]
           e == [b EXCEPT !.nodes = ms]
<1>1. b.nodes \in Seq(NodeRec)
  BY BaseIs
<1>2. [b EXCEPT !.nodes[i].data = x, !.len = m] = d /\ [b EXCEPT !.nodes[i].data = x] = e
  OBVIOUS
<1>3. Altered(ms, b.nodes, i, Len(x))
  BY <1>1, AlteredIs
<1> HIDE DEF ms
<1>4. ms \in Seq(NodeRec)
  BY ONLY <1>3 DEF Altered
<1>5. /\ IsBase(d) /\ d.nodes = ms /\ d.used = b.used /\ d.len = m /\ d.num = b.num
      /\ d.end = b.end /\ d.types = b.types /\ d.pc = b.pc
  BY <1>4 DEF IsBase, BaseRec
<1>6. /\ IsBase(e) /\ e.nodes = ms /\ e.used = b.used /\ e.len = b.len /\ e.num = b.num
      /\ e.end = b.end /\ e.types = b.types /\ e.pc = b.pc
  BY <1>4 DEF IsBase, BaseRec
<1> HIDE DEF d, e
<1>7. DataDone(d, b, i, Len(x), m) /\ DataDone(e, b, i, Len(x), b.len)
  BY ONLY <1>3, <1>5, <1>6 DEF DataDone
<1> QED BY ONLY <1>2, <1>7

(* Such a string has the nodes it had. *)
LEMMA DataIs ==
  ASSUME NEW g, NEW b, NEW i, NEW len, NEW m, DataDone(g, b, i, len, m), Shape(b),
         0 < len, len <= NLen(b.nodes[i]), i = 1 => b.used < len
  PROVE  AlterDone(g, b, i, len)
<1>1. i \in 1 .. Len(b.nodes) /\ b.nodes \in Seq(NodeRec) /\ len \in Nat
  BY DEF DataDone, Altered
<1>2. NLen(b.nodes[i]) \in Nat /\ MaxOf(b.nodes[i].type) \in Nat
  BY <1>1, NodeIs, NodesAssumption DEF MaxOf
<1>3. NLen(b.nodes[i]) <= MaxOf(b.nodes[i].type)
  BY <1>1, <1>2 DEF Shape, Good
<1>4. len <= MaxOf(b.nodes[i].type)
  BY ONLY <1>1, <1>2, <1>3, len <= NLen(b.nodes[i])
<1>5. AlterLike(g, b, i, len)
  BY <1>4 DEF AlterLike, DataDone
<1> QED BY ONLY <1>5, AlterLikeIs

(* The first rem bytes of a string are in its first node, and go. *)
DropDone(z, b, rem) ==
  /\ Shape(z) /\ LenAs(z) = LenAs(b) - rem /\ z.pc = b.pc
  /\ \A t : CountType(z.nodes, t) = CountType(b.nodes, t)

LEMMA DropBytesIs ==
  ASSUME NEW b, Shape(b), Len(b.nodes) > 0, NEW rem \in Nat, b.used + rem < NLen(b.nodes[1])
  PROVE  DropDone(DropBytes(b, rem), b, rem)
<1>1. PICK n, o, z : n = b.nodes[1] /\ o = 1 /\ z = DropBytes(b, rem)
  OBVIOUS
<1>2. /\ b.nodes \in Seq(NodeRec) /\ Len(b.nodes) \in Nat /\ b.used \in Nat /\ b.len \in Nat
      /\ o \in 1 .. Len(b.nodes) /\ IsBase(b)
  BY <1>1, BaseIs, NodeIs DEF Shape
<1>3. NLen(n) \in Nat /\ n.data \in Seq(Byte) /\ LenAs(b) \in Int /\ n = b.nodes[o]
  BY <1>1, <1>2, NodeIs, LenAsIs
<1>4. CASE rem = 0
  <2>1. z = b
    BY <1>1, <1>4 DEF DropBytes
  <2>2. LenAs(b) = LenAs(b) - rem
    BY ONLY <1>3, <1>4
  <2>3. DropDone(z, b, rem)
    BY <2>1, <2>2 DEF DropDone
  <2> QED BY <1>1, <2>3
<1>5. CASE rem > 0
  <2>1. PICK g : g = DropFront(b, 1, rem, TRUE)
    OBVIOUS
  <2>2. z = IovecDropFront(g, 1, rem)
    BY <1>1, <1>5, <2>1 DEF DropBytes
  <2>3. DropDone(g, b, rem)
    <3>1. CASE n.type = "BUF"
      <4>1. g = [b EXCEPT !.used = b.used + rem]
        BY <1>1, <2>1, <3>1 DEF DropFront
      <4>2. b.used + rem \in Nat
        BY <1>2
      <4>3. /\ IsBase(g) /\ g.nodes = b.nodes /\ g.used = b.used + rem /\ g.num = b.num
            /\ g.end = b.end /\ g.types = b.types /\ g.pc = b.pc
        BY <1>2, <4>1, <4>2 DEF IsBase, BaseRec
      <4>4. UsedIn(g.nodes, g.used)
        <5>1. b.nodes # <<>>
          BY <1>2
        <5> QED BY <1>1, <3>1, <4>3, <5>1 DEF UsedIn
      <4>5. Shape(g)
        BY <4>3, <4>4 DEF Shape
      <4>6. LenAs(g) = LenAs(b) - rem
        <5>1. PICK y : y = Upto(b.nodes, Len(b.nodes))
          OBVIOUS
        <5>2. y \in Nat
          BY <1>2, <5>1, UptoIs
        <5>3. LenAs(g) = y - (b.used + rem) /\ LenAs(b) = y - b.used
          BY ONLY <4>3, <5>1 DEF LenAs
        <5> QED BY ONLY <1>2, <5>2, <5>3, rem \in Nat
      <4> QED BY ONLY <4>3, <4>5, <4>6 DEF DropDone
    <3>2. CASE n.type # "BUF"
      <4>1. b.used = 0
        BY <1>1, <1>2, <3>2 DEF Shape, UsedIn
      <4>2. PICK s, l, x : s = n.data /\ l = NLen(n) /\ x = SubSeq(s, rem + 1, l)
        OBVIOUS
      <4>3. s \in Seq(Byte) /\ l \in Nat /\ rem <= l /\ rem < l /\ l <= Len(s) /\ l = Len(s)
        BY <1>1, <1>3, <4>1, <4>2 DEF NLen
      <4>4. x \in Seq(Byte) /\ Len(x) = l - rem
        BY ONLY <4>2, <4>3, rem \in Nat, PartIs
      <4>5. g = [b EXCEPT !.nodes[o].data = x]
        BY ONLY <1>1, <2>1, <3>2, <4>2, <4>3 DEF DropFront
      <4>6. DataDone([b EXCEPT !.nodes[o].data = x], b, o, Len(x), b.len)
        BY ONLY <1>2, <4>4, DataSet
      <4>7. /\ 0 < Len(x) /\ Len(x) <= NLen(b.nodes[o]) /\ (o = 1 => b.used < Len(x))
        <5>1. NLen(b.nodes[o]) = l
          BY ONLY <1>3, <4>2
        <5> QED BY ONLY <4>1, <4>3, <4>4, <5>1, rem \in Nat
      <4>8. AlterDone(g, b, o, Len(x)) /\ g.pc = b.pc
        <5>1. DataDone(g, b, o, Len(x), b.len)
          BY ONLY <4>5, <4>6
        <5>2. AlterDone(g, b, o, Len(x))
          BY ONLY <4>7, <5>1, Shape(b), DataIs
        <5> QED BY ONLY <5>1, <5>2 DEF DataDone
      <4>9. LenAs(g) = LenAs(b) - rem
        <5>1. LenAs(g) = LenAs(b) + (Len(x) - NLen(b.nodes[o]))
          BY ONLY <4>8 DEF AlterDone
        <5>2. LenAs(g) = LenAs(b) + ((l - rem) - l)
          BY ONLY <1>3, <4>2, <4>4, <5>1
        <5> QED BY ONLY <1>3, <4>3, <5>2, rem \in Nat
      <4> QED BY ONLY <4>8, <4>9 DEF DropDone, AlterDone
    <3> QED BY ONLY <3>1, <3>2
  <2>4. Same(g, z)
    <3>1. IsBase(g)
      BY <2>3 DEF DropDone, Shape
    <3> QED BY ONLY <2>2, <3>1, IovecEntriesSame
  <2>5. Like(g, z)
    BY ONLY <2>4 DEF Same, Like
  <2>6. Shape(g)
    BY ONLY <2>3 DEF DropDone
  <2>7. Shape(z) /\ LenAs(z) = LenAs(g)
    BY ONLY <2>5, <2>6, LikeShape
  <2>8. DropDone(z, b, rem)
    BY ONLY <2>3, <2>5, <2>7 DEF DropDone, Like
  <2> QED BY ONLY <1>1, <2>8
<1> QED BY ONLY <1>4, <1>5, rem \in Nat

(* A delete that worked has deleted len bytes, and one that failed none. *)
DelDone(b, len, r) == Sound(r) /\ r.b.len = IF r.ok THEN b.len - len ELSE b.len

(* Where data may be deleted. *)
MayDel(b, c, pos, len) ==
  /\ Right(b) /\ Fits(b.nodes, c) /\ b.len <= MaxLen
  /\ pos \in 1 .. b.len /\ len \in 1 .. b.len - pos + 1

LEMMA MayDelIs ==
  ASSUME NEW b, NEW c, NEW pos, NEW len, MayDel(b, c, pos, len)
  PROVE  /\ Shape(b) /\ LenIs(b) /\ IsBase(b) /\ b.len \in Nat /\ b.used \in Nat /\ b.len = LenAs(b)
         /\ pos \in Nat /\ 0 < pos /\ len \in Nat /\ 0 < len /\ pos + len <= b.len + 1
         /\ b.len - len \in Nat /\ b.nodes \in Seq(NodeRec) /\ Len(b.nodes) \in Nat /\ Len(b.nodes) > 0
         /\ b.num = Len(b.nodes)
<1>1. /\ Shape(b) /\ LenIs(b) /\ IsBase(b) /\ pos \in 1 .. b.len /\ len \in 1 .. b.len - pos + 1
  BY DEF MayDel, Right, Shape
<1>2. /\ b.nodes \in Seq(NodeRec) /\ Len(b.nodes) \in Nat /\ b.used \in Nat /\ b.len \in Nat
      /\ b.num = Len(b.nodes) /\ (b.len > 0 => Len(b.nodes) > 0)
  BY <1>1, ShapeIs
<1>3. /\ pos \in Nat /\ 0 < pos /\ len \in Nat /\ 0 < len /\ pos + len <= b.len + 1
      /\ b.len - len \in Nat /\ b.len > 0
  BY ONLY <1>1, <1>2
<1> QED BY ONLY <1>1, <1>2, <1>3, LenAsIs

(* The end of a delete: the nodes that stay are a string of the length     *)
(* that is left, and the position cache was right as far as it is kept.    *)
LEMMA DelEnds ==
  ASSUME NEW b, NEW c, NEW pos, NEW len, MayDel(b, c, pos, len), NEW d, NEW g, NEW h,
         Shape(d), d.len = b.len - len, LenAs(d) = b.len - len, Fits(d.nodes, h),
         \/ g = [d EXCEPT !.pc = NoPos]
         \/ PosUpto(d, pos - 1) /\ g = CacheDel(d, pos)
  PROVE  DelDone(b, len, [b |-> g, c |-> h, ok |-> TRUE])
<1>1. LenIs(d) /\ pos \in Nat
  <2>1. pos \in Nat
    BY MayDelIs
  <2> QED BY <2>1, LenAsIs
<1>2. CacheDone(d, g)
  <2>1. CASE g = [d EXCEPT !.pc = NoPos]
    BY <1>1, <2>1, PosReset DEF CacheDone
  <2>2. CASE PosUpto(d, pos - 1) /\ g = CacheDel(d, pos)
    BY <1>1, <2>2, CacheDelIs
  <2> QED BY <2>1, <2>2
<1>3. PICK r : r = [b |-> g, c |-> h, ok |-> TRUE]
  OBVIOUS
<1>4. r.b = g /\ r.c = h /\ r.ok = TRUE
  BY <1>3
<1>5. DelDone(b, len, r)
  BY <1>2, <1>4 DEF DelDone, Sound, CacheDone
<1> QED BY ONLY <1>3, <1>5

(* The nodes are those that were there. *)
LEMMA FitsAlike ==
  ASSUME NEW ns, NEW ms, NEW c, Fits(ns, c), ms \in Seq(NodeRec),
         \A t : CountType(ms, t) = CountType(ns, t)
  PROVE  Fits(ms, c)
BY DEF Fits

(* The inline case of a delete in the first node. *)
LEMMA InlineBegIs ==
  ASSUME NEW b, NEW c, NEW pos, NEW len, MayDel(b, c, pos, len), InlineBeg(b, pos, len)
  PROVE  DelDone(b, len,
           [b |-> [IovecDropFront(DropFront(b, 1, len, TRUE), 1, len)
                     EXCEPT !.len = @ - len, !.pc = NoPos],
            c |-> c, ok |-> TRUE])
<1>1. /\ Shape(b) /\ b.len = LenAs(b) /\ len \in Nat /\ 0 < len /\ b.len - len \in Nat /\ b.used \in Nat
      /\ Len(b.nodes) > 0
  BY MayDelIs
<1>2. PICK z, m : z = DropBytes(b, len) /\ m = b.len - len
  OBVIOUS
<1>3. z = IovecDropFront(DropFront(b, 1, len, TRUE), 1, len)
  BY <1>1, <1>2 DEF DropBytes
<1>4. DropDone(z, b, len)
  <2>1. b.used + len < NLen(b.nodes[1])
    <3>1. len + b.used < NLen(b.nodes[1]) /\ len + b.used = b.used + len
      BY <1>1 DEF InlineBeg
    <3> QED BY ONLY <3>1
  <2> QED BY ONLY <1>1, <1>2, <2>1, DropBytesIs
<1>5. /\ Shape(z) /\ IsBase(z) /\ LenAs(z) = m /\ \A t : CountType(z.nodes, t) = CountType(b.nodes, t)
  BY ONLY <1>1, <1>2, <1>4 DEF DropDone, Shape
<1>6. z.len = b.len
  <2>1. PICK g : g = DropFront(b, 1, len, TRUE)
    OBVIOUS
  <2>2. g.len = b.len
    BY <1>1, <2>1 DEF DropFront, Shape, IsBase, BaseRec
  <2>3. (IovecDropFront(g, 1, len)).len = g.len
    BY DEF IovecDropFront
  <2> QED BY ONLY <1>3, <2>1, <2>2, <2>3
<1>7. PICK d : d = [z EXCEPT !.len = m]
  OBVIOUS
<1>8. Like(z, d) /\ d.len = m
  BY ONLY <1>1, <1>2, <1>5, <1>7, LikeLen
<1>9. Shape(d) /\ LenAs(d) = m
  BY ONLY <1>5, <1>8, LikeShape
<1>10. [z EXCEPT !.len = @ - len, !.pc = NoPos] = [d EXCEPT !.pc = NoPos]
  BY ONLY <1>2, <1>6, <1>7
<1>11. Fits(d.nodes, c)
  <2>1. Fits(b.nodes, c) /\ d.nodes = z.nodes /\ z.nodes \in Seq(NodeRec)
    BY <1>5, <1>8, BaseIs DEF MayDel, Like
  <2> QED BY ONLY <1>5, <2>1, FitsAlike
<1>12. PICK g : g = [d EXCEPT !.pc = NoPos]
  OBVIOUS
<1>13. DelDone(b, len, [b |-> g, c |-> c, ok |-> TRUE])
  BY ONLY <1>2, <1>8, <1>9, <1>11, <1>12, MayDel(b, c, pos, len), DelEnds
<1> QED BY ONLY <1>3, <1>10, <1>12, <1>13

(* And in the last. *)
LEMMA InlineEndIs ==
  ASSUME NEW b, NEW c, NEW pos, NEW len, MayDel(b, c, pos, len), InlineEnd(b, pos, len)
  PROVE  DelDone(b, len,
           [b |-> [IovecLenAdd(b, b.num, -len) EXCEPT
                     !.nodes[b.num].data = SubSeq(@, 1, Len(@) - len),
                     !.len = @ - len, !.pc = NoPos],
            c |-> c, ok |-> TRUE])
<1>1. /\ Shape(b) /\ LenIs(b) /\ IsBase(b) /\ b.len = LenAs(b) /\ len \in Nat /\ 0 < len
      /\ b.len - len \in Nat /\ b.used \in Nat /\ b.len \in Nat
      /\ Len(b.nodes) > 0 /\ Len(b.nodes) \in Nat /\ b.num = Len(b.nodes) /\ pos \in Nat
      /\ b.nodes \in Seq(NodeRec)
  BY MayDelIs
<1>2. PICK i, n, l, m, e : /\ i = b.num /\ n = b.nodes[i] /\ l = NLen(n) /\ m = b.len - len
                           /\ e = IovecLenAdd(b, b.num, -len)
  OBVIOUS
<1>3. i \in 1 .. Len(b.nodes) /\ l \in Nat /\ n.data \in Seq(Byte) /\ l = Len(n.data)
  BY <1>1, <1>2, NodeIs DEF NLen
<1>4. len < l /\ (i = 1 => b.used = 0)
  <2>1. PICK u : u = IF i = 1 THEN b.used ELSE 0
    OBVIOUS
  <2>2. /\ b.len - ((l + u) - 1) >= 0 /\ pos > b.len - ((l + u) - 1) /\ len = b.len - pos + 1
    BY <1>2, <2>1 DEF InlineEnd
  <2>3. u \in Nat
    BY <1>1, <2>1
  <2>4. i = 1 => b.len = l - b.used
    <3> HAVE i = 1
    <3>1. PICK o : o = 1
      OBVIOUS
    <3>2. o \in 1 .. Len(b.nodes) /\ o - 1 = 0 /\ i = o
      BY <1>1, <3>1
    <3>3. Upto(b.nodes, 0) = 0 /\ Upto(b.nodes, o) = Upto(b.nodes, o - 1) + NLen(b.nodes[o])
      BY ONLY <1>1, <3>2, UptoIs
    <3>4. b.len = Upto(b.nodes, o) - b.used
      <4>1. Len(b.nodes) = o
        BY ONLY <1>1, <1>2, <3>2
      <4> QED BY ONLY <1>1, <4>1 DEF LenAs
    <3>5. NLen(b.nodes[o]) = l
      BY ONLY <1>2, <3>2
    <3>6. Upto(b.nodes, o) = 0 + l
      BY ONLY <3>2, <3>3, <3>5
    <3> QED BY ONLY <1>3, <3>4, <3>6
  <2>5. i = 1 => u = 0
    <3> HAVE i = 1
    <3>1. u = b.used /\ b.len = l - b.used /\ b.len - ((l + u) - 1) >= 0
      BY ONLY <2>1, <2>2, <2>4, i = 1
    <3>2. l \in Nat /\ b.used \in Nat
      BY <1>1, <1>3
    <3> QED BY ONLY <3>1, <3>2
  <2>6. u = 0
    BY ONLY <2>1, <2>5
  <2> QED BY ONLY <1>1, <1>3, <2>1, <2>2, <2>6
<1>5. PICK x : x = SubSeq(n.data, 1, l - len)
  OBVIOUS
<1>6. x \in Seq(Byte) /\ Len(x) = l - len
  <2>1. PICK s, y, q : s = n.data /\ y = 1 /\ q = l - len
    OBVIOUS
  <2>2. s \in Seq(Byte) /\ y \in Nat /\ q \in Nat /\ 1 <= y /\ y <= q + 1 /\ q <= Len(s) /\ q - y + 1 = q
    BY ONLY <1>1, <1>3, <1>4, <2>1
  <2>3. SubSeq(s, y, q) \in Seq(Byte) /\ Len(SubSeq(s, y, q)) = q - y + 1
    BY ONLY <2>2, SubSeqIs
  <2> QED BY ONLY <1>5, <2>1, <2>2, <2>3
<1>7. Same(b, e) /\ e.len = b.len /\ e.nodes = b.nodes /\ IsBase(e)
  <2>1. Same(b, e)
    BY <1>1, <1>2, IovecEntriesSame
  <2> QED BY ONLY <2>1 DEF Same
<1>8. PICK d, g : d = [e EXCEPT !.nodes[i].data = x, !.len = m] /\ g = [d EXCEPT !.pc = NoPos]
  OBVIOUS
<1>9. AlterBase(d, b, i, Len(x))
  <2>1. 0 < Len(x) /\ Len(x) <= MaxOf(b.nodes[i].type)
    <3>1. l <= MaxOf(b.nodes[i].type) /\ MaxOf(b.nodes[i].type) \in Nat
      BY <1>1, <1>2, <1>3, ShapeIs, NodesAssumption DEF MaxOf
    <3> QED BY ONLY <1>1, <1>3, <1>4, <1>6, <3>1
  <2>2. i = 1 => b.used < Len(x)
    BY ONLY <1>1, <1>3, <1>4, <1>6
  <2>3. m \in Nat /\ m = b.len + (Len(x) - NLen(b.nodes[i]))
    BY ONLY <1>1, <1>2, <1>3, <1>6
  <2> QED BY ONLY <1>1, <1>3, <1>6, <1>7, <1>8, <2>1, <2>2, <2>3, AlterIs
<1>10. Shape(d) /\ LenIs(d)
  BY ONLY <1>9, AlterShape
<1>11. d.len = m /\ LenAs(d) = m /\ Altered(d.nodes, b.nodes, i, Len(x))
  <2>1. d.len = m
    BY ONLY <1>7, <1>8 DEF IsBase, BaseRec
  <2> QED BY ONLY <1>9, <1>10, <2>1, LenAsIs DEF AlterBase, AlterLike
<1>12. Fits(d.nodes, c)
  <2>1. \A t : CountType(d.nodes, t) = CountType(b.nodes, t)
    BY ONLY <1>11, AlteredCount
  <2>2. Fits(b.nodes, c) /\ d.nodes \in Seq(NodeRec)
    BY <1>11 DEF MayDel, Altered
  <2> QED BY ONLY <2>1, <2>2, FitsAlike
<1>13. DelDone(b, len, [b |-> g, c |-> c, ok |-> TRUE])
  BY ONLY <1>2, <1>8, <1>10, <1>11, <1>12, MayDel(b, c, pos, len), DelEnds
<1>14. g = [e EXCEPT !.nodes[i].data = SubSeq(@, 1, Len(@) - len), !.len = @ - len, !.pc = NoPos]
  BY ONLY <1>2, <1>3, <1>5, <1>7, <1>8
<1> QED BY ONLY <1>2, <1>13, <1>14

(* vstr__del_all() *)
LEMMA DelAllIs ==
  ASSUME NEW b, NEW c, NEW pos, NEW len, MayDel(b, c, pos, len), len = b.len
  PROVE  DelDone(b, len, DelAll(b, c))
<1>1. PICK a, d, r : /\ a = [b EXCEPT !.nodes = <<>>, !.len = 0, !.num = 0, !.used = 0,
                                      !.end = 0, !.types = {}, !.pc = NoPos]
                     /\ d = IovecReset(a) /\ r = DelAll(b, c)
  OBVIOUS
<1>2. r.b = d /\ r.c = Relink(c, b.nodes) /\ r.ok = TRUE
  BY <1>1 DEF DelAll
<1>3. IsBase(b) /\ b.nodes \in Seq(NodeRec) /\ b.len \in Nat /\ Fits(b.nodes, c)
  BY MayDelIs DEF MayDel
<1>4. PICK e : e = <<>>
  OBVIOUS
<1>5. e \in Seq(NodeRec) /\ Len(e) = 0 /\ Upto(e, 0) = 0 /\ \A t : CountType(e, t) = 0
  BY <1>4, EmptyIs
<1>6. NoPos \in PosRec /\ NoPos.node = 0
  BY DEF NoPos, PosRec
<1>7. /\ IsBase(a) /\ a.nodes = e /\ a.len = 0 /\ a.num = 0 /\ a.used = 0 /\ a.end = 0 /\ a.types = {}
      /\ a.pc = NoPos
  <2>1. {} \in SUBSET NodeTypes /\ 0 \in Nat
    OBVIOUS
  <2>2. a = [b EXCEPT !.nodes = e, !.len = 0, !.num = 0, !.used = 0, !.end = 0, !.types = {}, !.pc = NoPos]
    BY <1>1, <1>4
  <2> QED BY ONLY <1>3, <1>5, <1>6, <2>1, <2>2 DEF IsBase, BaseRec
<1>8. Right(a)
  <2>1. Good(e, {}) /\ EndOf(e) = 0 /\ UsedIn(e, 0)
    BY <1>4, <1>5 DEF Good, EndOf, UsedIn
  <2>2. Shape(a)
    BY ONLY <1>5, <1>7, <2>1 DEF Shape
  <2>3. LenIs(a)
    BY ONLY <1>5, <1>7 DEF LenIs
  <2> QED BY <1>6, <1>7, <2>2, <2>3 DEF Right, PosCacheOf
<1>9. Same(a, d)
  <2>1. PICK xs : xs = e
    OBVIOUS
  <2>2. Len(xs) \in Nat /\ TRUE \in BOOLEAN /\ 0 \in Nat
    BY <1>5, <2>1
  <2>3. Same(a, IovecReset(a))
    BY ONLY <1>7, <2>2, IovecSame
  <2> QED BY ONLY <1>1, <2>3
<1>10. Right(d) /\ d.nodes = e /\ d.len = 0
  <2>1. Right(d)
    BY ONLY <1>8, <1>9, SameRight
  <2> QED BY ONLY <1>7, <1>9, <2>1 DEF Same
<1>11. Fits(e, Relink(c, b.nodes))
  <2>1. PICK xs : xs = b.nodes
    OBVIOUS
  <2>2. \A u \in NodeTypes : CountType(e, u) + CountType(xs, u) = CountType(xs, u)
    BY <1>3, <1>5, <2>1, CountIs
  <2>3. Fits(xs, c) /\ xs \in Seq(NodeRec)
    BY <1>3, <2>1
  <2> QED BY ONLY <1>5, <2>1, <2>2, <2>3, RelinkIs
<1>12. r.b.len = b.len - len
  BY <1>2, <1>3, <1>10
<1> QED BY ONLY <1>1, <1>2, <1>10, <1>11, <1>12 DEF DelDone, Sound

(* Nodes i + 1 .. j go. *)
Removed(ms, ns, i, j) ==
  /\ ms \in Seq(NodeRec) /\ ns \in Seq(NodeRec) /\ i \in Nat /\ j \in Nat /\ i <= j /\ j <= Len(ns)
  /\ Len(ms) = i + (Len(ns) - j)
  /\ \A k \in 1 .. i : ms[k] = ns[k]
  /\ \A k \in 1 .. Len(ns) - j : ms[i + k] = ns[j + k]

RemoveDone(ms, ns, i, j, types) ==
  /\ Good(ms, types) /\ Upto(ms, Len(ms)) = Upto(ns, i) + (Upto(ns, Len(ns)) - Upto(ns, j))
  /\ \A k \in 0 .. i : Upto(ms, k) = Upto(ns, k)
  /\ \A t : CountType(ms, t) + CountType(SubSeq(ns, i + 1, j), t) = CountType(ns, t)

LEMMA RemoveIs ==
  ASSUME NEW ms, NEW ns, NEW i, NEW j, Removed(ms, ns, i, j), NEW types, Good(ns, types)
  PROVE  RemoveDone(ms, ns, i, j, types)
<1>1. PICK e, L, none : e = <<>> /\ L = Len(ns) /\ none = {}
  OBVIOUS
<1>2. e \in Seq(NodeRec) /\ Len(e) = 0 /\ Upto(e, 0) = 0 /\ \A t : CountType(e, t) = 0
  BY <1>1, EmptyIs
<1>3. /\ ms \in Seq(NodeRec) /\ ns \in Seq(NodeRec) /\ i \in Nat /\ j \in Nat /\ i <= j /\ j <= L
      /\ L \in Nat /\ Len(ms) = i + (L - j)
      /\ \A k \in 1 .. i : ms[k] = ns[k]
      /\ \A k \in 1 .. L - j : ms[i + k] = ns[j + k]
  BY <1>1, NodeIs DEF Removed
<1>4. IsSwap(ms, ns, i, j, e)
  <2>1. Len(ms) = i + Len(e) + (L - j) /\ i + Len(e) = i
    BY ONLY <1>2, <1>3
  <2>2. \A k \in 1 .. Len(e) : ms[i + k] = e[k]
    BY ONLY <1>2
  <2>3. \A k \in 1 .. L - j : ms[i + Len(e) + k] = ns[j + k]
    BY ONLY <1>3, <2>1
  <2> QED BY ONLY <1>1, <1>2, <1>3, <2>1, <2>2, <2>3 DEF IsSwap
<1>5. Good(ms, types)
  <2>1. Good(e, none) /\ Apart(ns, i, j, e)
    BY ONLY <1>2 DEF Good, Apart
  <2>2. Good(ms, types \cup none)
    BY ONLY <1>4, <2>1, Good(ns, types), SwapGood
  <2>3. types \cup none = types
    BY <1>1
  <2> QED BY ONLY <2>2, <2>3
<1>6. SwapSums(ms, ns, i, j, e)
  BY ONLY <1>4, SwapUpto
<1>7. Upto(ms, Len(ms)) = Upto(ns, i) + (Upto(ns, L) - Upto(ns, j))
  <2>1. L - j \in 0 .. L - j /\ j + (L - j) = L /\ i + Len(e) + (L - j) = Len(ms)
        /\ i \in 0 .. L /\ j \in 0 .. L /\ L \in 0 .. L
    BY ONLY <1>2, <1>3
  <2>2. Upto(ms, i + Len(e) + (L - j)) = Upto(ns, i) + Upto(e, Len(e)) + (Upto(ns, j + (L - j)) - Upto(ns, j))
    BY ONLY <1>1, <1>6, <2>1 DEF SwapSums
  <2>3. PICK x, y, v : x = Upto(ns, i) /\ y = Upto(ns, L) /\ v = Upto(ns, j)
    OBVIOUS
  <2>4. Upto(ms, Len(ms)) = x + 0 + (y - v)
    BY ONLY <1>2, <2>1, <2>2, <2>3
  <2>5. x \in Nat /\ y \in Nat /\ v \in Nat
    BY <1>1, <1>3, <2>1, <2>3, UptoIs
  <2> QED BY ONLY <2>3, <2>4, <2>5
<1>8. \A k \in 0 .. i : Upto(ms, k) = Upto(ns, k)
  BY ONLY <1>6 DEF SwapSums
<1>9. \A t : CountType(ms, t) + CountType(SubSeq(ns, i + 1, j), t) = CountType(ns, t)
  <2> TAKE t
  <2>1. SwapCounts(ms, ns, i, j, e, t)
    BY ONLY <1>4, SwapCount
  <2>2. CountType(ns, t) \in Nat /\ CountType(e, t) = 0
    BY <1>2, <1>3, CountIs
  <2> QED BY ONLY <2>1, <2>2 DEF SwapCounts
<1> QED BY ONLY <1>1, <1>5, <1>7, <1>8, <1>9 DEF RemoveDone

(* The string without its first k nodes. *)
DropNodesDone(z, b, k) ==
  /\ Shape(z) /\ LenAs(z) = Upto(b.nodes, Len(b.nodes)) - Upto(b.nodes, k) /\ z.pc = b.pc
  /\ z.used = 0 /\ Len(z.nodes) > 0 /\ z.nodes[1] = b.nodes[k + 1]
  /\ \A t : CountType(z.nodes, t) + CountType(SubSeq(b.nodes, 1, k), t) = CountType(b.nodes, t)

LEMMA DropNodesIs ==
  ASSUME NEW b, Shape(b), NEW k \in Nat, 0 < k, k < Len(b.nodes)
  PROVE  DropNodesDone(DropNodes(b, k), b, k) /\ DropNodes(b, k).len = b.len
<1>1. PICK ns, L, ms, z, o : /\ ns = b.nodes /\ L = Len(b.nodes) /\ ms = SubSeq(b.nodes, k + 1, L)
                             /\ z = DropNodes(b, k) /\ o = 0
  OBVIOUS
<1>2. ns \in Seq(NodeRec) /\ L = Len(ns) /\ L \in Nat /\ b.num = L /\ IsBase(b) /\ Good(ns, b.types)
  BY <1>1, BaseIs, NodeIs DEF Shape
<1>3. ms \in Seq(NodeRec) /\ Len(ms) = L - k /\ \A j \in 1 .. L - k : ms[j] = ns[k + j]
  <2>1. k <= L /\ L <= Len(ns)
    BY <1>1, <1>2
  <2> QED BY ONLY <1>1, <1>2, <2>1, k \in Nat, PartIs
<1>4. Removed(ms, ns, o, k)
  <2>1. o \in Nat /\ o <= k /\ k <= L /\ Len(ms) = o + (L - k) /\ \A j \in 1 .. o : ms[j] = ns[j]
    BY <1>1, <1>2, <1>3
  <2>2. \A j \in 1 .. L - k : ms[o + j] = ns[k + j]
    <3>1. \A j \in 1 .. L - k : o + j = j
      BY <1>1
    <3> QED BY ONLY <1>3, <3>1
  <2> QED BY ONLY <1>2, <1>3, <2>1, <2>2, k \in Nat DEF Removed
<1>5. RemoveDone(ms, ns, o, k, b.types)
  BY ONLY <1>2, <1>4, RemoveIs
<1>6. /\ IsBase(z) /\ z.nodes = ms /\ z.num = L - k /\ z.used = 0 /\ z.end = b.end /\ z.types = b.types
      /\ z.pc = b.pc /\ z.len = b.len
  <2>1. PICK w, v : /\ v = (IF b.upto THEN SubSeq(b.vec.v, k + 1, Len(b.vec.v)) ELSE b.vec.v)
                    /\ w = [b.vec EXCEPT !.off = IF b.upto THEN @ + k ELSE @, !.v = v]
    OBVIOUS
  <2>2. b.vec \in [sz : Nat, off : Nat, v : {b.vec.v}] /\ b.vec.off \in Nat
    BY <1>2 DEF IsBase, BaseRec
  <2>3. (IF b.upto THEN b.vec.off + k ELSE b.vec.off) \in Nat
    BY <2>2
  <2>4. PICK f \in Nat : f = IF b.upto THEN b.vec.off + k ELSE b.vec.off
    BY <2>3
  <2>5. w = [b.vec EXCEPT !.off = f, !.v = v]
    BY ONLY <2>1, <2>4
  <2>6. w \in [sz : Nat, off : Nat, v : {v}] /\ w.v = v
    BY ONLY <2>2, <2>4, <2>5
  <2>7. z = [b EXCEPT !.nodes = ms, !.num = b.num - k, !.used = 0, !.vec = w]
    <3>1. k # 0
      OBVIOUS
    <3>2. z = [b EXCEPT !.nodes = SubSeq(@, k + 1, Len(@)), !.num = @ - k, !.used = 0,
                        !.vec.off = IF b.upto THEN @ + k ELSE @,
                        !.vec.v = IF b.upto THEN SubSeq(@, k + 1, Len(@)) ELSE @]
      BY ONLY <1>1, <3>1 DEF DropNodes
    <3> QED BY ONLY <1>1, <2>1, <3>2
  <2>8. b.num - k \in Nat /\ b.num - k = L - k /\ 0 \in Nat
    BY <1>1, <1>2
  <2>9. /\ z \in BaseRec(v) /\ z.vec = w
        /\ z.nodes = ms /\ z.num = L - k /\ z.used = 0 /\ z.end = b.end /\ z.types = b.types
        /\ z.pc = b.pc /\ z.len = b.len
    BY ONLY <1>2, <1>3, <2>6, <2>7, <2>8 DEF IsBase, BaseRec
  <2> QED BY ONLY <2>6, <2>9 DEF IsBase
<1>7. z.end = EndOf(ms)
  <2>1. L - k \in 1 .. L - k /\ k + (L - k) = L /\ L > 0
    BY <1>1, <1>2
  <2>2. ms # <<>> /\ ns # <<>>
    BY <1>2, <1>3, <2>1
  <2>3. ms[L - k] = ns[L]
    BY ONLY <1>3, <2>1
  <2>4. b.end = EndOf(ns)
    BY <1>1 DEF Shape
  <2> QED BY ONLY <1>2, <1>3, <1>6, <2>2, <2>3, <2>4 DEF EndOf
<1>8. Shape(z)
  <2>1. Good(ms, b.types) /\ UsedIn(ms, 0)
    BY ONLY <1>5 DEF RemoveDone, UsedIn
  <2> QED BY ONLY <1>3, <1>6, <1>7, <2>1 DEF Shape
<1>9. LenAs(z) = Upto(ns, L) - Upto(ns, k)
  <2>1. Upto(ms, Len(ms)) = Upto(ns, o) + (Upto(ns, L) - Upto(ns, k)) /\ Upto(ns, o) = 0
    BY ONLY <1>1, <1>2, <1>5, UptoIs DEF RemoveDone
  <2>2. L \in 0 .. L /\ k \in 0 .. L
    BY <1>1, <1>2
  <2>3. Upto(ns, L) \in Nat /\ Upto(ns, k) \in Nat
    BY <1>2, <2>2, UptoIs
  <2>4. LenAs(z) = Upto(ms, Len(ms)) - 0
    BY ONLY <1>6 DEF LenAs
  <2> QED BY ONLY <2>1, <2>3, <2>4
<1>10. \A t : CountType(ms, t) + CountType(SubSeq(ns, 1, k), t) = CountType(ns, t)
  <2>1. o + 1 = 1
    BY <1>1
  <2> QED BY ONLY <1>5, <2>1 DEF RemoveDone
<1>11. Len(ms) > 0 /\ ms[1] = ns[k + 1]
  <2>1. 1 \in 1 .. L - k /\ L - k > 0
    BY <1>1, <1>2
  <2> QED BY ONLY <1>3, <2>1
<1> QED BY ONLY <1>1, <1>6, <1>8, <1>9, <1>10, <1>11 DEF DropNodesDone

(* vstr__del_beg() *)
LEMMA DelBegIs ==
  ASSUME NEW b, NEW c, NEW pos, NEW len, MayDel(b, c, pos, len), pos = 1, len < b.len
  PROVE  DelDone(b, len, DelBeg(b, c, len))
<1>1. /\ Shape(b) /\ LenIs(b) /\ IsBase(b) /\ b.len = LenAs(b) /\ len \in Nat /\ 0 < len
      /\ b.len - len \in Nat /\ b.used \in Nat /\ b.len \in Nat
      /\ Len(b.nodes) > 0 /\ Len(b.nodes) \in Nat /\ b.nodes \in Seq(NodeRec) /\ Fits(b.nodes, c)
  BY MayDelIs DEF MayDel
<1>2. PICK ns, L, u, q, k, m : /\ ns = b.nodes /\ L = Len(b.nodes) /\ u = b.used /\ q = u + len
                               /\ k = Whole(b, 0, b.used + len) /\ m = b.len - len
  OBVIOUS
<1>3. /\ Upto(ns, 0) = 0 /\ Filled(ns)
      /\ \A i \in 1 .. L : Upto(ns, i) = Upto(ns, i - 1) + NLen(ns[i]) /\ NLen(ns[i]) \in Nat
  BY <1>1, <1>2, ShapeIs
<1>a. \A i \in 0 .. L : Upto(ns, i) \in Nat
  BY <1>1, <1>2, ShapeIs
<1>4. b.len = Upto(ns, L) - u /\ Upto(ns, L) \in Nat /\ q \in Nat /\ q < Upto(ns, L)
  <2>1. L \in 0 .. L
    BY <1>1, <1>2
  <2>2. b.len = Upto(ns, L) - u /\ Upto(ns, L) \in Nat
    BY <1>1, <1>2, <1>a, <2>1 DEF LenIs
  <2> QED BY ONLY <1>1, <1>2, <2>2, len < b.len
<1>5. /\ k \in 0 .. L /\ Upto(ns, k) <= q /\ (k < L => q < Upto(ns, k + 1))
  <2>1. PICK a : a = 0
    OBVIOUS
  <2>2. a \in 0 .. Len(ns) /\ Upto(ns, a) <= q /\ ns \in Seq(NodeRec)
    BY <1>1, <1>2, <1>3, <1>4, <2>1
  <2>3. \E j \in 0 .. Len(ns) - a : Upto(ns, a + j) <= q /\ (a + j < Len(ns) => q < Upto(ns, a + j + 1))
    BY ONLY <1>4, <2>2, UptoWhole
  <2>4. \A j \in 0 .. L : a + j = j /\ Upto(ns, j) - Upto(ns, 0) = Upto(ns, j)
    BY <1>1, <1>2, <1>3, <1>a, <2>1
  <2>5. L - a = L /\ L = Len(ns) /\ \A j \in 0 .. L : j < L => j + 1 \in 0 .. L
    BY <1>1, <1>2, <2>1
  <2>6. \A j \in 0 .. L : j < L => Upto(ns, j + 1) - Upto(ns, 0) = Upto(ns, j + 1)
    BY ONLY <2>4, <2>5
  <2> DEFINE P(j) == /\ Upto(ns, a + j) - Upto(ns, a) <= q
                     /\ a + j < L => q < Upto(ns, a + j + 1) - Upto(ns, a)
  <2>7. \A j \in 0 .. L : P(j) <=> Upto(ns, j) <= q /\ (j < L => q < Upto(ns, j + 1))
    BY ONLY <2>1, <2>4, <2>6
  <2>8. \E j \in 0 .. L : P(j)
    BY ONLY <2>3, <2>4, <2>5, <2>7
  <2>9. k = CHOOSE j \in 0 .. L - a : P(j)
    BY ONLY <1>2, <2>1 DEF Whole
  <2>10. k \in 0 .. L /\ P(k)
    <3> HIDE DEF P
    <3> QED BY ONLY <2>5, <2>8, <2>9
  <2> QED BY ONLY <2>7, <2>10
<1>6. k < L /\ k \in Nat
  <2>1. k # L
    BY ONLY <1>4, <1>5
  <2> QED BY ONLY <1>1, <1>2, <1>5, <2>1
<1>7. q < Upto(ns, k) + NLen(ns[k + 1]) /\ Upto(ns, k) \in Nat /\ NLen(ns[k + 1]) \in Nat
  <2>1. k + 1 \in 1 .. L /\ (k + 1) - 1 = k /\ k \in 0 .. L
    BY ONLY <1>1, <1>2, <1>6
  <2>2. Upto(ns, k + 1) = Upto(ns, (k + 1) - 1) + NLen(ns[k + 1]) /\ NLen(ns[k + 1]) \in Nat
    BY ONLY <1>3, <2>1
  <2> QED BY ONLY <1>5, <1>6, <1>a, <2>1, <2>2
<1>8. PICK b1, rem : b1 = DropNodes(b, k) /\ rem = IF k = 0 THEN len ELSE b.used + len - Upto(b.nodes, k)
  OBVIOUS
<1>9. /\ Shape(b1) /\ b1.pc = b.pc /\ b1.len = b.len /\ Len(b1.nodes) > 0
      /\ rem \in Nat /\ b1.used + rem < NLen(b1.nodes[1]) /\ LenAs(b1) - rem = m
      /\ \A t : CountType(b1.nodes, t) + CountType(SubSeq(b.nodes, 1, k), t) = CountType(b.nodes, t)
  <2>1. CASE k = 0
    <3>1. b1 = b /\ rem = len
      BY <1>8, <2>1 DEF DropNodes
    <3>2. b.used + len < NLen(b.nodes[1])
      <4>1. k + 1 = 1 /\ Upto(ns, k) = 0
        BY <1>3, <2>1
      <4>2. q < 0 + NLen(ns[1]) /\ NLen(ns[1]) \in Nat
        BY ONLY <1>7, <4>1
      <4> QED BY ONLY <1>2, <4>2
    <3>3. \A t : CountType(b.nodes, t) + CountType(SubSeq(b.nodes, 1, k), t) = CountType(b.nodes, t)
      <4> TAKE t
      <4>1. SubSeq(b.nodes, 1, k) = <<>>
        BY <1>1, <2>1
      <4>2. CountType(SubSeq(b.nodes, 1, k), t) = 0 /\ CountType(b.nodes, t) \in Nat
        BY <1>1, <4>1, EmptyIs, CountIs
      <4> QED BY ONLY <4>2
    <3>4. LenAs(b) - len = m
      BY <1>1, <1>2
    <3> QED BY ONLY <1>1, <3>1, <3>2, <3>3, <3>4
  <2>2. CASE k # 0
    <3>1. 0 < k /\ k < Len(b.nodes)
      BY ONLY <1>2, <1>6, <2>2
    <3>2. DropNodesDone(b1, b, k) /\ b1.len = b.len
      BY ONLY <1>1, <1>6, <1>8, <3>1, DropNodesIs
    <3>3. /\ Shape(b1) /\ LenAs(b1) = Upto(ns, L) - Upto(ns, k) /\ b1.pc = b.pc
          /\ b1.used = 0 /\ Len(b1.nodes) > 0 /\ b1.nodes[1] = ns[k + 1]
          /\ \A t : CountType(b1.nodes, t) + CountType(SubSeq(b.nodes, 1, k), t) = CountType(b.nodes, t)
      BY ONLY <1>2, <3>2 DEF DropNodesDone
    <3>4. rem = q - Upto(ns, k)
      <4>1. rem = b.used + len - Upto(b.nodes, k)
        BY ONLY <1>8, <2>2
      <4>2. PICK x : x = Upto(ns, k)
        OBVIOUS
      <4>3. x \in Nat /\ x = Upto(b.nodes, k)
        BY ONLY <1>2, <1>7, <4>2
      <4>4. rem = b.used + len - x
        BY ONLY <4>1, <4>3
      <4>5. q = b.used + len
        BY ONLY <1>2
      <4>6. rem = q - x
        BY ONLY <1>1, <4>3, <4>4, <4>5
      <4> QED BY ONLY <4>2, <4>6
    <3>5. PICK x, y, v : x = Upto(ns, k) /\ y = Upto(ns, L) /\ v = NLen(ns[k + 1])
      OBVIOUS
    <3>6. /\ x \in Nat /\ y \in Nat /\ v \in Nat /\ q \in Nat /\ u \in Nat /\ q = u + len /\ m = b.len - len
          /\ b.len = y - u /\ x <= q /\ q < x + v /\ rem = q - x /\ LenAs(b1) = y - x
      BY ONLY <1>1, <1>2, <1>4, <1>5, <1>7, <3>3, <3>4, <3>5
    <3>7. rem \in Nat /\ 0 + rem < v /\ LenAs(b1) - rem = m
      BY ONLY <1>1, <3>6
    <3> QED BY ONLY <3>2, <3>3, <3>5, <3>7
  <2> QED BY ONLY <2>1, <2>2
<1>10. PICK z, d, g : z = DropBytes(b1, rem) /\ d = [z EXCEPT !.len = m] /\ g = CacheDel(d, pos)
  OBVIOUS
<1>11. DropDone(z, b1, rem)
  BY ONLY <1>9, <1>10, DropBytesIs
<1>12. /\ Shape(z) /\ IsBase(z) /\ LenAs(z) = m /\ z.pc = b.pc
       /\ \A t : CountType(z.nodes, t) = CountType(b1.nodes, t)
  BY ONLY <1>9, <1>11 DEF DropDone, Shape
<1>13. z.len = b.len
  <2>1. CASE rem = 0
    BY <1>9, <1>10, <2>1 DEF DropBytes
  <2>2. CASE rem # 0
    <3>1. PICK h : h = DropFront(b1, 1, rem, TRUE)
      OBVIOUS
    <3>2. h.len = b1.len
      BY <1>9, <3>1 DEF DropFront, Shape, IsBase, BaseRec
    <3>3. (IovecDropFront(h, 1, rem)).len = h.len
      BY DEF IovecDropFront
    <3>4. z = IovecDropFront(h, 1, rem)
      <4>1. rem > 0
        BY ONLY <1>9, <2>2
      <4> QED BY ONLY <1>10, <3>1, <4>1 DEF DropBytes
    <3> QED BY ONLY <1>9, <3>2, <3>3, <3>4
  <2> QED BY ONLY <2>1, <2>2
<1>14. Like(z, d) /\ d.len = m
  BY ONLY <1>1, <1>2, <1>10, <1>12, LikeLen
<1>15. Shape(d) /\ LenAs(d) = m
  BY ONLY <1>12, <1>14, LikeShape
<1>16. PICK h : h = Relink(c, SubSeq(b.nodes, 1, k))
  OBVIOUS
<1>17. Fits(d.nodes, h)
  <2>1. PICK xs : xs = SubSeq(b.nodes, 1, k)
    OBVIOUS
  <2>2. xs \in Seq(NodeRec)
    <3>1. PICK o : o = 1
      OBVIOUS
    <3>2. o \in Nat /\ 1 <= o /\ o <= k + 1 /\ k <= Len(b.nodes) /\ k \in Nat
      BY ONLY <1>1, <1>2, <1>6, <3>1
    <3>3. SubSeq(b.nodes, o, k) \in Seq(NodeRec)
      BY ONLY <1>1, <3>2, SubSeqIs
    <3> QED BY ONLY <2>1, <3>1, <3>3
  <2>3. d.nodes \in Seq(NodeRec)
    BY <1>15, BaseIs DEF Shape
  <2>4. \A t \in NodeTypes : CountType(d.nodes, t) + CountType(xs, t) = CountType(b.nodes, t)
    BY ONLY <1>9, <1>12, <1>14, <2>1 DEF Like
  <2> QED BY ONLY <1>1, <1>16, <2>1, <2>2, <2>3, <2>4, RelinkIs
<1>18. PosUpto(d, pos - 1)
  <2>1. PICK y \in 0 .. 1 : y = pos - 1
    OBVIOUS
  <2>2. d.pc = b.pc /\ Right(b)
    BY <1>12, <1>14 DEF Like, MayDel
  <2>3. PosUpto(d, y)
    BY ONLY <2>1, <2>2, PosBeyond
  <2> QED BY ONLY <2>1, <2>3
<1>19. DelDone(b, len, [b |-> g, c |-> h, ok |-> TRUE])
  BY ONLY <1>2, <1>10, <1>14, <1>15, <1>17, <1>18, MayDel(b, c, pos, len), DelEnds
<1>20. DelBeg(b, c, len) = [b |-> g, c |-> h, ok |-> TRUE]
  <2>1. [z EXCEPT !.len = @ - len] = d
    BY ONLY <1>2, <1>10, <1>13
  <2>2. DelBeg(b, c, len) = DelNodes(b, c, len, k)
    BY ONLY <1>2 DEF DelBeg
  <2>3. DelNodes(b, c, len, k) = [b |-> CacheDel([z EXCEPT !.len = @ - len], 1), c |-> h, ok |-> TRUE]
    BY ONLY <1>8, <1>10, <1>16 DEF DelNodes
  <2> QED BY ONLY <1>10, <2>1, <2>2, <2>3, pos = 1
<1> QED BY ONLY <1>19, <1>20

(* Where the data behind the position f may be deleted. *)
MayCut(b, c, pos, len, f) == MayDel(b, c, pos, len) /\ 1 < pos /\ Found(b, pos - 1, f)

LEMMA MayCutIs ==
  ASSUME NEW b, NEW c, NEW pos, NEW len, NEW f, MayCut(b, c, pos, len, f)
  PROVE  /\ f.i \in 1 .. Len(b.nodes) /\ f.i \in Nat /\ f.p \in Nat /\ 0 < f.p
         /\ f.p <= NLen(b.nodes[f.i]) /\ NLen(b.nodes[f.i]) \in Nat
         /\ Upto(b.nodes, f.i - 1) \in Nat /\ Upto(b.nodes, f.i - 1) + f.p = (pos - 1) + b.used
         /\ (f.i = 1 => b.used < f.p)
<1>1. /\ b.nodes \in Seq(NodeRec) /\ Len(b.nodes) \in Nat /\ pos \in Nat /\ b.used \in Nat /\ 1 < pos
  BY MayDelIs DEF MayCut
<1>2. /\ f.i \in 1 .. Len(b.nodes) /\ f.p \in 1 .. NLen(b.nodes[f.i])
      /\ Upto(b.nodes, f.i - 1) + f.p = (pos - 1) + b.used
  BY DEF MayCut, Found
<1>3. NLen(b.nodes[f.i]) \in Nat
  BY <1>1, <1>2, NodeIs
<1>4. f.i - 1 \in 0 .. Len(b.nodes) /\ f.i \in Nat /\ f.p \in Nat /\ 0 < f.p /\ f.p <= NLen(b.nodes[f.i])
  BY ONLY <1>1, <1>2, <1>3
<1>5. Upto(b.nodes, f.i - 1) \in Nat /\ Upto(b.nodes, 0) = 0
  BY ONLY <1>1, <1>4, UptoIs
<1>6. f.i = 1 => b.used < f.p
  <2> HAVE f.i = 1
  <2>1. f.i - 1 = 0
    OBVIOUS
  <2>2. 0 + f.p = (pos - 1) + b.used
    BY ONLY <1>2, <1>5, <2>1
  <2> QED BY ONLY <1>1, <1>4, <2>2
<1> QED BY ONLY <1>2, <1>3, <1>4, <1>5, <1>6

(* The node is split first, or not. *)
SplitFor(b, len, f, s) ==
  /\ Sound(s) /\ s.b.len = b.len /\ s.b.used = b.used
  /\ s.ok => \E x, y : s = [b |-> x, c |-> y, ok |-> TRUE]
  /\ s.ok => /\ f.i \in 1 .. Len(s.b.nodes) /\ f.p + len <= NLen(s.b.nodes[f.i])
             /\ Upto(s.b.nodes, f.i - 1) = Upto(b.nodes, f.i - 1)

LEMMA SplitForIs ==
  ASSUME NEW b, NEW c, NEW pos, NEW len, NEW f, MayCut(b, c, pos, len, f),
         f.p + len < NLen(b.nodes[f.i])
  PROVE  SplitFor(b, len, f, IF Splits(b.nodes[f.i]) THEN SplitNode(b, c, f.i, f.p + len)
                             ELSE [b |-> b, c |-> c, ok |-> TRUE])
<1>1. PICK i, p, q : i = f.i /\ p = f.p /\ q = f.p + len
  OBVIOUS
<1>2. /\ i \in 1 .. Len(b.nodes) /\ p \in Nat /\ 0 < p /\ NLen(b.nodes[i]) \in Nat
      /\ (i = 1 => b.used < p)
  BY ONLY <1>1, MayCut(b, c, pos, len, f), MayCutIs
<1>3. Right(b) /\ Fits(b.nodes, c) /\ b.len <= MaxLen /\ len \in Nat /\ 0 < len /\ b.used \in Nat
  BY MayDelIs DEF MayCut, MayDel
<1>4. q \in Nat /\ 0 < q /\ q < NLen(b.nodes[i]) /\ (i = 1 => b.used < q) /\ q <= NLen(b.nodes[i])
  <2>1. q \in Nat /\ 0 < q /\ p <= q /\ q < NLen(b.nodes[i])
    BY <1>1, <1>2, <1>3
  <2> QED BY ONLY <1>2, <1>3, <2>1
<1>5. CASE Splits(b.nodes[i])
  <2>1. PICK s : s = SplitNode(b, c, i, q)
    OBVIOUS
  <2>2. MaySplit(b, i, q)
    BY ONLY <1>2, <1>3, <1>4 DEF MaySplit
  <2>3. SplitDone(b, i, q, s)
    BY ONLY <1>3, <2>1, <2>2, SplitNodeIs
  <2>4. \E x, y : s = [b |-> x, c |-> y, ok |-> TRUE] \/ s = [b |-> x, c |-> y, ok |-> FALSE]
    BY ONLY <2>1 DEF SplitNode
  <2>5. s.ok => \E x, y : s = [b |-> x, c |-> y, ok |-> TRUE]
    BY ONLY <2>4
  <2>6. s.ok => f.p + len <= NLen(s.b.nodes[i])
    BY ONLY <1>1, <1>4, <2>3 DEF SplitDone
  <2>7. SplitFor(b, len, f, s)
    BY ONLY <1>1, <2>3, <2>5, <2>6 DEF SplitFor, SplitDone
  <2> QED BY ONLY <1>1, <1>5, <2>1, <2>7
<1>6. CASE ~Splits(b.nodes[i])
  <2>1. PICK s : s = [b |-> b, c |-> c, ok |-> TRUE]
    OBVIOUS
  <2>2. s.b = b /\ s.c = c /\ s.ok = TRUE
    BY <2>1
  <2>3. Sound(s)
    BY ONLY <1>3, <2>2 DEF Sound
  <2>4. SplitFor(b, len, f, s)
    BY ONLY <1>1, <1>2, <1>4, <2>1, <2>2, <2>3 DEF SplitFor
  <2> QED BY ONLY <1>1, <1>6, <2>1, <2>4
<1> QED BY ONLY <1>5, <1>6

(* len bytes within a node go. *)
LEMMA CutInnerIs ==
  ASSUME NEW b, NEW c, NEW pos, NEW len, NEW f, MayCut(b, c, pos, len, f), NEW s, SplitFor(b, len, f, s)
  PROVE  DelDone(b, len, CutInner(s, pos, f, len))
<1>1. PICK a, i, p, m : a = s.b /\ i = f.i /\ p = f.p /\ m = b.len - len
  OBVIOUS
<1>2. /\ Sound(s) /\ a.len = b.len /\ a.used = b.used
      /\ s.ok \in BOOLEAN /\ Right(a) /\ Fits(a.nodes, s.c)
      /\ s.ok => /\ i \in 1 .. Len(a.nodes) /\ p + len <= NLen(a.nodes[i])
                 /\ Upto(a.nodes, i - 1) = Upto(b.nodes, i - 1)
  BY ONLY <1>1, SplitFor(b, len, f, s) DEF SplitFor, Sound
<1>3. /\ MayDel(b, c, pos, len) /\ b.used \in Nat /\ b.len \in Nat /\ len \in Nat /\ 0 < len /\ m \in Nat
      /\ pos \in Nat /\ pos - 1 \in Nat
  <2>1. MayDel(b, c, pos, len) /\ 1 < pos
    BY DEF MayCut
  <2>2. /\ b.used \in Nat /\ b.len \in Nat /\ len \in Nat /\ 0 < len /\ b.len - len \in Nat /\ pos \in Nat
    BY ONLY <2>1, MayDelIs
  <2> QED BY <1>1, <2>1, <2>2
<1>4. p \in Nat /\ 0 < p /\ (i = 1 => b.used < p) /\ Upto(b.nodes, i - 1) + p = (pos - 1) + b.used
      /\ Upto(b.nodes, i - 1) \in Nat
  BY ONLY <1>1, MayCut(b, c, pos, len, f), MayCutIs
<1>5. CASE ~s.ok
  <2>1. CutInner(s, pos, f, len) = s
    BY <1>5 DEF CutInner
  <2> QED BY ONLY <1>1, <1>2, <1>5, <2>1 DEF DelDone
<1>6. CASE s.ok
  <2>1. /\ Shape(a) /\ LenIs(a) /\ IsBase(a) /\ a.nodes \in Seq(NodeRec) /\ i \in 1 .. Len(a.nodes)
    BY <1>2, <1>6, BaseIs DEF Right, Shape
  <2>2. PICK n, t, l : n = a.nodes[i] /\ t = a.nodes[i].data /\ l = NLen(n)
    OBVIOUS
  <2>3. t \in Seq(Byte) /\ l = Len(t) /\ l \in Nat /\ p + len <= l
    BY <1>2, <1>6, <2>1, <2>2, NodeIs DEF NLen
  <2>4. PICK x, y, v : /\ y = SubSeq(t, 1, p) /\ v = SubSeq(t, p + len + 1, l) /\ x = y \o v
    OBVIOUS
  <2>5. y \in Seq(Byte) /\ Len(y) = p
    <3>1. PICK o : o = 1
      OBVIOUS
    <3>2. o \in Nat /\ 1 <= o /\ o <= p + 1 /\ p <= Len(t) /\ p - o + 1 = p
      BY ONLY <1>3, <1>4, <2>3, <3>1
    <3>3. SubSeq(t, o, p) \in Seq(Byte) /\ Len(SubSeq(t, o, p)) = p - o + 1
      BY ONLY <1>4, <2>3, <3>2, SubSeqIs
    <3> QED BY ONLY <2>4, <3>1, <3>2, <3>3
  <2>6. v \in Seq(Byte) /\ Len(v) = l - (p + len)
    <3>1. PICK q : q = p + len
      OBVIOUS
    <3>2. q \in Nat /\ q <= l /\ l <= Len(t)
      BY ONLY <1>3, <1>4, <2>3, <3>1
    <3>3. SubSeq(t, q + 1, l) \in Seq(Byte) /\ Len(SubSeq(t, q + 1, l)) = l - q
      BY ONLY <2>3, <3>2, PartIs
    <3> QED BY ONLY <2>4, <3>1, <3>3
  <2>7. x \in Seq(Byte) /\ Len(x) = l - len
    <3>1. x \in Seq(Byte) /\ Len(x) = Len(y) + Len(v)
      BY ONLY <2>4, <2>5, <2>6, ConcatIs
    <3> QED BY ONLY <1>3, <1>4, <2>3, <2>5, <2>6, <3>1
  <2>8. PICK e, z, k : e = [a EXCEPT !.nodes[i].data = x, !.len = m] /\ z = IovecLenAdd(e, f.num, -len)
                       /\ k = Len(x)
    OBVIOUS
  <2>9. DataDone(e, a, i, k, m)
    BY ONLY <1>3, <2>1, <2>7, <2>8, DataSet
  <2>10. 0 < k /\ k <= NLen(a.nodes[i]) /\ (i = 1 => a.used < k) /\ k \in Nat /\ k = l - len
    <3>0. k = l - len /\ p + len <= l /\ l \in Nat /\ len \in Nat /\ p \in Nat
      BY ONLY <1>3, <1>4, <2>3, <2>7, <2>8
    <3>1. k = l - len /\ k \in Nat /\ p <= k /\ k <= l
      BY ONLY <3>0
    <3>2. i = 1 => a.used < k
      BY ONLY <1>2, <1>3, <1>4, <3>1
    <3> QED BY ONLY <1>4, <2>2, <3>1, <3>2
  <2>11. AlterDone(e, a, i, k)
    BY ONLY <2>1, <2>9, <2>10, DataIs
  <2>12. /\ Shape(e) /\ LenAs(e) = LenAs(a) + (k - l) /\ FrontKept(e.nodes, a.nodes, i)
         /\ \A u : CountType(e.nodes, u) = CountType(a.nodes, u)
    BY ONLY <2>2, <2>11 DEF AlterDone
  <2>13. Same(e, z)
    <3>1. IsBase(e)
      BY ONLY <2>12 DEF Shape
    <3> QED BY ONLY <2>8, <3>1, IovecEntriesSame
  <2>14. /\ IsBase(z) /\ z.nodes = e.nodes /\ z.used = a.used /\ z.pc = a.pc /\ z.len = m /\ Like(e, z)
    BY ONLY <2>9, <2>13 DEF Same, DataDone, Like
  <2>15. Shape(z) /\ LenAs(z) = m
    <3>1. Shape(z) /\ LenAs(z) = LenAs(e)
      BY ONLY <2>12, <2>14, LikeShape
    <3>2. LenAs(a) = b.len
      BY ONLY <1>2, <2>1, LenAsIs
    <3>3. LenAs(z) = b.len + (k - l)
      BY ONLY <2>12, <3>1, <3>2
    <3>4. b.len + (k - l) = m
      BY ONLY <1>1, <1>3, <2>3, <2>10
    <3> QED BY ONLY <3>1, <3>3, <3>4
  <2>16. PosUpto(z, pos - 1)
    <3>1. PICK w : w = pos - 1
      OBVIOUS
    <3>2. w + a.used <= Upto(a.nodes, i)
      <4>1. Upto(a.nodes, i) = Upto(a.nodes, i - 1) + NLen(a.nodes[i])
        BY ONLY <2>1, UptoIs
      <4>2. PICK h : h = Upto(b.nodes, i - 1)
        OBVIOUS
      <4>3. Upto(a.nodes, i) = h + l /\ h \in Nat /\ h + p = w + a.used
        BY ONLY <1>2, <1>4, <1>6, <2>2, <3>1, <4>1, <4>2
      <4> QED BY ONLY <1>3, <1>4, <2>3, <4>3
    <3>3. PosUpto(a, w) /\ w \in Nat
      BY <1>2, <1>3, <3>1, PosStart
    <3>4. FrontKept(z.nodes, a.nodes, i)
      BY ONLY <2>12, <2>14
    <3>5. PosUpto(z, w)
      BY ONLY <2>1, <2>14, <3>2, <3>3, <3>4, PosKept
    <3> QED BY ONLY <3>1, <3>5
  <2>17. Fits(z.nodes, s.c)
    <3>1. z.nodes \in Seq(NodeRec)
      BY ONLY <2>14, BaseIs
    <3>2. \A u : CountType(z.nodes, u) = CountType(a.nodes, u)
      BY ONLY <2>12, <2>14
    <3> QED BY ONLY <1>2, <3>1, <3>2, FitsAlike
  <2>18. PICK g, h : g = CacheDel(z, pos) /\ h = s.c
    OBVIOUS
  <2>19. DelDone(b, len, [b |-> g, c |-> h, ok |-> TRUE])
    BY ONLY <1>1, <1>3, <2>14, <2>15, <2>16, <2>17, <2>18, DelEnds
  <2>20. e = [a EXCEPT !.nodes[f.i].data = SubSeq(@, 1, f.p) \o SubSeq(@, f.p + len + 1, Len(@)),
                       !.len = @ - len]
    BY ONLY <1>1, <1>2, <2>2, <2>3, <2>4, <2>8
  <2>21. CutInner(s, pos, f, len) = [s EXCEPT !.b = g]
    <3>1. e = CutBytes(s.b, f, len)
      BY ONLY <1>1, <2>20 DEF CutBytes
    <3> QED BY ONLY <1>6, <2>8, <2>18, <3>1 DEF CutInner
  <2>22. [s EXCEPT !.b = g] = [b |-> g, c |-> h, ok |-> TRUE]
    <3>1. s.ok => \E o1, o2 : s = [b |-> o1, c |-> o2, ok |-> TRUE]
      BY ONLY SplitFor(b, len, f, s), Zenon DEF SplitFor
    <3>2. PICK o1, o2 : s = [b |-> o1, c |-> o2, ok |-> TRUE]
      BY ONLY <1>6, <3>1, Zenon
    <3>3. h = o2
      BY ONLY <2>18, <3>2
    <3>4. PICK o : o = TRUE
      OBVIOUS
    <3>5. s = [b |-> o1, c |-> o2, ok |-> o]
      BY ONLY <3>2, <3>4, Zenon
    <3>6. [s EXCEPT !.b = g] = [b |-> g, c |-> o2, ok |-> o]
      BY ONLY <3>5
    <3> QED BY ONLY <3>3, <3>4, <3>6, Zenon
  <2> QED BY ONLY <2>19, <2>21, <2>22
<1> QED BY ONLY <1>2, <1>5, <1>6

(* How many nodes a deletion takes as a whole. *)
WholeDone(ns, i, len, k) ==
  /\ k \in 0 .. Len(ns) - i /\ Upto(ns, i + k) - Upto(ns, i) <= len
  /\ i + k < Len(ns) => len < Upto(ns, i + k + 1) - Upto(ns, i)

LEMMA WholeIs ==
  ASSUME NEW b, b.nodes \in Seq(NodeRec), NEW i \in 0 .. Len(b.nodes), NEW len \in Nat
  PROVE  WholeDone(b.nodes, i, len, Whole(b, i, len))
<1>1. PICK ns, L, x, q : ns = b.nodes /\ L = Len(b.nodes) /\ x = Upto(b.nodes, i) /\ q = x + len
  OBVIOUS
<1>2. ns \in Seq(NodeRec) /\ L = Len(ns) /\ L \in Nat /\ i \in 0 .. L /\ i \in Nat /\ x = Upto(ns, i)
  BY <1>1, NodeIs
<1>3. \A j \in 0 .. L : Upto(ns, j) \in Nat
  BY <1>2, UptoIs
<1>4. x \in Nat /\ q \in Nat /\ Upto(ns, i) <= q
  <2>1. x \in Nat
    BY ONLY <1>2, <1>3
  <2>2. q \in Nat /\ x <= q
    BY ONLY <1>1, <2>1, len \in Nat
  <2> QED BY ONLY <1>2, <2>1, <2>2
<1>5. \E j \in 0 .. L - i : Upto(ns, i + j) <= q /\ (i + j < L => q < Upto(ns, i + j + 1))
  <2>1. i \in 0 .. Len(ns)
    BY ONLY <1>2
  <2>2. \E j \in 0 .. Len(ns) - i : Upto(ns, i + j) <= q /\ (i + j < Len(ns) => q < Upto(ns, i + j + 1))
    BY ONLY <1>2, <1>4, <2>1, UptoWhole
  <2> QED BY ONLY <1>2, <2>2
<1> DEFINE P(j) == /\ Upto(ns, i + j) - Upto(ns, i) <= len
                   /\ i + j < L => len < Upto(ns, i + j + 1) - Upto(ns, i)
<1>6. \E j \in 0 .. L - i : P(j)
  <2>1. PICK j \in 0 .. L - i : Upto(ns, i + j) <= q /\ (i + j < L => q < Upto(ns, i + j + 1))
    BY ONLY <1>5
  <2>2. i + j \in 0 .. L /\ (i + j < L => i + j + 1 \in 0 .. L)
    BY ONLY <1>2, <2>1
  <2>3. PICK y, v : y = Upto(ns, i + j) /\ v = Upto(ns, i + j + 1)
    OBVIOUS
  <2>4. y \in Nat /\ (i + j < L => v \in Nat)
    BY ONLY <1>3, <2>2, <2>3
  <2>5. y <= q /\ (i + j < L => q < v)
    BY ONLY <2>1, <2>3
  <2>6. y - x <= len
    BY ONLY <1>1, <1>4, <2>4, <2>5, len \in Nat
  <2>7. i + j < L => len < v - x
    BY ONLY <1>1, <1>4, <2>4, <2>5, len \in Nat
  <2>8. P(j)
    BY ONLY <1>2, <2>3, <2>6, <2>7
  <2> HIDE DEF P
  <2> QED BY ONLY <2>8
<1>7. PICK k : k = Whole(b, i, len)
  OBVIOUS
<1>8. k = CHOOSE j \in 0 .. L - i : P(j)
  BY ONLY <1>1, <1>7 DEF Whole
<1>9. k \in 0 .. L - i /\ P(k)
  <2> HIDE DEF P
  <2> QED BY ONLY <1>6, <1>8
<1>10. WholeDone(ns, i, len, k)
  BY ONLY <1>2, <1>9 DEF WholeDone
<1> QED BY ONLY <1>1, <1>7, <1>10

(* FrontKept() twice, and of fewer nodes. *)
LEMMA FrontTrans ==
  ASSUME NEW ls, NEW ms, NEW ns, NEW i, NEW j, FrontKept(ms, ns, i), FrontKept(ls, ms, j), i <= j,
         ns \in Seq(NodeRec), j \in Nat, ls \in Seq(NodeRec)
  PROVE  FrontKept(ls, ns, i)
<1>1. Len(ns) \in Nat /\ Len(ls) \in Nat /\ i \in 0 .. Len(ns) /\ j <= Len(ls)
  BY NodeIs DEF FrontKept
<1>2. i <= Len(ls) /\ \A k \in 1 .. i : k \in 1 .. j
  BY ONLY <1>1, i <= j, j \in Nat
<1>3. \A k \in 1 .. i : ms[k].id = ns[k].id /\ Upto(ms, k - 1) = Upto(ns, k - 1)
  BY DEF FrontKept
<1>4. \A k \in 1 .. j : ls[k].id = ms[k].id /\ Upto(ls, k - 1) = Upto(ms, k - 1)
  BY DEF FrontKept
<1>5. \A k \in 1 .. i : ls[k].id = ns[k].id /\ Upto(ls, k - 1) = Upto(ns, k - 1)
  BY ONLY <1>2, <1>3, <1>4
<1> QED BY ONLY <1>1, <1>2, <1>5 DEF FrontKept

(* The data of a node from f on goes, to its end. *)
CutDone(g, b, f, len) ==
  /\ Shape(g) /\ g.len = b.len - len /\ g.used = b.used /\ g.pc = b.pc
  /\ Len(g.nodes) = Len(b.nodes) /\ FrontKept(g.nodes, b.nodes, f.i)
  /\ LenAs(g) = b.len + (f.p - NLen(b.nodes[f.i])) /\ Upto(g.nodes, f.i) = Upto(b.nodes, f.i - 1) + f.p
  /\ \A t : CountType(g.nodes, t) = CountType(b.nodes, t)

LEMMA CutNodeIs ==
  ASSUME NEW b, NEW c, NEW pos, NEW len, NEW f, MayCut(b, c, pos, len, f)
  PROVE  CutDone(CutNode(b, f, len), b, f, len)
<1>1. PICK i, p, n, l, t, m : /\ i = f.i /\ p = f.p /\ n = b.nodes[i] /\ l = NLen(n) /\ t = n.data
                              /\ m = b.len - len
  OBVIOUS
<1>2. /\ i \in 1 .. Len(b.nodes) /\ i \in Nat /\ p \in Nat /\ 0 < p /\ p <= l /\ l \in Nat
      /\ (i = 1 => b.used < p)
  BY ONLY <1>1, MayCut(b, c, pos, len, f), MayCutIs
<1>3. MayDel(b, c, pos, len)
  BY DEF MayCut
<1>4. /\ Shape(b) /\ IsBase(b) /\ b.nodes \in Seq(NodeRec) /\ b.len = LenAs(b) /\ m \in Nat
  BY ONLY <1>1, <1>3, MayDelIs
<1>5. t \in Seq(Byte) /\ l = Len(t)
  BY <1>1, <1>2, <1>4, NodeIs DEF NLen
<1>6. PICK x : x = SubSeq(t, 1, p)
  OBVIOUS
<1>7. x \in Seq(Byte) /\ Len(x) = p
  <2>1. PICK o : o = 1
    OBVIOUS
  <2>2. o \in Nat /\ 1 <= o /\ o <= p + 1 /\ p <= Len(t) /\ p - o + 1 = p
    BY ONLY <1>2, <1>5, <2>1
  <2>3. SubSeq(t, o, p) \in Seq(Byte) /\ Len(SubSeq(t, o, p)) = p - o + 1
    BY ONLY <1>2, <1>5, <2>2, SubSeqIs
  <2> QED BY ONLY <1>6, <2>1, <2>2, <2>3
<1>8. PICK e, g : e = [b EXCEPT !.nodes[i].data = x, !.len = m] /\ g = IovecLenAdd(e, f.num, p - l)
  OBVIOUS
<1>9. DataDone(e, b, i, p, m)
  BY ONLY <1>2, <1>4, <1>7, <1>8, DataSet
<1>10. AlterDone(e, b, i, p)
  <2>1. p <= NLen(b.nodes[i])
    BY ONLY <1>1, <1>2
  <2> QED BY ONLY <1>2, <1>4, <1>9, <2>1, DataIs
<1>11. IsBase(e) /\ Shape(e) /\ Len(e.nodes) = Len(b.nodes)
  BY ONLY <1>9, <1>10 DEF DataDone, AlterDone, Altered
<1>12. Same(e, g)
  <2>1. PICK d : d = p - l
    OBVIOUS
  <2>2. Same(e, IovecLenAdd(e, f.num, d))
    BY ONLY <1>11, IovecEntriesSame
  <2> QED BY ONLY <1>8, <2>1, <2>2
<1>13. Like(e, g) /\ g.len = e.len
  BY ONLY <1>12 DEF Same, Like
<1>14. Shape(g) /\ LenAs(g) = LenAs(e)
  BY ONLY <1>11, <1>13, LikeShape
<1>15. /\ g.nodes = e.nodes /\ g.used = b.used /\ g.pc = b.pc /\ g.len = m
  BY ONLY <1>9, <1>13 DEF DataDone, Like
<1>16. CutDone(g, b, f, len)
  <2>1. /\ LenAs(e) = b.len + (p - NLen(b.nodes[i])) /\ FrontKept(e.nodes, b.nodes, i)
        /\ Upto(e.nodes, i) = Upto(b.nodes, i - 1) + p
    BY ONLY <1>4, <1>10 DEF AlterDone
  <2>2. \A u : CountType(e.nodes, u) = CountType(b.nodes, u)
    BY ONLY <1>10 DEF AlterDone
  <2> QED BY ONLY <1>1, <1>11, <1>14, <1>15, <2>1, <2>2 DEF CutDone
<1>17. CutNode(b, f, len) = g
  <2>1. e = [b EXCEPT !.nodes[f.i].data = SubSeq(@, 1, f.p), !.len = @ - len]
    BY ONLY <1>1, <1>6, <1>8
  <2>2. p - l = f.p - NLen(b.nodes[f.i])
    BY ONLY <1>1
  <2> QED BY ONLY <1>8, <2>1, <2>2 DEF CutNode
<1> QED BY ONLY <1>16, <1>17

(* Nodes i + 1 .. i + k go. *)
UnlinkDone(z, b, i, k) ==
  /\ Shape(z) /\ z.len = b.len /\ z.used = b.used /\ z.pc = b.pc
  /\ FrontKept(z.nodes, b.nodes, i)
  /\ LenAs(z) = LenAs(b) - (Upto(b.nodes, i + k) - Upto(b.nodes, i))
  /\ i + k < Len(b.nodes) => i + 1 \in 1 .. Len(z.nodes) /\ z.nodes[i + 1] = b.nodes[i + k + 1]
  /\ \A t : CountType(z.nodes, t) + CountType(SubSeq(b.nodes, i + 1, i + k), t) = CountType(b.nodes, t)

(* What is left of a list without its nodes i + 1 .. i + k. *)
LEMMA UnlinkedRemoves ==
  ASSUME NEW ns \in Seq(NodeRec), NEW i \in 1 .. Len(ns), NEW k \in 0 .. Len(ns) - i, NEW ms,
         ms = SubSeq(ns, 1, i) \o SubSeq(ns, i + k + 1, Len(ns))
  PROVE  Removed(ms, ns, i, i + k)
<1>1. PICK L, j, x, y : /\ L = Len(ns) /\ j = i + k /\ x = SubSeq(ns, 1, i) /\ y = SubSeq(ns, j + 1, L)
                        /\ ms = x \o y
  OBVIOUS
<1>2. ns \in Seq(NodeRec) /\ L = Len(ns) /\ L \in Nat
  BY <1>1, NodeIs
<1>3. i \in Nat /\ j \in Nat /\ 1 <= i /\ i <= j /\ j <= L
  BY <1>1, <1>2
<1>4. x \in Seq(NodeRec) /\ Len(x) = i /\ \A h \in 1 .. i : x[h] = ns[h]
  <2>1. PICK o : o = 1
    OBVIOUS
  <2>2. o \in Nat /\ 1 <= o /\ o <= i + 1 /\ i <= Len(ns) /\ i - o + 1 = i /\ \A h \in 1 .. i : o + h - 1 = h
    BY ONLY <1>2, <1>3, <2>1
  <2>3. /\ SubSeq(ns, o, i) \in Seq(NodeRec) /\ Len(SubSeq(ns, o, i)) = i - o + 1
        /\ \A h \in 1 .. i - o + 1 : SubSeq(ns, o, i)[h] = ns[o + h - 1]
    BY ONLY <1>2, <1>3, <2>2, SubSeqIs
  <2> QED BY ONLY <1>1, <2>1, <2>2, <2>3
<1>5. y \in Seq(NodeRec) /\ Len(y) = L - j /\ \A h \in 1 .. L - j : y[h] = ns[j + h]
  <2>1. ns \in Seq(NodeRec) /\ j \in Nat /\ L \in Nat /\ j <= L /\ L <= Len(ns)
    BY ONLY <1>2, <1>3
  <2>2. /\ SubSeq(ns, j + 1, L) \in Seq(NodeRec) /\ Len(SubSeq(ns, j + 1, L)) = L - j
        /\ \A h \in 1 .. L - j : SubSeq(ns, j + 1, L)[h] = ns[j + h]
    BY ONLY <2>1, PartIs
  <2> QED BY ONLY <1>1, <2>2
<1>6. Removed(ms, ns, i, j)
  <2>1. /\ ms \in Seq(NodeRec) /\ Len(ms) = i + (L - j)
        /\ \A h \in 1 .. i + (L - j) : ms[h] = IF h <= i THEN x[h] ELSE y[h - i]
    <3>1. /\ x \o y \in Seq(NodeRec) /\ Len(x \o y) = Len(x) + Len(y)
          /\ \A h \in 1 .. Len(x) + Len(y) : (x \o y)[h] = IF h <= Len(x) THEN x[h] ELSE y[h - Len(x)]
      BY ONLY <1>4, <1>5, ConcatIs
    <3>2. ms = x \o y
      BY ONLY <1>1
    <3>3. Len(x) = i /\ Len(y) = L - j
      BY ONLY <1>4, <1>5
    <3> QED BY ONLY <3>1, <3>2, <3>3
  <2>2. \A h \in 1 .. i : h \in 1 .. i + (L - j) /\ h <= i
    BY ONLY <1>2, <1>3
  <2>3. \A h \in 1 .. L - j : i + h \in 1 .. i + (L - j) /\ ~(i + h <= i) /\ (i + h) - i = h
    BY ONLY <1>2, <1>3
  <2>4. \A h \in 1 .. i : ms[h] = ns[h]
    BY ONLY <1>4, <2>1, <2>2
  <2>5. \A h \in 1 .. L - j : ms[i + h] = ns[j + h]
    BY ONLY <1>5, <2>1, <2>3
  <2> QED BY ONLY <1>2, <1>3, <2>1, <2>4, <2>5 DEF Removed
<1> QED BY ONLY <1>1, <1>6

LEMMA UnlinkedIs ==
  ASSUME NEW b, Shape(b), NEW i \in 1 .. Len(b.nodes), NEW k \in 0 .. Len(b.nodes) - i, NEW num
  PROVE  UnlinkDone(Unlinked(b, i, num, k), b, i, k)
<1>1. PICK ns, L, j, x, y, ms, z : /\ ns = b.nodes /\ L = Len(b.nodes) /\ j = i + k
                                   /\ x = SubSeq(ns, 1, i) /\ y = SubSeq(ns, j + 1, L) /\ ms = x \o y
                                   /\ z = Unlinked(b, i, num, k)
  OBVIOUS
<1>2. ns \in Seq(NodeRec) /\ L = Len(ns) /\ L \in Nat /\ b.num = L /\ IsBase(b) /\ Good(ns, b.types)
  BY <1>1, BaseIs, NodeIs DEF Shape
<1>3. i \in Nat /\ j \in Nat /\ k \in Nat /\ 1 <= i /\ i <= j /\ j <= L /\ L - k \in Nat /\ L - k = i + (L - j)
  BY <1>1, <1>2
<1>6. Removed(ms, ns, i, j)
  <2>1. /\ i \in 1 .. Len(ns) /\ k \in 0 .. Len(ns) - i
        /\ ms = SubSeq(ns, 1, i) \o SubSeq(ns, i + k + 1, Len(ns))
    BY <1>1, <1>2
  <2>2. Removed(ms, ns, i, i + k)
    BY ONLY <1>2, <2>1, UnlinkedRemoves
  <2> QED BY ONLY <1>1, <2>2
<1>7. RemoveDone(ms, ns, i, j, b.types)
  BY ONLY <1>2, <1>6, RemoveIs
<1>8. /\ ms \in Seq(NodeRec) /\ Len(ms) = i + (L - j) /\ \A h \in 1 .. i : ms[h] = ns[h]
      /\ \A h \in 1 .. L - j : ms[i + h] = ns[j + h]
  BY ONLY <1>2, <1>6 DEF Removed
<1>9. PICK w, v, end : /\ v = (IF b.upto THEN SubSeq(b.vec.v, 1, num)
                                              \o SubSeq(b.vec.v, num + k + 1, Len(b.vec.v)) ELSE b.vec.v)
                       /\ w = [b.vec EXCEPT !.v = v]
                       /\ end = IF j = L THEN ns[i].id ELSE b.end
  OBVIOUS
<1>10. end = EndOf(ms) /\ end \in Nat
  <2>1. Len(ms) > 0 /\ L > 0
    BY ONLY <1>2, <1>3, <1>8
  <2>2. ms # <<>> /\ ns # <<>>
    BY <1>2, <1>8, <2>1
  <2>3. CASE j = L
    <3>1. Len(ms) = i /\ i \in 1 .. i /\ i \in 1 .. Len(ns)
      BY ONLY <1>2, <1>3, <1>8, <2>3
    <3>2. ns[i].id \in Ids
      BY <1>2, <3>1, NodeIs
    <3>3. ns[i].id \in Nat
      BY <3>2, NodesAssumption DEF Ids
    <3> QED BY ONLY <1>8, <1>9, <2>2, <2>3, <3>1, <3>3 DEF EndOf
  <2>4. CASE j # L
    <3>1. L - j \in 1 .. L - j /\ j + (L - j) = L
      BY ONLY <1>2, <1>3, <2>4
    <3>2. ms[Len(ms)] = ns[L]
      BY ONLY <1>8, <3>1
    <3>3. b.end = EndOf(ns) /\ b.end \in Nat
      BY <1>1, <1>2, BaseIs DEF Shape
    <3> QED BY ONLY <1>2, <1>9, <2>2, <2>4, <3>2, <3>3 DEF EndOf
  <2> QED BY ONLY <2>3, <2>4
<1>11. /\ IsBase(z) /\ z.nodes = ms /\ z.num = L - k /\ z.used = b.used /\ z.end = end /\ z.types = b.types
       /\ z.pc = b.pc /\ z.len = b.len
  <2>1. b.vec \in [sz : Nat, off : Nat, v : {b.vec.v}]
    BY <1>2 DEF IsBase, BaseRec
  <2>2. w \in [sz : Nat, off : Nat, v : {v}] /\ w.v = v
    BY ONLY <1>9, <2>1
  <2>3. z = [b EXCEPT !.nodes = ms, !.num = b.num - k, !.vec = w, !.end = end]
    <3>1. z = [b EXCEPT
                 !.nodes = SubSeq(@, 1, i) \o SubSeq(@, i + k + 1, Len(@)),
                 !.num = @ - k,
                 !.vec.v = IF b.upto
                           THEN SubSeq(@, 1, num) \o SubSeq(@, num + k + 1, Len(@)) ELSE @,
                 !.end = IF i + k = Len(b.nodes) THEN b.nodes[i].id ELSE @]
      BY ONLY <1>1 DEF Unlinked
    <3> QED BY ONLY <1>1, <1>9, <3>1
  <2>4. b.num - k \in Nat /\ b.num - k = L - k
    BY ONLY <1>2, <1>3
  <2>5. /\ z \in BaseRec(v) /\ z.vec = w
        /\ z.nodes = ms /\ z.num = L - k /\ z.used = b.used /\ z.end = end /\ z.types = b.types
        /\ z.pc = b.pc /\ z.len = b.len
    BY ONLY <1>2, <1>8, <1>10, <2>2, <2>3, <2>4 DEF IsBase, BaseRec
  <2> QED BY ONLY <2>2, <2>5 DEF IsBase
<1>12. Shape(z)
  <2>1. Good(ms, b.types)
    BY ONLY <1>7 DEF RemoveDone
  <2>2. UsedIn(ms, b.used)
    <3>1. UsedIn(ns, b.used)
      BY <1>1 DEF Shape
    <3>2. 1 \in 1 .. i /\ Len(ms) > 0
      BY ONLY <1>2, <1>3, <1>8
    <3>3. ms[1] = ns[1] /\ ms # <<>>
      BY <1>8, <3>2
    <3> QED BY ONLY <3>1, <3>3 DEF UsedIn
  <2>3. Len(ms) = L - k
    BY ONLY <1>3, <1>8
  <2> QED BY ONLY <1>10, <1>11, <2>1, <2>2, <2>3 DEF Shape
<1>13. FrontKept(ms, ns, i)
  <2>1. i \in 0 .. Len(ns) /\ i <= Len(ms)
    BY ONLY <1>2, <1>3, <1>8
  <2>2. \A h \in 1 .. i : ms[h].id = ns[h].id
    BY ONLY <1>8
  <2>3. \A h \in 1 .. i : h - 1 \in 0 .. i
    BY ONLY <1>3
  <2>4. \A h \in 1 .. i : Upto(ms, h - 1) = Upto(ns, h - 1)
    BY ONLY <1>7, <2>3 DEF RemoveDone
  <2> QED BY ONLY <2>1, <2>2, <2>4 DEF FrontKept
<1>14. LenAs(z) = LenAs(b) - (Upto(ns, j) - Upto(ns, i))
  <2>1. PICK o1, o2, o3 : o1 = Upto(ns, i) /\ o2 = Upto(ns, L) /\ o3 = Upto(ns, j)
    OBVIOUS
  <2>2. i \in 0 .. L /\ L \in 0 .. L /\ j \in 0 .. L
    BY ONLY <1>2, <1>3
  <2>3. o1 \in Nat /\ o2 \in Nat /\ o3 \in Nat /\ b.used \in Nat
    BY <1>2, <2>1, <2>2, UptoIs, BaseIs
  <2>4. Upto(ms, Len(ms)) = o1 + (o2 - o3)
    BY ONLY <1>2, <1>7, <2>1 DEF RemoveDone
  <2>5. LenAs(z) = (o1 + (o2 - o3)) - b.used
    BY ONLY <1>11, <2>4 DEF LenAs
  <2>6. LenAs(b) = o2 - b.used
    BY ONLY <1>1, <2>1 DEF LenAs
  <2>7. LenAs(z) = (o2 - b.used) - (o3 - o1)
    BY ONLY <2>3, <2>5
  <2> QED BY ONLY <2>1, <2>6, <2>7
<1>15. j < L => i + 1 \in 1 .. Len(ms) /\ ms[i + 1] = ns[j + 1]
  <2> HAVE j < L
  <2>1. 1 \in 1 .. L - j /\ i + 1 \in 1 .. i + (L - j)
    BY ONLY <1>2, <1>3, j < L
  <2> QED BY ONLY <1>8, <2>1
<1>16. \A t : CountType(ms, t) + CountType(SubSeq(ns, i + 1, j), t) = CountType(ns, t)
  BY ONLY <1>7 DEF RemoveDone
<1>17. UnlinkDone(z, b, i, k)
  <2>1. /\ FrontKept(z.nodes, b.nodes, i) /\ LenAs(z) = LenAs(b) - (Upto(b.nodes, i + k) - Upto(b.nodes, i))
        /\ i + k < Len(b.nodes) => i + 1 \in 1 .. Len(z.nodes) /\ z.nodes[i + 1] = b.nodes[i + k + 1]
    BY ONLY <1>1, <1>11, <1>13, <1>14, <1>15
  <2>2. \A t : CountType(z.nodes, t) + CountType(SubSeq(b.nodes, i + 1, i + k), t) = CountType(b.nodes, t)
    BY ONLY <1>1, <1>11, <1>16
  <2> QED BY ONLY <1>11, <1>12, <2>1, <2>2 DEF UnlinkDone
<1> QED BY ONLY <1>1, <1>17

(* The first r bytes of a node that is not the first go. *)
DropAfterDone(z, b, j, r) ==
  /\ Shape(z) /\ z.len = b.len /\ z.used = b.used /\ z.pc = b.pc
  /\ FrontKept(z.nodes, b.nodes, j) /\ LenAs(z) = LenAs(b) - r
  /\ \A t : CountType(z.nodes, t) = CountType(b.nodes, t)

LEMMA DropAfterIs ==
  ASSUME NEW b, Shape(b), NEW j \in 1 .. Len(b.nodes), 1 < j, NEW r \in Nat, r < NLen(b.nodes[j]), NEW num
  PROVE  DropAfterDone(IovecRedo(DropFront(b, j, r, FALSE), j, num), b, j, r)
<1>1. PICK n, l, t : n = b.nodes[j] /\ l = NLen(n) /\ t = n.data
  OBVIOUS
<1>2. /\ b.nodes \in Seq(NodeRec) /\ IsBase(b) /\ Len(b.nodes) \in Nat /\ LenAs(b) \in Int
  BY BaseIs, NodeIs, LenAsIs DEF Shape
<1>3. t \in Seq(Byte) /\ l = Len(t) /\ l \in Nat /\ r < l /\ r <= l /\ l <= Len(t)
  BY <1>1, <1>2, NodeIs DEF NLen
<1>4. PICK x : x = SubSeq(t, r + 1, l)
  OBVIOUS
<1>5. x \in Seq(Byte) /\ Len(x) = l - r
  BY ONLY <1>3, <1>4, r \in Nat, PartIs
<1>6. PICK g, z, k : g = [b EXCEPT !.nodes[j].data = x] /\ z = IovecRedo(g, j, num) /\ k = Len(x)
  OBVIOUS
<1>7. DataDone(g, b, j, k, b.len)
  <2>1. PICK m \in Nat : m = 0
    OBVIOUS
  <2>2. DataDone([b EXCEPT !.nodes[j].data = x], b, j, Len(x), b.len)
    BY ONLY <1>2, <1>5, <2>1, j \in 1 .. Len(b.nodes), DataSet
  <2> QED BY ONLY <1>6, <2>2
<1>8. AlterDone(g, b, j, k)
  <2>1. 0 < k /\ k <= l /\ k \in Nat /\ k = l - r
    BY ONLY <1>3, <1>5, <1>6, r \in Nat
  <2>2. k <= NLen(b.nodes[j]) /\ ~(j = 1)
    BY <1>1, <2>1
  <2> QED BY ONLY <1>7, <2>1, <2>2, Shape(b), DataIs
<1>9. IsBase(g) /\ Shape(g)
  BY ONLY <1>7, <1>8 DEF DataDone, AlterDone
<1>10. Same(g, z)
  BY ONLY <1>6, <1>9, IovecEntriesSame
<1>11. Like(g, z) /\ z.len = g.len
  BY ONLY <1>10 DEF Same, Like
<1>12. Shape(z) /\ LenAs(z) = LenAs(g)
  BY ONLY <1>9, <1>11, LikeShape
<1>13. z.nodes = g.nodes /\ z.used = b.used /\ z.pc = b.pc /\ z.len = b.len
  BY ONLY <1>7, <1>11 DEF DataDone, Like
<1>14. LenAs(g) = LenAs(b) - r
  <2>1. LenAs(g) = LenAs(b) + (k - l)
    BY ONLY <1>1, <1>8 DEF AlterDone
  <2>2. k - l = 0 - r
    BY ONLY <1>3, <1>5, <1>6, r \in Nat
  <2> QED BY ONLY <1>2, <2>1, <2>2, r \in Nat
<1>15. FrontKept(g.nodes, b.nodes, j) /\ \A u : CountType(g.nodes, u) = CountType(b.nodes, u)
  BY ONLY <1>8 DEF AlterDone
<1>16. DropAfterDone(z, b, j, r)
  BY ONLY <1>12, <1>13, <1>14, <1>15 DEF DropAfterDone
<1>17. DropFront(b, j, r, FALSE) = g
  BY ONLY <1>1, <1>3, <1>4, <1>6 DEF DropFront
<1> QED BY ONLY <1>6, <1>16, <1>17

(* The data behind f is deleted to the end of its node, and rem bytes of   *)
(* the nodes that follow: k whole nodes, and r bytes of the next one.      *)
LEMMA DelAfterIs ==
  ASSUME NEW b, NEW c, NEW pos, NEW len, NEW f, MayCut(b, c, pos, len, f),
         NLen(b.nodes[f.i]) <= f.p + len
  PROVE  DelDone(b, len, DelAfter(CutNode(b, f, len), c, pos, f, f.p + len - NLen(b.nodes[f.i])))
<1>1. PICK i, p, l, U, L, u, w, m : /\ i = f.i /\ p = f.p /\ l = NLen(b.nodes[i]) /\ U = Upto(b.nodes, i - 1)
                                    /\ L = Len(b.nodes) /\ u = b.used /\ w = pos - 1 /\ m = b.len - len
  OBVIOUS
<1>2. /\ i \in 1 .. L /\ i \in Nat /\ p \in Nat /\ p <= l /\ l \in Nat /\ U \in Nat /\ U + p = w + u
      /\ l <= p + len
  BY ONLY <1>1, MayCut(b, c, pos, len, f), MayCutIs, NLen(b.nodes[f.i]) <= f.p + len
<1>3. MayDel(b, c, pos, len) /\ 1 < pos
  BY DEF MayCut
<1>4. /\ Shape(b) /\ LenIs(b) /\ IsBase(b) /\ b.nodes \in Seq(NodeRec) /\ L \in Nat
      /\ b.len \in Nat /\ u \in Nat /\ len \in Nat /\ pos \in Nat /\ pos + len <= b.len + 1 /\ m \in Nat
  BY ONLY <1>1, <1>3, MayDelIs
<1>5. w \in Nat /\ w + len <= b.len
  BY ONLY <1>1, <1>3, <1>4
<1>6. PICK g, rem : g = CutNode(b, f, len) /\ rem = p + len - l
  OBVIOUS
<1>7. CutDone(g, b, f, len)
  BY ONLY <1>6, MayCut(b, c, pos, len, f), CutNodeIs
<1>8. /\ Shape(g) /\ g.len = m /\ g.used = u /\ g.pc = b.pc /\ Len(g.nodes) = L
      /\ FrontKept(g.nodes, b.nodes, i) /\ LenAs(g) = b.len + (p - l) /\ Upto(g.nodes, i) = U + p
      /\ \A t : CountType(g.nodes, t) = CountType(b.nodes, t)
  BY ONLY <1>1, <1>7 DEF CutDone
<1>9. g.nodes \in Seq(NodeRec)
  BY <1>8, BaseIs DEF Shape
<1>10. rem \in Nat
  BY ONLY <1>2, <1>4, <1>6
<1>11. PICK k : k = Whole(g, i, rem)
  OBVIOUS
<1>12. WholeDone(g.nodes, i, rem, k)
  <2>1. i \in 0 .. Len(g.nodes)
    BY ONLY <1>2, <1>4, <1>8
  <2> QED BY ONLY <1>9, <1>10, <1>11, <2>1, WholeIs
<1>13. /\ k \in 0 .. L - i /\ Upto(g.nodes, i + k) - Upto(g.nodes, i) <= rem
       /\ i + k < L => rem < Upto(g.nodes, i + k + 1) - Upto(g.nodes, i)
  BY ONLY <1>8, <1>12 DEF WholeDone
<1>14. PICK o1, o2, x, r : /\ o1 = Upto(g.nodes, i) /\ o2 = Upto(g.nodes, i + k) /\ x = o2 - o1
                           /\ r = rem - (Upto(g.nodes, i + k) - Upto(g.nodes, i))
  OBVIOUS
<1>15. \A j \in 0 .. L : Upto(g.nodes, j) \in Nat
  BY <1>8, <1>9, UptoIs
<1>16. k \in Nat /\ i + k \in 0 .. L /\ i + k <= L /\ o1 \in Nat /\ o2 \in Nat /\ i \in 0 .. L
  <2>1. k \in Nat /\ i + k \in 0 .. L /\ i \in 0 .. L /\ i + k <= L
    BY ONLY <1>2, <1>4, <1>13
  <2> QED BY ONLY <1>14, <1>15, <2>1
<1>17. r \in Nat /\ r = rem - x /\ x \in Int
  <2>1. r = rem - x /\ x <= rem
    BY ONLY <1>13, <1>14
  <2> QED BY ONLY <1>10, <1>14, <1>16, <2>1
<1>18. r > 0 => i + k < L
  <2> HAVE r > 0
  <2>1. ASSUME i + k = L PROVE FALSE
    <3>1. o2 = Upto(g.nodes, L)
      BY ONLY <1>14, <2>1
    <3>2. LenAs(g) = o2 - u
      BY ONLY <1>8, <3>1 DEF LenAs
    <3>3. o1 = U + p /\ o2 - u = b.len + (p - l)
      BY ONLY <1>8, <1>14, <3>2
    <3>4. x = b.len + (p - l) + u - (U + p)
      BY ONLY <1>2, <1>4, <1>14, <1>16, <3>3
    <3>5. rem <= x
      BY ONLY <1>2, <1>4, <1>5, <1>6, <3>4
    <3> QED BY ONLY <1>10, <1>17, <3>5, r > 0
  <2> QED BY ONLY <1>4, <1>16, <2>1
<1>19. PICK b1 : b1 = Unlinked(g, i, f.num, k)
  OBVIOUS
<1>20. UnlinkDone(b1, g, i, k)
  <2>1. i \in 1 .. Len(g.nodes) /\ k \in 0 .. Len(g.nodes) - i
    BY ONLY <1>2, <1>8, <1>13
  <2>2. PICK num : num = f.num
    OBVIOUS
  <2>3. UnlinkDone(Unlinked(g, i, num, k), g, i, k)
    BY ONLY <1>8, <2>1, UnlinkedIs
  <2> QED BY ONLY <1>19, <2>2, <2>3
<1>21. /\ Shape(b1) /\ b1.len = m /\ b1.used = u /\ b1.pc = b.pc /\ FrontKept(b1.nodes, g.nodes, i)
       /\ LenAs(b1) = LenAs(g) - x
       /\ i + k < L => i + 1 \in 1 .. Len(b1.nodes) /\ b1.nodes[i + 1] = g.nodes[i + k + 1]
       /\ \A t : CountType(b1.nodes, t) + CountType(SubSeq(g.nodes, i + 1, i + k), t) = CountType(b.nodes, t)
  BY ONLY <1>8, <1>14, <1>20 DEF UnlinkDone
<1>22. b1.nodes \in Seq(NodeRec)
  BY <1>21, BaseIs DEF Shape
<1>23. FrontKept(b1.nodes, b.nodes, i)
  <2>1. i <= i
    BY ONLY <1>2
  <2> QED BY ONLY <1>2, <1>4, <1>8, <1>21, <1>22, <2>1, FrontTrans
<1>24. LenAs(b1) - r = m
  <2>1. PICK o3, o4, y : o3 = LenAs(g) /\ o4 = LenAs(b1) /\ y = b.len
    OBVIOUS
  <2>2. o4 = o3 - x /\ o3 = y + (p - l) /\ m = y - len /\ y \in Nat
    BY ONLY <1>1, <1>4, <1>8, <1>21, <2>1
  <2>3. o4 - r = m
    BY ONLY <1>2, <1>4, <1>6, <1>10, <1>17, <2>2
  <2> QED BY ONLY <2>1, <2>3
<1>25. PICK z : z = IF r > 0 THEN IovecRedo(DropFront(b1, i + 1, r, FALSE), i + 1, f.num + 1) ELSE b1
  OBVIOUS
<1>26. /\ Shape(z) /\ z.len = m /\ z.used = u /\ z.pc = b.pc /\ FrontKept(z.nodes, b.nodes, i)
       /\ LenAs(z) = m /\ \A t : CountType(z.nodes, t) = CountType(b1.nodes, t)
  <2>1. CASE ~(r > 0)
    <3>1. z = b1
      BY ONLY <1>25, <2>1
    <3>2. LenAs(b1) = m
      <4>1. r = 0 /\ LenAs(b1) \in Int
        BY <1>17, <1>21, <2>1, LenAsIs
      <4> QED BY ONLY <1>24, <4>1
    <3> QED BY ONLY <1>21, <1>23, <3>1, <3>2
  <2>2. CASE r > 0
    <3>1. PICK j, num : j = i + 1 /\ num = f.num + 1
      OBVIOUS
    <3>2. i + k < L
      BY ONLY <1>18, <2>2
    <3>3. z = IovecRedo(DropFront(b1, j, r, FALSE), j, num)
      BY ONLY <1>25, <2>2, <3>1
    <3>4. j \in 1 .. Len(b1.nodes) /\ b1.nodes[j] = g.nodes[i + k + 1]
      BY ONLY <1>21, <3>1, <3>2
    <3>5. j \in Nat /\ 1 < j /\ i <= j
      BY ONLY <1>2, <3>1
    <3>6. r < NLen(b1.nodes[j])
      <4>1. PICK q, y : q = i + k + 1 /\ y = NLen(g.nodes[q])
        OBVIOUS
      <4>2. q \in 1 .. L /\ q - 1 = i + k
        BY ONLY <1>2, <1>4, <1>16, <3>2, <4>1
      <4>3. Upto(g.nodes, q) = Upto(g.nodes, q - 1) + NLen(g.nodes[q]) /\ NLen(g.nodes[q]) \in Nat
        BY <1>8, <1>9, <4>2, UptoIs, NodeIs
      <4>4. Upto(g.nodes, q) = o2 + y /\ y \in Nat
        BY ONLY <1>14, <4>1, <4>2, <4>3
      <4>5. rem < (o2 + y) - o1
        BY ONLY <1>13, <1>14, <3>2, <4>1, <4>4
      <4>6. r < y
        BY ONLY <1>10, <1>14, <1>16, <1>17, <4>4, <4>5
      <4> QED BY ONLY <3>4, <4>1, <4>6
    <3>7. DropAfterDone(z, b1, j, r)
      BY ONLY <1>17, <1>21, <3>3, <3>4, <3>5, <3>6, DropAfterIs
    <3>8. /\ Shape(z) /\ z.len = m /\ z.used = u /\ z.pc = b.pc /\ FrontKept(z.nodes, b1.nodes, j)
          /\ LenAs(z) = m /\ \A t : CountType(z.nodes, t) = CountType(b1.nodes, t)
      BY ONLY <1>21, <1>24, <3>7 DEF DropAfterDone
    <3>9. z.nodes \in Seq(NodeRec)
      BY <3>8, BaseIs DEF Shape
    <3>10. FrontKept(z.nodes, b.nodes, i)
      BY ONLY <1>4, <1>23, <3>5, <3>8, <3>9, FrontTrans
    <3> QED BY ONLY <3>8, <3>10
  <2> QED BY ONLY <2>1, <2>2
<1>27. PICK h, xs : xs = SubSeq(g.nodes, i + 1, i + k) /\ h = Relink(c, xs)
  OBVIOUS
<1>28. Fits(z.nodes, h)
  <2>1. xs \in Seq(NodeRec)
    <3>1. PICK j : j = i + k
      OBVIOUS
    <3>2. j \in Nat /\ i <= j /\ j <= Len(g.nodes)
      BY ONLY <1>2, <1>4, <1>8, <1>16, <3>1
    <3>3. SubSeq(g.nodes, i + 1, j) \in Seq(NodeRec)
      BY ONLY <1>2, <1>9, <3>2, PartIs
    <3> QED BY ONLY <1>27, <3>1, <3>3
  <2>2. z.nodes \in Seq(NodeRec)
    BY <1>26, BaseIs DEF Shape
  <2>3. \A t \in NodeTypes : CountType(z.nodes, t) + CountType(xs, t) = CountType(b.nodes, t)
    BY ONLY <1>21, <1>26, <1>27
  <2>4. Fits(b.nodes, c)
    BY <1>3 DEF MayDel
  <2> QED BY ONLY <1>27, <2>1, <2>2, <2>3, <2>4, RelinkIs
<1>29. PosUpto(z, pos - 1)
  <2>1. w + b.used <= Upto(b.nodes, i)
    <3>1. Upto(b.nodes, i) = U + l
      <4>1. Upto(b.nodes, i) = Upto(b.nodes, i - 1) + NLen(b.nodes[i])
        BY ONLY <1>1, <1>2, <1>4, UptoIs
      <4> QED BY ONLY <1>1, <4>1
    <3>2. w + b.used = U + p
      BY ONLY <1>1, <1>2
    <3>3. U + p <= U + l
      BY ONLY <1>2
    <3> QED BY ONLY <3>1, <3>2, <3>3
  <2>2. PosUpto(b, w)
    BY <1>3, PosStart DEF MayDel
  <2>3. IsBase(z) /\ z.used = b.used
    BY ONLY <1>1, <1>26 DEF Shape
  <2>4. PosUpto(z, w)
    BY ONLY <1>4, <1>5, <1>26, <2>1, <2>2, <2>3, PosKept
  <2> QED BY ONLY <1>1, <2>4
<1>30. PICK d : d = CacheDel(z, pos)
  OBVIOUS
<1>31. DelDone(b, len, [b |-> d, c |-> h, ok |-> TRUE])
  BY ONLY <1>1, <1>3, <1>26, <1>28, <1>29, <1>30, DelEnds
<1>32. DelAfter(g, c, pos, f, rem) = [b |-> d, c |-> h, ok |-> TRUE]
  <2>1. DelAfter(g, c, pos, f, rem) = DelNodesAfter(g, c, pos, f, rem, k)
    BY ONLY <1>1, <1>11 DEF DelAfter
  <2>2. DelNodesAfter(g, c, pos, f, rem, k) =
          [b |-> CacheDel(IF r > 0 THEN IovecRedo(DropFront(b1, f.i + 1, r, FALSE), f.i + 1, f.num + 1)
                                   ELSE b1, pos),
           c |-> Relink(c, SubSeq(g.nodes, f.i + 1, f.i + k)), ok |-> TRUE]
    BY ONLY <1>1, <1>14, <1>19 DEF DelNodesAfter
  <2> QED BY ONLY <1>1, <1>25, <1>27, <1>30, <2>1, <2>2
<1>33. DelAfter(g, c, pos, f, rem) = DelAfter(CutNode(b, f, len), c, pos, f, f.p + len - NLen(b.nodes[f.i]))
  BY ONLY <1>1, <1>6
<1> QED BY ONLY <1>31, <1>32, <1>33

(* vstr_extern_inline_del() for pos > 1 *)
LEMMA DelMidIs ==
  ASSUME NEW b, NEW c, NEW pos, NEW len, MayDel(b, c, pos, len), 1 < pos
  PROVE  DelDone(b, len, DelMid(b, c, pos, len))
<1>1. PICK w, f : w = pos - 1 /\ f = BasePos(b, pos - 1)
  OBVIOUS
<1>2. /\ pos \in Nat /\ b.len \in Nat /\ len \in Nat /\ 0 < len /\ pos + len <= b.len + 1 /\ Right(b)
  BY MayDelIs DEF MayDel
<1>3. w \in 1 .. b.len
  BY ONLY <1>1, <1>2, 1 < pos
<1>4. Found(b, w, f)
  <2>1. Found(b, w, BasePos(b, w))
    BY ONLY <1>2, <1>3, BasePosIs
  <2> QED BY ONLY <1>1, <2>1
<1>5. MayCut(b, c, pos, len, f)
  BY ONLY <1>1, <1>4, MayDel(b, c, pos, len), 1 < pos DEF MayCut
<1>6. NLen(b.nodes[f.i]) \in Nat /\ f.p \in Nat
  BY ONLY <1>5, MayCutIs
<1>7. DelMid(b, c, pos, len) = DelFound(b, c, pos, len, f)
  BY ONLY <1>1 DEF DelMid
<1>8. CASE f.p + len < NLen(b.nodes[f.i])
  <2>1. PICK s : s = IF Splits(b.nodes[f.i]) THEN SplitNode(b, c, f.i, f.p + len)
                     ELSE [b |-> b, c |-> c, ok |-> TRUE]
    OBVIOUS
  <2>2. SplitFor(b, len, f, s)
    BY ONLY <1>5, <1>8, <2>1, SplitForIs
  <2>3. DelDone(b, len, CutInner(s, pos, f, len))
    BY ONLY <1>5, <2>2, CutInnerIs
  <2>4. DelFound(b, c, pos, len, f) = CutInner(s, pos, f, len)
    BY ONLY <1>8, <2>1 DEF DelFound
  <2> QED BY ONLY <1>7, <2>3, <2>4
<1>9. CASE ~(f.p + len < NLen(b.nodes[f.i]))
  <2>1. NLen(b.nodes[f.i]) <= f.p + len
    BY ONLY <1>2, <1>6, <1>9
  <2>2. PICK r : r = DelAfter(CutNode(b, f, len), c, pos, f, f.p + len - NLen(b.nodes[f.i]))
    OBVIOUS
  <2>3. DelDone(b, len, r)
    BY ONLY <1>5, <2>1, <2>2, DelAfterIs
  <2>4. DelFound(b, c, pos, len, f) = r
    BY ONLY <1>9, <2>2 DEF DelFound
  <2> QED BY ONLY <1>7, <2>3, <2>4
<1> QED BY ONLY <1>8, <1>9

(* vstr_del() *)
LEMMA DelIs ==
  ASSUME NEW b, NEW c, NEW pos, NEW len, MayDel(b, c, pos, len)
  PROVE  DelDone(b, len, DelOp(b, c, pos, len))
<1>1. PICK r1, r2, r : /\ r1 = [b |-> [IovecDropFront(DropFront(b, 1, len, TRUE), 1, len)
                                         EXCEPT !.len = @ - len, !.pc = NoPos],
                                c |-> c, ok |-> TRUE]
                       /\ r2 = [b |-> [IovecLenAdd(b, b.num, -len) EXCEPT
                                         !.nodes[b.num].data = SubSeq(@, 1, Len(@) - len),
                                         !.len = @ - len, !.pc = NoPos],
                                c |-> c, ok |-> TRUE]
                       /\ r = DelOp(b, c, pos, len)
  OBVIOUS
<1>2. PICK r3, r4, r5 : r3 = DelAll(b, c) /\ r4 = DelBeg(b, c, len) /\ r5 = DelMid(b, c, pos, len)
  OBVIOUS
<1>3. PICK g1 \in BOOLEAN, g2 \in BOOLEAN :
        /\ g1 <=> ~UserCache /\ InlineBeg(b, pos, len)
        /\ g2 <=> ~UserCache /\ ~InlineBeg(b, pos, len) /\ InlineEnd(b, pos, len)
  <2>1. (~UserCache /\ InlineBeg(b, pos, len)) \in BOOLEAN
        /\ (~UserCache /\ ~InlineBeg(b, pos, len) /\ InlineEnd(b, pos, len)) \in BOOLEAN
    OBVIOUS
  <2> QED BY ONLY <2>1, Zenon
<1>4. r = CASE ~UserCache /\ InlineBeg(b, pos, len) -> r1
            [] ~UserCache /\ ~InlineBeg(b, pos, len) /\ InlineEnd(b, pos, len) -> r2
            [] OTHER -> CASE pos = 1 /\ len = b.len -> r3
                          [] pos = 1 /\ len < b.len -> r4
                          [] OTHER -> r5
  BY ONLY <1>1, <1>2 DEF DelOp
<1>5. /\ g1 => r = r1 /\ InlineBeg(b, pos, len)
      /\ g2 => r = r2 /\ InlineEnd(b, pos, len)
      /\ ~g1 /\ ~g2 => r = CASE pos = 1 /\ len = b.len -> r3
                             [] pos = 1 /\ len < b.len -> r4
                             [] OTHER -> r5
  BY ONLY <1>3, <1>4
<1>6. pos \in Nat /\ 0 < pos /\ len \in Nat /\ b.len \in Nat /\ pos + len <= b.len + 1
  BY MayDelIs
<1>7. CASE g1
  <2>1. DelDone(b, len, r1)
    BY ONLY <1>1, <1>5, <1>7, MayDel(b, c, pos, len), InlineBegIs
  <2> QED BY ONLY <1>1, <1>5, <1>7, <2>1
<1>8. CASE g2
  <2>1. DelDone(b, len, r2)
    BY ONLY <1>1, <1>5, <1>8, MayDel(b, c, pos, len), InlineEndIs
  <2> QED BY ONLY <1>1, <1>5, <1>8, <2>1
<1>9. CASE ~g1 /\ ~g2
  <2>0. r = CASE pos = 1 /\ len = b.len -> r3 [] pos = 1 /\ len < b.len -> r4 [] OTHER -> r5
    BY ONLY <1>5, <1>9
  <2>1. CASE pos = 1 /\ len = b.len
    <3>1. DelDone(b, len, r3)
      BY ONLY <1>2, <2>1, MayDel(b, c, pos, len), DelAllIs
    <3>2. ~(len < b.len)
      BY ONLY <1>6, <2>1
    <3>3. r = r3
      BY ONLY <2>0, <2>1, <3>2
    <3> QED BY ONLY <1>1, <3>1, <3>3
  <2>2. CASE pos = 1 /\ len < b.len
    <3>1. DelDone(b, len, r4)
      BY ONLY <1>2, <2>2, MayDel(b, c, pos, len), DelBegIs
    <3>2. ~(len = b.len)
      BY ONLY <1>6, <2>2
    <3>3. r = r4
      BY ONLY <2>0, <2>2, <3>2
    <3> QED BY ONLY <1>1, <3>1, <3>3
  <2>3. CASE pos # 1
    <3>1. 1 < pos
      BY ONLY <1>6, <2>3
    <3>2. DelDone(b, len, r5)
      BY ONLY <1>2, <3>1, MayDel(b, c, pos, len), DelMidIs
    <3>3. r = r5
      BY ONLY <2>0, <2>3
    <3> QED BY ONLY <1>1, <3>2, <3>3
  <2>4. pos = 1 => len = b.len \/ len < b.len
    BY ONLY <1>6
  <2> QED BY ONLY <2>1, <2>2, <2>3, <2>4
<1> QED BY ONLY <1>7, <1>8, <1>9

-----------------------------------------------------------------------------
(* The invariant.  NodesInv is not inductive: the types of all fields have *)
(* to be known, those of the position cache and of the nodes' data too,    *)
(* and that no more nodes were made than there is memory for.              *)

InvOf(b, c) == Right(b) /\ b.len <= MaxLen /\ Fits(b.nodes, c)

IInv == InvOf(base, conf)

(* vstr_make_base(): the empty string. *)
LEMMA NewIs == InvOf(NewBase, NewConf)
<1>1. PICK b, c, e : b = NewBase /\ c = NewConf /\ e = <<>>
  OBVIOUS
<1>2. e \in Seq(NodeRec) /\ Len(e) = 0 /\ Upto(e, 0) = 0 /\ \A t : CountType(e, t) = 0
  BY <1>1, EmptyIs
<1>3. NoPos \in PosRec /\ NoPos.node = 0 /\ IovMinOffset \in Nat /\ MaxLen \in Nat /\ Cap \in [NodeTypes -> Nat]
  BY NodesAssumption DEF NoPos, PosRec
<1>4. b = [nodes |-> e, used |-> 0, len |-> 0, num |-> 0, end |-> 0, types |-> {},
           upto |-> FALSE, pc |-> NoPos, minoff |-> IovMinOffset,
           vec |-> [sz |-> 0, off |-> 0, v |-> <<>>]]
  BY ONLY <1>1 DEF NewBase
<1>5. /\ IsBase(b) /\ b.nodes = e /\ b.used = 0 /\ b.len = 0 /\ b.num = 0 /\ b.end = 0 /\ b.types = {}
      /\ b.pc = NoPos
  BY ONLY <1>2, <1>3, <1>4 DEF IsBase, BaseRec
<1>6. Right(b)
  <2>1. Good(e, {}) /\ EndOf(e) = 0 /\ UsedIn(e, 0)
    BY <1>1, <1>2 DEF Good, EndOf, UsedIn
  <2>2. Shape(b)
    BY ONLY <1>2, <1>5, <2>1 DEF Shape
  <2>3. LenIs(b)
    BY ONLY <1>2, <1>5 DEF LenIs
  <2> QED BY <1>3, <1>5, <2>2, <2>3 DEF Right, PosCacheOf
<1>7. Fits(e, c)
  <2>1. /\ c \in ConfRec /\ c.ref = 1
        /\ \A t \in NodeTypes : c.made[t] = 0 /\ c.spare[t] = 0
    BY <1>1 DEF NewConf, ConfRec
  <2>2. \A t \in NodeTypes : Cap[t] \in Nat
    BY <1>3
  <2> QED BY <1>2, <2>1, <2>2 DEF Fits
<1> QED BY <1>1, <1>3, <1>5, <1>6, <1>7 DEF InvOf

(* vstr_free_spare_nodes() *)
LEMMA FreeIs ==
  ASSUME NEW ns, NEW c, Fits(ns, c), NEW t \in NodeTypes, c.spare[t] > 0
  PROVE  Fits(ns, [c EXCEPT !.spare[t] = @ - 1, !.made[t] = @ - 1])
<1>1. PICK d, x, y : d = [c EXCEPT !.spare[t] = @ - 1, !.made[t] = @ - 1] /\ x = c.spare[t] /\ y = c.made[t]
  OBVIOUS
<1>2. /\ c \in ConfRec /\ ns \in Seq(NodeRec) /\ c.ref = 1 + CountType(ns, "REF")
      /\ \A u \in NodeTypes : c.made[u] <= Cap[u] /\ c.made[u] = c.spare[u] + CountType(ns, u)
  BY DEF Fits
<1>3. /\ c.spare \in [NodeTypes -> Nat] /\ c.made \in [NodeTypes -> Nat] /\ x \in Nat /\ y \in Nat
  BY <1>1, <1>2 DEF ConfRec
<1>4. CountType(ns, t) \in Nat /\ Cap[t] \in Nat
  BY <1>2, CountIs, NodesAssumption
<1>5. x - 1 \in Nat /\ y - 1 \in Nat /\ y - 1 = (x - 1) + CountType(ns, t) /\ y - 1 <= Cap[t]
  BY <1>1, <1>2, <1>3, <1>4
<1>6. d = [c EXCEPT !.spare = [c.spare EXCEPT ![t] = x - 1], !.made = [c.made EXCEPT ![t] = y - 1]]
  BY ONLY <1>1
<1>7. PICK s, m : s = [c.spare EXCEPT ![t] = x - 1] /\ m = [c.made EXCEPT ![t] = y - 1]
  OBVIOUS
<1>8. /\ s \in [NodeTypes -> Nat] /\ m \in [NodeTypes -> Nat] /\ s[t] = x - 1 /\ m[t] = y - 1
      /\ \A u \in NodeTypes : u # t => s[u] = c.spare[u] /\ m[u] = c.made[u]
  BY <1>3, <1>5, <1>7
<1>9. d \in ConfRec /\ d.ref = c.ref /\ d.spare = s /\ d.made = m
  BY ONLY <1>2, <1>6, <1>7, <1>8 DEF ConfRec
<1>10. ASSUME NEW u \in NodeTypes PROVE d.made[u] <= Cap[u] /\ d.made[u] = d.spare[u] + CountType(ns, u)
  <2>1. CASE u = t
    BY ONLY <1>5, <1>8, <1>9, <2>1
  <2>2. CASE u # t
    BY ONLY <1>2, <1>8, <1>9, <2>2, u \in NodeTypes
  <2> QED BY ONLY <2>1, <2>2
<1>11. Fits(ns, d)
  BY ONLY <1>2, <1>9, <1>10 DEF Fits
<1> QED BY ONLY <1>1, <1>11

(* A step in which the nodes stay and the iovec cache may change. *)
LEMMA SameInv ==
  ASSUME NEW b, NEW d, NEW c, InvOf(b, c), Same(b, d)
  PROVE  InvOf(d, c)
<1>1. Right(d)
  BY SameRight DEF InvOf
<1> QED BY <1>1 DEF InvOf, Same

(* vstr__cache_iovec_valid() *)
LEMMA ExportIovecIs ==
  ASSUME NEW b, IsBase(b)
  PROVE  /\ Same(b, IovecFill(IovecAlloc(b, b.num)))
         /\ Same(b, [b EXCEPT !.upto = b.vec.sz > 0])
         /\ Same(b, [b EXCEPT !.vec.off = IovecOff(b, b.num)])
<1>1. PICK n, ns, at, num, k : n = b.num /\ ns = <<>> /\ at = TRUE /\ num = 0 /\ k = 0
  OBVIOUS
<1>2. n \in Nat /\ Len(ns) \in Nat /\ at \in BOOLEAN
  BY <1>1, BaseIs
<1>3. Same(b, IovecAlloc(b, n)) /\ Same(b, [b EXCEPT !.vec.off = IovecOff(b, n)])
  BY ONLY <1>2, IsBase(b), IovecSame
<1>4. PICK d : d = IovecAlloc(b, n)
  OBVIOUS
<1>5. Same(b, d) /\ IsBase(d)
  BY ONLY <1>3, <1>4 DEF Same
<1>6. Same(d, IovecFill(d))
  BY ONLY <1>5, IovecEntriesSame
<1>7. Same(b, IovecFill(d))
  BY ONLY <1>5, <1>6, SameTrans
<1>8. Same(b, [b EXCEPT !.upto = b.vec.sz > 0])
  <2>0. PICK u \in BOOLEAN : u <=> b.vec.sz > 0
    OBVIOUS
  <2>1. PICK w, v : w = b.vec /\ v = b.vec.v
    OBVIOUS
  <2>2. w \in [sz : Nat, off : Nat, v : {v}]
    BY <2>1 DEF IsBase, BaseRec
  <2>3. Same(b, [b EXCEPT !.upto = u, !.vec = w])
    BY ONLY <2>0, <2>2, IsBase(b), VecSet
  <2>4. u = (b.vec.sz > 0)
    BY <2>0, BaseIs
  <2>5. [b EXCEPT !.upto = b.vec.sz > 0] = [b EXCEPT !.upto = u, !.vec = w]
    BY <2>1, <2>4 DEF IsBase, BaseRec
  <2> QED BY ONLY <2>3, <2>5
<1> QED BY ONLY <1>1, <1>3, <1>4, <1>7, <1>8

(* Every step keeps it. *)
LEMMA StepKeeps == IInv /\ [Next]_vars => IInv'
<1> SUFFICES ASSUME IInv, [Next]_vars PROVE IInv'
  OBVIOUS
<1>1. /\ InvOf(base, conf) /\ Right(base) /\ base.len <= MaxLen /\ Fits(base.nodes, conf)
      /\ IsBase(base) /\ base.len \in Nat /\ MaxLen \in Nat
  BY BaseIs, NodesAssumption DEF IInv, InvOf, Right, Shape
<1>2. ASSUME NEW pos \in 0 .. base.len, NEW in \in Inputs, Add(pos, in) PROVE InvOf(base', conf')
  <2>1. PICK b, c, r : b = base /\ c = conf /\ r = AddOp(base, conf, pos, in)
    OBVIOUS
  <2>2. base' = r.b /\ conf' = r.c /\ b.len + in.len <= MaxLen
    BY <1>2, <2>1 DEF Add, Returns
  <2>3. Right(b) /\ Fits(b.nodes, c) /\ pos \in 0 .. b.len /\ b.len <= MaxLen
    BY ONLY <1>1, <1>2, <2>1
  <2>4. AddDone(b, in, AddOp(b, c, pos, in))
    BY ONLY <1>2, <2>2, <2>3, AddIs
  <2>5. AddDone(b, in, r)
    BY ONLY <2>1, <2>4
  <2>6. Right(r.b) /\ Fits(r.b.nodes, r.c) /\ r.b.len <= MaxLen
    BY ONLY <2>2, <2>3, <2>5 DEF AddDone, Sound
  <2> QED BY ONLY <2>2, <2>6 DEF InvOf
<1>3. ASSUME NEW pos \in 1 .. base.len, NEW len \in 1 .. base.len - pos + 1, Del(pos, len)
      PROVE  InvOf(base', conf')
  <2>1. PICK b, c, r : b = base /\ c = conf /\ r = DelOp(base, conf, pos, len)
    OBVIOUS
  <2>2. base' = r.b /\ conf' = r.c
    BY <1>3, <2>1 DEF Del, Returns
  <2>3. MayDel(b, c, pos, len)
    BY ONLY <1>1, <1>3, <2>1 DEF MayDel
  <2>4. DelDone(b, len, DelOp(b, c, pos, len))
    BY ONLY <2>3, DelIs
  <2>5. DelDone(b, len, r)
    BY ONLY <2>1, <2>4
  <2>6. b.len - len <= MaxLen /\ b.len <= MaxLen
    BY ONLY <1>1, <1>3, <2>1
  <2>7. Right(r.b) /\ Fits(r.b.nodes, r.c) /\ r.b.len <= MaxLen
    BY ONLY <2>5, <2>6 DEF DelDone, Sound
  <2> QED BY ONLY <2>2, <2>7 DEF InvOf
<1>4. ASSUME NEW pos \in 1 .. base.len, ExportChr(pos) PROVE InvOf(base', conf')
  <2>1. PICK b, f, d : b = base /\ f = BasePos(base, pos) /\ d = CachePos(base, pos, f)
    OBVIOUS
  <2>2. base' = d /\ conf' = conf
    BY <1>4, <2>1 DEF ExportChr
  <2>3. Right(b) /\ pos \in 1 .. b.len /\ pos \in Nat /\ d = CachePos(b, pos, f)
    BY <1>1, <1>4, <2>1
  <2>4. Found(b, pos, BasePos(b, pos))
    BY ONLY <2>3, BasePosIs
  <2>5. Found(b, pos, f)
    BY ONLY <2>1, <2>4
  <2>6. Right(d) /\ d.nodes = b.nodes /\ d.len = b.len
    BY ONLY <2>3, <2>5, CachePosIs
  <2> QED BY ONLY <1>1, <2>1, <2>2, <2>6 DEF InvOf
<1>5. ASSUME ExportIovec PROVE InvOf(base', conf')
  <2>1. conf' = conf /\ Same(base, base')
    <3>1. /\ conf' = conf
          /\ base' = IovecFill(IovecAlloc(base, base.num)) \/ base' = [base EXCEPT !.upto = base.vec.sz > 0]
      BY <1>5 DEF ExportIovec
    <3>2. /\ Same(base, IovecFill(IovecAlloc(base, base.num)))
          /\ Same(base, [base EXCEPT !.upto = base.vec.sz > 0])
      BY ONLY <1>1, ExportIovecIs
    <3> QED BY ONLY <3>1, <3>2
  <2> QED BY ONLY <1>1, <2>1, SameInv
<1>6. ASSUME ExportIovecFails PROVE InvOf(base', conf')
  <2>1. conf' = conf /\ Same(base, base')
    <3>1. /\ conf' = conf
          /\ base' = base \/ base' = [base EXCEPT !.vec.off = IovecOff(base, base.num)]
      BY <1>6 DEF ExportIovecFails
    <3>2. Same(base, base) /\ Same(base, [base EXCEPT !.vec.off = IovecOff(base, base.num)])
      BY ONLY <1>1, SameSelf, ExportIovecIs
    <3> QED BY ONLY <3>1, <3>2
  <2> QED BY ONLY <1>1, <2>1, SameInv
<1>7. ASSUME NEW t \in SpareTypes, MakeSpare(t) PROVE InvOf(base', conf')
  <2>1. PICK ns, c, n, d : ns = base.nodes /\ c = conf /\ n = conf.spare[t] + 1 /\ d = Ensure(c, t, n).c
    OBVIOUS
  <2>2. base' = base /\ conf' = d
    BY <1>7, <2>1 DEF MakeSpare
  <2>3. t \in NodeTypes /\ n \in Nat /\ Fits(ns, c)
    BY <1>1, <2>1, NodesAssumption DEF Fits, ConfRec
  <2>4. Fits(ns, Ensure(c, t, n).c)
    BY ONLY <2>3, EnsureIs
  <2> QED BY ONLY <1>1, <2>1, <2>2, <2>4 DEF InvOf
<1>8. ASSUME NEW t \in SpareTypes, FreeSpare(t) PROVE InvOf(base', conf')
  <2>1. PICK ns, c, d : ns = base.nodes /\ c = conf /\ d = [c EXCEPT !.spare[t] = @ - 1, !.made[t] = @ - 1]
    OBVIOUS
  <2>2. base' = base /\ conf' = d /\ c.spare[t] > 0
    BY <1>8, <2>1 DEF FreeSpare
  <2>3. t \in NodeTypes /\ Fits(ns, c)
    BY <1>1, <2>1, NodesAssumption
  <2>4. Fits(ns, d)
    <3>1. Fits(ns, [c EXCEPT !.spare[t] = @ - 1, !.made[t] = @ - 1])
      BY ONLY <2>2, <2>3, FreeIs
    <3> QED BY ONLY <2>1, <3>1
  <2> QED BY ONLY <1>1, <2>1, <2>2, <2>4 DEF InvOf
<1>9. ASSUME UNCHANGED vars PROVE InvOf(base', conf')
  BY <1>1, <1>9 DEF vars
<1>10. InvOf(base', conf')
  BY <1>2, <1>3, <1>4, <1>5, <1>6, <1>7, <1>8, <1>9 DEF Next
<1> QED BY ONLY <1>10 DEF IInv

(* So it always holds. *)
LEMMA IInvHolds == Spec => []IInv
<1>1. Init => IInv
  BY NewIs DEF Init, IInv
<1> QED BY <1>1, StepKeeps, PTL DEF Spec

(* And it says more than NodesInv. *)
LEMMA IInvMeans == IInv => NodesInv
<1> SUFFICES ASSUME IInv PROVE NodesInv
  OBVIOUS
<1>1. PICK b, c, L : b = base /\ c = conf /\ L = Len(base.nodes)
  OBVIOUS
<1>2. Right(b) /\ b.len <= MaxLen /\ Fits(b.nodes, c) /\ Shape(b) /\ LenIs(b) /\ PosCacheOf(b)
  BY <1>1 DEF IInv, InvOf, Right
<1>3. /\ IsBase(b) /\ b.nodes \in Seq(NodeRec) /\ L = Len(b.nodes) /\ L \in Nat /\ b.len \in Nat
      /\ b.num = L /\ b.used \in Nat /\ MaxLen \in Nat /\ Good(b.nodes, b.types)
      /\ UsedIn(b.nodes, b.used) /\ b.end = EndOf(b.nodes)
  BY <1>1, <1>2, BaseIs, NodeIs, NodesAssumption DEF Shape
<1>4. \A i \in 1 .. L : b.nodes[i].id \in Ids /\ b.nodes[i].type \in NodeTypes /\ NLen(b.nodes[i]) \in Nat
  BY <1>3, NodeIs
<1>5. RealNodesOf(b)
  <2>1. \A i \in 1 .. L : /\ NLen(b.nodes[i]) \in 1 .. MaxOf(b.nodes[i].type) /\ b.nodes[i].type \in b.types
                          /\ \A j \in 1 .. i - 1 : b.nodes[j].id # b.nodes[i].id
    <3>1. \A i \in 1 .. L : \A j \in 1 .. i - 1 : j \in 1 .. L /\ j # i
      BY ONLY <1>3
    <3> QED BY ONLY <1>3, <3>1 DEF Good
  <2> QED BY ONLY <1>2, <1>3, <2>1 DEF RealNodesOf, LenIs, EndOf, UsedIn
<1>6. /\ \A t \in NodeTypes : c.spare[t] >= 0 /\ c.made[t] = c.spare[t] + CountType(b.nodes, t)
      /\ c.ref = 1 + CountType(b.nodes, "REF") /\ c.spare \in [NodeTypes -> Nat] /\ c.ref \in Nat
  BY <1>2 DEF Fits, ConfRec
<1>7. b.num \in 0 .. MaxLen /\ b.len \in 0 .. MaxLen
  <2>1. L <= b.len
    BY ONLY <1>2, <1>3, NodesAtMost
  <2> QED BY ONLY <1>2, <1>3, <2>1
<1>8. b.used \in 0 .. BufSz
  <2>1. CASE b.used = 0
    BY <1>3, <2>1, NodesAssumption
  <2>2. CASE b.used # 0
    <3>1. b.nodes # <<>> /\ b.nodes[1].type = "BUF" /\ b.used < NLen(b.nodes[1])
      BY <1>3, <2>2 DEF UsedIn
    <3>2. 1 \in 1 .. L
      BY <1>3, <3>1
    <3>3. NLen(b.nodes[1]) <= BufSz /\ BufSz \in Nat /\ NLen(b.nodes[1]) \in Nat
      BY <1>3, <1>4, <3>1, <3>2, NodesAssumption DEF Good, MaxOf
    <3> QED BY ONLY <1>3, <3>1, <3>3
  <2> QED BY ONLY <2>1, <2>2
<1>9. b.end \in Ids \cup {0}
  <2>1. b.nodes # <<>> => L \in 1 .. L
    BY <1>3
  <2> QED BY ONLY <1>3, <1>4, <2>1 DEF EndOf
<1>10. TypeOK
  <2>1. /\ b.types \subseteq NodeTypes /\ b.upto \in BOOLEAN /\ b.vec.sz \in Nat /\ b.vec.off \in Nat
    BY <1>3, BaseIs
  <2> QED BY ONLY <1>1, <1>4, <1>6, <1>7, <1>8, <1>9, <2>1 DEF TypeOK
<1> QED BY ONLY <1>1, <1>2, <1>5, <1>6, <1>10 DEF NodesInv, RealNodes, NodesConserved, PosCacheNode

(* After any sequence of adds, deletes, looks and exports, the ones that   *)
(* ran out of memory half way too, vstr__check_real_nodes() and            *)
(* vstr__check_spare_nodes() hold, no node and no reference is lost, and   *)
(* the position cache names the node at its position: for every size of a  *)
(* node, every input and every length of the string.                       *)
THEOREM NodesRight == Spec => []NodesInv
BY IInvHolds, IInvMeans, PTL

-----------------------------------------------------------------------------
(* Parts of strings *)

(* s with t in the place of what is after its first p and before its last  *)
(* Len(s) - q bytes.                                                       *)
Mixed(s, p, t, q) == SubSeq(s, 1, p) \o t \o SubSeq(s, q + 1, Len(s))

(* Each of its bytes is one of s or of t. *)
MixedAt(u, s, p, t, q) ==
  /\ u \in Seq(Byte) /\ Len(u) = p + Len(t) + (Len(s) - q)
  /\ \A x \in 1 .. p : u[x] = s[x]
  /\ \A x \in 1 .. Len(t) : u[p + x] = t[x]
  /\ \A x \in 1 .. Len(s) - q : u[p + Len(t) + x] = s[q + x]

LEMMA MixedIs ==
  ASSUME NEW s \in Seq(Byte), NEW t \in Seq(Byte), NEW p \in Nat, NEW q \in Nat,
         p <= q, q <= Len(s)
  PROVE  MixedAt(Mixed(s, p, t, q), s, p, t, q)
<1> DEFINE u == SubSeq(s, 1, p)
           v == SubSeq(s, q + 1, Len(s))
           w == u \o t
           S == Len(s)
           T == Len(t)
<1>1. S \in Nat /\ T \in Nat /\ p <= S
  OBVIOUS
<1>2. u \in Seq(Byte) /\ Len(u) = p /\ \A x \in 1 .. p : u[x] = s[x]
  <2>1. 1 \in Nat /\ 1 <= 1 /\ 1 <= p + 1 /\ p - 1 + 1 = p /\ \A x \in 1 .. p : 1 + x - 1 = x
    OBVIOUS
  <2>2. /\ SubSeq(s, 1, p) \in Seq(Byte) /\ Len(SubSeq(s, 1, p)) = p - 1 + 1
        /\ \A x \in 1 .. p - 1 + 1 : SubSeq(s, 1, p)[x] = s[1 + x - 1]
    BY <1>1, <2>1, SubSeqIs
  <2> QED BY <2>1, <2>2
<1>3. v \in Seq(Byte) /\ Len(v) = S - q /\ \A x \in 1 .. S - q : v[x] = s[q + x]
  BY <1>1, PartIs
<1> HIDE DEF u, v
<1>4. /\ w \in Seq(Byte) /\ Len(w) = p + T
      /\ \A x \in 1 .. p + T : w[x] = IF x <= p THEN u[x] ELSE t[x - p]
  BY <1>2, ConcatIs
<1> HIDE DEF w
<1>5. /\ w \o v \in Seq(Byte) /\ Len(w \o v) = (p + T) + (S - q)
      /\ \A x \in 1 .. (p + T) + (S - q) :
           (w \o v)[x] = IF x <= p + T THEN w[x] ELSE v[x - (p + T)]
  <2>1. /\ w \o v \in Seq(Byte) /\ Len(w \o v) = Len(w) + Len(v)
        /\ \A x \in 1 .. Len(w) + Len(v) :
             (w \o v)[x] = IF x <= Len(w) THEN w[x] ELSE v[x - Len(w)]
    BY ONLY <1>3, <1>4, ConcatIs
  <2> QED BY ONLY <1>3, <1>4, <2>1
<1>6. \A x \in 1 .. p : (w \o v)[x] = s[x]
  <2> TAKE x \in 1 .. p
  <2>1. x \in 1 .. p + T /\ x <= p /\ x <= p + T /\ x \in 1 .. (p + T) + (S - q)
    BY <1>1
  <2> QED BY ONLY <1>2, <1>4, <1>5, <2>1, x \in 1 .. p
<1>7. \A x \in 1 .. T : (w \o v)[p + x] = t[x]
  <2> TAKE x \in 1 .. T
  <2>1. p + x \in 1 .. p + T /\ ~(p + x <= p) /\ p + x <= p + T /\ p + x - p = x
        /\ p + x \in 1 .. (p + T) + (S - q)
    BY <1>1
  <2> QED BY ONLY <1>4, <1>5, <2>1
<1>8. \A x \in 1 .. S - q : (w \o v)[p + T + x] = s[q + x]
  <2> TAKE x \in 1 .. S - q
  <2>1. p + T + x \in 1 .. (p + T) + (S - q) /\ ~(p + T + x <= p + T) /\ p + T + x - (p + T) = x
    BY <1>1
  <2> QED BY ONLY <1>3, <1>5, <2>1, x \in 1 .. S - q
<1>9. Mixed(s, p, t, q) = w \o v
  BY DEF Mixed, u, v, w
<1> QED BY ONLY <1>5, <1>6, <1>7, <1>8, <1>9 DEF MixedAt, S, T

(* Only one string has them. *)
LEMMA MixedOnly ==
  ASSUME NEW s \in Seq(Byte), NEW t \in Seq(Byte), NEW p \in Nat, NEW q \in Nat,
         p <= q, q <= Len(s), NEW u, MixedAt(u, s, p, t, q)
  PROVE  u = Mixed(s, p, t, q)
<1>1. PICK v : v = Mixed(s, p, t, q)
  OBVIOUS
<1>2. MixedAt(v, s, p, t, q)
  BY <1>1, MixedIs
<1>3. PICK S, T, N : S = Len(s) /\ T = Len(t) /\ N = p + T + (S - q)
  OBVIOUS
<1>4. S \in Nat /\ T \in Nat /\ N \in Nat /\ q <= S
  BY <1>3
<1>5. u \in Seq(Byte) /\ v \in Seq(Byte) /\ Len(u) = N /\ Len(v) = N
  BY ONLY <1>2, <1>3, MixedAt(u, s, p, t, q) DEF MixedAt
<1>6. \A x \in 1 .. N : u[x] = v[x]
  <2> TAKE x \in 1 .. N
  <2>1. CASE x <= p
    <3>1. x \in 1 .. p
      BY <1>4, <2>1
    <3> QED BY ONLY <1>2, <3>1, MixedAt(u, s, p, t, q) DEF MixedAt
  <2>2. CASE p < x /\ x <= p + T
    <3>1. x - p \in 1 .. T /\ p + (x - p) = x
      BY <1>4, <2>2
    <3>2. u[p + (x - p)] = t[x - p] /\ v[p + (x - p)] = t[x - p]
      BY ONLY <1>2, <1>3, <3>1, MixedAt(u, s, p, t, q) DEF MixedAt
    <3> QED BY ONLY <3>1, <3>2
  <2>3. CASE p + T < x
    <3>1. x - p - T \in 1 .. S - q /\ p + T + (x - p - T) = x
      BY <1>3, <1>4, <2>3
    <3>2. u[p + T + (x - p - T)] = s[q + (x - p - T)] /\ v[p + T + (x - p - T)] = s[q + (x - p - T)]
      BY ONLY <1>2, <1>3, <3>1, MixedAt(u, s, p, t, q) DEF MixedAt
    <3> QED BY ONLY <3>1, <3>2
  <2> QED BY <1>4, <2>1, <2>2, <2>3
<1>7. u = v
  BY ONLY <1>4, <1>5, <1>6
<1> QED BY ONLY <1>1, <1>7

(* A string in another one: what is changed in the one is changed in the   *)
(* other.                                                                  *)
Within(d, s, U) == U + Len(d) <= Len(s) /\ \A x \in 1 .. Len(d) : s[U + x] = d[x]

LEMMA MixedInner ==
  ASSUME NEW s \in Seq(Byte), NEW d \in Seq(Byte), NEW t \in Seq(Byte), NEW U \in Nat,
         Within(d, s, U), NEW p \in Nat, NEW q \in Nat, p <= q, q <= Len(d)
  PROVE  Mixed(s, U, Mixed(d, p, t, q), U + Len(d)) = Mixed(s, U + p, t, U + q)
<1>1. PICK e, u, S, D, T : /\ e = Mixed(d, p, t, q) /\ u = Mixed(s, U, e, U + Len(d))
                           /\ S = Len(s) /\ D = Len(d) /\ T = Len(t)
  OBVIOUS
<1>2. S \in Nat /\ D \in Nat /\ T \in Nat /\ U + D <= S /\ q <= D
  BY <1>1 DEF Within
<1>3. MixedAt(e, d, p, t, q)
  BY <1>1, MixedIs
<1>4. e \in Seq(Byte) /\ Len(e) = p + T + (D - q)
  BY <1>1, <1>3 DEF MixedAt
<1>5. MixedAt(u, s, U, e, U + D)
  <2>1. U + D \in Nat /\ U <= U + D
    BY <1>2
  <2> QED BY <1>1, <1>2, <1>4, <2>1, MixedIs
<1>6. u \in Seq(Byte) /\ Len(u) = (U + p) + T + (S - (U + q))
  <2>1. u \in Seq(Byte) /\ Len(u) = U + Len(e) + (S - (U + D))
    BY <1>1, <1>5 DEF MixedAt
  <2> QED BY ONLY <1>2, <1>4, <2>1, U \in Nat, p \in Nat, q \in Nat
<1>7. ASSUME NEW x \in 1 .. U + p PROVE u[x] = s[x]
  <2>1. CASE x <= U
    <3>1. x \in 1 .. U
      BY <2>1
    <3> QED BY ONLY <1>5, <3>1 DEF MixedAt
  <2>2. CASE x > U
    <3>1. x - U \in 1 .. p /\ x - U \in 1 .. Len(e) /\ U + (x - U) = x /\ x - U \in 1 .. D
      BY <1>2, <1>4, <2>2
    <3>2. u[U + (x - U)] = e[x - U]
      BY ONLY <1>5, <3>1 DEF MixedAt
    <3>3. e[x - U] = d[x - U]
      BY ONLY <1>3, <3>1 DEF MixedAt
    <3>4. s[U + (x - U)] = d[x - U]
      BY <1>1, <3>1 DEF Within
    <3> QED BY ONLY <3>1, <3>2, <3>3, <3>4
  <2> QED BY <2>1, <2>2
<1>8. ASSUME NEW x \in 1 .. T PROVE u[(U + p) + x] = t[x]
  <2>1. p + x \in 1 .. Len(e) /\ U + (p + x) = (U + p) + x
    BY <1>2, <1>4
  <2>2. u[U + (p + x)] = e[p + x]
    BY ONLY <1>5, <2>1 DEF MixedAt
  <2>3. e[p + x] = t[x]
    BY ONLY <1>1, <1>3, x \in 1 .. T DEF MixedAt
  <2> QED BY ONLY <2>1, <2>2, <2>3
<1>9. ASSUME NEW x \in 1 .. S - (U + q) PROVE u[(U + p) + T + x] = s[(U + q) + x]
  <2>1. CASE x <= D - q
    <3>1. x \in 1 .. D - q /\ p + T + x \in 1 .. Len(e) /\ U + (p + T + x) = (U + p) + T + x
          /\ q + x \in 1 .. D /\ U + (q + x) = (U + q) + x
      BY <1>2, <1>4, <2>1
    <3>2. u[U + (p + T + x)] = e[p + T + x]
      BY ONLY <1>5, <3>1 DEF MixedAt
    <3>3. e[p + T + x] = d[q + x]
      BY ONLY <1>1, <1>3, <3>1 DEF MixedAt
    <3>4. s[U + (q + x)] = d[q + x]
      BY <1>1, <3>1 DEF Within
    <3> QED BY ONLY <3>1, <3>2, <3>3, <3>4
  <2>2. CASE x > D - q
    <3>1. PICK y : y = x - (D - q)
      OBVIOUS
    <3>2. y \in 1 .. S - (U + D) /\ U + Len(e) + y = (U + p) + T + x /\ (U + D) + y = (U + q) + x
      BY <1>2, <1>4, <2>2, <3>1
    <3>3. u[U + Len(e) + y] = s[(U + D) + y]
      BY ONLY <1>1, <1>5, <3>2 DEF MixedAt
    <3> QED BY ONLY <3>2, <3>3
  <2> QED BY <1>2, <2>1, <2>2
<1>10. MixedAt(u, s, U + p, t, U + q)
  BY ONLY <1>1, <1>6, <1>7, <1>8, <1>9 DEF MixedAt
<1>11. U + p \in Nat /\ U + q \in Nat /\ U + p <= U + q /\ U + q <= Len(s)
  BY <1>1, <1>2
<1>12. u = Mixed(s, U + p, t, U + q)
  BY <1>10, <1>11, MixedOnly
<1> QED BY ONLY <1>1, <1>12

(* Two changes of a string, the second right behind what the first put in. *)
Twice(s, p, t, q, w, r, a, m, n, v, tw) ==
  /\ s \in Seq(Byte) /\ t \in Seq(Byte) /\ w \in Seq(Byte) /\ p \in Nat /\ q \in Nat /\ r \in Nat
  /\ p <= q /\ q + r <= Len(s) /\ a = Mixed(s, p, t, q) /\ m = p + Len(t) /\ n = m + r /\ v = q + r
  /\ tw = t \o w

LEMMA MixedTwice ==
  ASSUME NEW s, NEW p, NEW t, NEW q, NEW w, NEW r, NEW a, NEW m, NEW n, NEW v, NEW tw,
         Twice(s, p, t, q, w, r, a, m, n, v, tw)
  PROVE  Mixed(a, m, w, n) = Mixed(s, p, tw, v)
<1> /\ s \in Seq(Byte) /\ t \in Seq(Byte) /\ w \in Seq(Byte) /\ p \in Nat /\ q \in Nat /\ r \in Nat
    /\ p <= q /\ q + r <= Len(s) /\ a = Mixed(s, p, t, q) /\ m = p + Len(t) /\ n = m + r /\ v = q + r
  BY DEF Twice
<1>1. PICK u, S, T, W : /\ a = Mixed(s, p, t, q) /\ u = Mixed(a, p + Len(t), w, p + Len(t) + r)
                        /\ S = Len(s) /\ T = Len(t) /\ W = Len(w) /\ m = p + Len(t) /\ n = p + Len(t) + r
                        /\ v = q + r
  OBVIOUS
<1>2. S \in Nat /\ T \in Nat /\ W \in Nat /\ q + r <= S /\ q <= Len(s) /\ q + r \in Nat /\ p <= q + r
  BY <1>1
<1>3. MixedAt(a, s, p, t, q)
  BY <1>1, <1>2, MixedIs
<1>4. a \in Seq(Byte) /\ Len(a) = p + T + (S - q)
  BY <1>1, <1>3 DEF MixedAt
<1>5. MixedAt(u, a, p + T, w, p + T + r)
  <2>1. p + T \in Nat /\ p + T + r \in Nat /\ p + T <= p + T + r /\ p + T + r <= Len(a)
    BY <1>2, <1>4
  <2> QED BY <1>1, <1>4, <2>1, MixedIs
<1>6. tw = t \o w
  BY DEF Twice
<1>7. /\ tw \in Seq(Byte) /\ Len(tw) = T + W
      /\ \A x \in 1 .. T + W : tw[x] = IF x <= T THEN t[x] ELSE w[x - T]
  BY <1>1, <1>6, ConcatIs
<1>8. u \in Seq(Byte) /\ Len(u) = p + (T + W) + (S - (q + r))
  <2>1. u \in Seq(Byte) /\ Len(u) = (p + T) + W + (Len(a) - (p + T + r))
    BY <1>1, <1>5 DEF MixedAt
  <2> QED BY ONLY <1>2, <1>4, <2>1, p \in Nat, q \in Nat, r \in Nat
<1>9. ASSUME NEW x \in 1 .. p PROVE u[x] = s[x]
  <2>1. x \in 1 .. p + T
    BY <1>2
  <2>2. u[x] = a[x]
    BY ONLY <1>5, <2>1 DEF MixedAt
  <2>3. a[x] = s[x]
    BY ONLY <1>3, x \in 1 .. p DEF MixedAt
  <2> QED BY ONLY <2>2, <2>3
<1>10. ASSUME NEW x \in 1 .. T + W PROVE u[p + x] = tw[x]
  <2>1. CASE x <= T
    <3>1. p + x \in 1 .. p + T /\ x \in 1 .. T
      BY <1>2, <2>1
    <3>2. u[p + x] = a[p + x]
      BY ONLY <1>5, <3>1 DEF MixedAt
    <3>3. a[p + x] = t[x]
      BY ONLY <1>1, <1>3, <3>1 DEF MixedAt
    <3> QED BY <1>7, <2>1, <3>2, <3>3
  <2>2. CASE x > T
    <3>1. x - T \in 1 .. W /\ (p + T) + (x - T) = p + x /\ ~(x <= T)
      BY <1>2, <2>2
    <3>2. u[(p + T) + (x - T)] = w[x - T]
      BY ONLY <1>1, <1>5, <3>1 DEF MixedAt
    <3> QED BY <1>7, <3>1, <3>2
  <2> QED BY <1>2, <2>1, <2>2
<1>11. ASSUME NEW x \in 1 .. S - (q + r) PROVE u[p + (T + W) + x] = s[(q + r) + x]
  <2>1. /\ x \in 1 .. Len(a) - (p + T + r) /\ (p + T) + W + x = p + (T + W) + x
        /\ r + x \in 1 .. S - q /\ (p + T + r) + x = p + T + (r + x) /\ q + (r + x) = (q + r) + x
    BY <1>2, <1>4
  <2>2. u[(p + T) + W + x] = a[(p + T + r) + x]
    BY ONLY <1>1, <1>5, <2>1 DEF MixedAt
  <2>3. a[p + T + (r + x)] = s[q + (r + x)]
    BY ONLY <1>1, <1>3, <2>1 DEF MixedAt
  <2> QED BY ONLY <2>1, <2>2, <2>3
<1>12. MixedAt(u, s, p, tw, q + r)
  BY ONLY <1>1, <1>7, <1>8, <1>9, <1>10, <1>11 DEF MixedAt
<1>13. u = Mixed(s, p, tw, q + r)
  BY <1>1, <1>2, <1>7, <1>12, MixedOnly
<1> QED BY ONLY <1>1, <1>6, <1>13

-----------------------------------------------------------------------------
(* The bytes of a list of nodes *)

Bytes(ns) == FlattenSeq([i \in 1 .. Len(ns) |-> ns[i].data])

(* s is the data of the first n of the nodes ns, one after the other. *)
Holds(s, ns, n) ==
  /\ s \in Seq(Byte) /\ Len(s) = Upto(ns, n)
  /\ \A i \in 1 .. n : \A x \in 1 .. NLen(ns[i]) : s[Upto(ns, i - 1) + x] = ns[i].data[x]

(* One node more. *)
LEMMA HoldsNext ==
  ASSUME NEW ns \in Seq(NodeRec), Filled(ns), NEW k \in 1 .. Len(ns), NEW s, Holds(s, ns, k - 1)
  PROVE  Holds(s \o ns[k].data, ns, k)
<1> DEFINE d == ns[k].data
           u == s \o d
<1>1. /\ Len(ns) \in Nat /\ d \in Seq(Byte) /\ Len(d) = NLen(ns[k]) /\ NLen(ns[k]) \in Nat
      /\ \A i \in 1 .. Len(ns) : NLen(ns[i]) \in Nat
  BY NodeIs DEF NLen
<1>2. k \in Nat /\ 0 < k /\ k <= Len(ns) /\ k - 1 \in 0 .. Len(ns)
  BY <1>1
<1>3. /\ \A i \in 0 .. Len(ns) : Upto(ns, i) \in Nat
      /\ \A i \in 1 .. Len(ns) : Upto(ns, i) = Upto(ns, i - 1) + NLen(ns[i])
  BY UptoIs
<1>4. s \in Seq(Byte) /\ Len(s) = Upto(ns, k - 1)
  BY DEF Holds
<1> HIDE DEF d
<1>5. /\ u \in Seq(Byte) /\ Len(u) = Len(s) + Len(d)
      /\ \A x \in 1 .. Len(s) + Len(d) : u[x] = IF x <= Len(s) THEN s[x] ELSE d[x - Len(s)]
  BY <1>1, <1>4, ConcatIs
<1> HIDE DEF u
<1>6. PICK U, D : U = Upto(ns, k - 1) /\ D = NLen(ns[k])
  OBVIOUS
<1>7. U \in Nat /\ D \in Nat /\ Len(u) = U + D /\ Upto(ns, k) = U + D
      /\ \A x \in 1 .. U + D : u[x] = IF x <= U THEN s[x] ELSE d[x - U]
  BY ONLY <1>1, <1>2, <1>3, <1>4, <1>5, <1>6, k \in 1 .. Len(ns)
<1>8. ASSUME NEW i \in 1 .. k, NEW x \in 1 .. NLen(ns[i])
      PROVE  u[Upto(ns, i - 1) + x] = ns[i].data[x]
  <2>1. CASE i = k
    <3>1. U + x \in 1 .. U + D /\ ~(U + x <= U) /\ U + x - U = x
      BY <1>6, <1>7, <2>1
    <3>2. u[U + x] = d[x]
      BY ONLY <1>7, <3>1
    <3> QED BY <1>6, <2>1, <3>2 DEF d
  <2>2. CASE i # k
    <3>1. i \in 1 .. k - 1 /\ i \in 0 .. Len(ns) /\ i - 1 \in 0 .. Len(ns) /\ i \in 1 .. Len(ns) /\ i <= k - 1
      BY <1>1, <1>2, <2>2
    <3>2. Upto(ns, i) <= U
      BY <1>2, <1>6, <3>1, UptoOrder
    <3>3. PICK V : V = Upto(ns, i - 1)
      OBVIOUS
    <3>4. V \in Nat /\ Upto(ns, i) = V + NLen(ns[i]) /\ NLen(ns[i]) \in Nat
      BY ONLY <1>1, <1>3, <3>1, <3>3
    <3>5. V + x \in 1 .. U + D /\ V + x <= U
      BY ONLY <1>7, <3>2, <3>4, x \in 1 .. NLen(ns[i])
    <3>6. u[V + x] = s[V + x]
      BY ONLY <1>7, <3>5
    <3>7. s[V + x] = ns[i].data[x]
      BY ONLY <3>1, <3>3, x \in 1 .. NLen(ns[i]), Holds(s, ns, k - 1) DEF Holds
    <3> QED BY ONLY <3>3, <3>6, <3>7
  <2> QED BY <2>1, <2>2
<1> QED BY ONLY <1>5, <1>7, <1>8 DEF Holds, u, d

(* FlattenSeq() puts them together. *)
LEMMA BytesIs ==
  ASSUME NEW ns \in Seq(NodeRec), Filled(ns)
  PROVE  Holds(Bytes(ns), ns, Len(ns))
<1> DEFINE N == Len(ns)
           ds == [i \in 1 .. N |-> ns[i].data]
           Q(s) == s = [k \in 1 .. N |-> IF k = 1 THEN ds[k] ELSE s[k - 1] \o ds[k]]
           g == [x \in (1 .. N) \X Seq(Byte) |-> x[2] \o ds[x[1]]]
           e == <<>>
           S == [k \in 0 .. N |-> {s \in Seq(Byte) : Holds(s, ns, k)}]
           flat == CHOOSE s : Q(s)
<1>1. N \in Nat /\ \A i \in 1 .. N : ns[i].data \in Seq(Byte)
  BY NodeIs
<1>2. Len(ds) = N /\ \A i \in 1 .. N : ds[i] = ns[i].data /\ ds[i] \in Seq(Byte)
  BY <1>1
<1>3. Holds(e, ns, 0) /\ e \in Seq(Byte)
  <2>1. Upto(ns, 0) = 0
    BY UptoIs
  <2> QED BY <2>1 DEF Holds
<1>4. CASE N = 0
  <2>1. ds = <<>>
    BY <1>2, <1>4
  <2>2. Bytes(ns) = ds
    BY <1>2, <1>4 DEF Bytes, FlattenSeq
  <2> QED BY <1>3, <1>4, <2>1, <2>2
<1>5. CASE N # 0
  <2>1. N > 0 /\ 1 \in 1 .. N
    BY <1>1, <1>5
  <2>2. \A k \in 1 .. N : \A x \in Seq(Byte) : g[<<k, x>>] = x \o ds[k] /\ g[<<k, x>>] \in Seq(Byte)
    <3> TAKE k \in 1 .. N
    <3> TAKE x \in Seq(Byte)
    <3>1. g[<<k, x>>] = x \o ds[k]
      OBVIOUS
    <3>2. ds[k] \in Seq(Byte)
      BY <1>2
    <3> HIDE DEF ds, g
    <3>3. x \o ds[k] \in Seq(Byte)
      BY <3>2, ConcatIs
    <3> QED BY <3>1, <3>3
  <2> HIDE DEF g
  <2>3. PICK f : IsRec(f, N, e, g)
    <3> HIDE DEF N, e
    <3> QED BY ONLY <1>1, RecExists
  <2>4. f = [k \in 0 .. N |-> IF k = 0 THEN e ELSE g[<<k, f[k - 1]>>]]
    BY ONLY <2>3 DEF IsRec
  <2> DEFINE T == [k \in 0 .. N |-> Seq(Byte)]
  <2>5. \A k \in 0 .. N : f[k] \in T[k]
    <3>1. f[0] \in T[0]
      BY <1>1, <1>3, <2>4
    <3>2. ASSUME NEW k \in 1 .. N, f[k - 1] \in T[k - 1] PROVE f[k] \in T[k]
      <4>1. k \in 0 .. N /\ k - 1 \in 0 .. N /\ k # 0
        BY <1>1
      <4>2. f[k] = g[<<k, f[k - 1]>>] /\ f[k - 1] \in Seq(Byte)
        BY <2>4, <3>2, <4>1
      <4> QED BY <2>2, <4>1, <4>2
    <3> HIDE DEF T, N
    <3> QED BY <1>1, <3>1, <3>2, RecKeeps
  <2>6. \A k \in 1 .. N : f[k] = f[k - 1] \o ds[k] /\ f[k - 1] \in Seq(Byte)
    <3> TAKE k \in 1 .. N
    <3>1. k \in 0 .. N /\ k - 1 \in 0 .. N /\ k # 0
      BY <1>1
    <3>2. f[k] = g[<<k, f[k - 1]>>] /\ f[k - 1] \in Seq(Byte)
      BY <2>4, <2>5, <3>1
    <3> QED BY <2>2, <3>1, <3>2
  <2> DEFINE h == [k \in 1 .. N |-> f[k]]
  <2>7. Q(h)
    <3>1. \A k \in 1 .. N : h[k] = IF k = 1 THEN ds[k] ELSE h[k - 1] \o ds[k]
      <4> TAKE k \in 1 .. N
      <4>1. CASE k = 1
        <5>1. f[0] = <<>> /\ f[1] = f[0] \o ds[1] /\ ds[1] \in Seq(Byte)
          <6>1. 1 - 1 = 0 /\ 0 \in 0 .. N
            BY <1>1
          <6> QED BY <1>2, <2>1, <2>4, <2>6, <6>1
        <5>2. <<>> \o ds[1] = ds[1]
          <6> HIDE DEF ds
          <6> QED BY <5>1
        <5> QED BY <4>1, <5>1, <5>2
      <4>2. CASE k # 1
        <5>1. k - 1 \in 1 .. N
          BY <1>1, <4>2
        <5> QED BY <2>6, <4>2, <5>1
      <4> QED BY <4>1, <4>2
    <3>2. h = [k \in 1 .. N |-> h[k]]
      OBVIOUS
    <3> HIDE DEF h
    <3> QED BY <3>1, <3>2
  <2>8. Q(flat)
    <3> HIDE DEF Q, h
    <3> QED BY <2>7
  <2>9. Bytes(ns) = flat[N]
    BY <1>2, <1>5 DEF Bytes, FlattenSeq
  <2> HIDE DEF flat
  <2>10. \A k \in 1 .. N : flat[k] = IF k = 1 THEN ds[k] ELSE flat[k - 1] \o ds[k]
    BY <2>8
  <2> DEFINE y == [k \in 0 .. N |-> IF k = 0 THEN e ELSE flat[k]]
  <2>11. \A k \in 0 .. N : y[k] \in S[k]
    <3>1. y[0] \in S[0]
      BY <1>1, <1>3
    <3>2. ASSUME NEW k \in 1 .. N, y[k - 1] \in S[k - 1] PROVE y[k] \in S[k]
      <4>1. k \in 0 .. N /\ k - 1 \in 0 .. N /\ k # 0
        BY <1>1
      <4>2. Holds(y[k - 1], ns, k - 1) /\ y[k - 1] \in Seq(Byte)
        BY <3>2, <4>1
      <4>3. y[k] = y[k - 1] \o ns[k].data
        <5>1. CASE k = 1
          <6>1. y[0] = <<>> /\ y[1] = ds[1] /\ ds[1] = ns[1].data /\ ds[1] \in Seq(Byte) /\ k - 1 = 0
            BY <1>1, <1>2, <2>1, <2>10, <5>1
          <6>2. <<>> \o ds[1] = ds[1]
            <7> HIDE DEF ds
            <7> QED BY <6>1
          <6> QED BY ONLY <5>1, <6>1, <6>2
        <5>2. CASE k # 1
          <6>1. k - 1 \in 1 .. N /\ k - 1 # 0
            BY <1>1, <5>2
          <6> QED BY <1>2, <2>10, <4>1, <5>2, <6>1
        <5> QED BY <5>1, <5>2
      <4> HIDE DEF y
      <4>4. Holds(y[k], ns, k)
        BY <4>2, <4>3, HoldsNext
      <4>5. y[k] \in Seq(Byte)
        BY <4>4 DEF Holds
      <4> QED BY <4>1, <4>4, <4>5
    <3> HIDE DEF S, N, y
    <3> QED BY <1>1, <3>1, <3>2, RecKeeps
  <2>12. N \in 0 .. N
    BY <1>1
  <2>13. y[N] \in S[N] /\ y[N] = flat[N]
    BY <1>5, <2>11, <2>12
  <2> HIDE DEF y
  <2> QED BY <2>9, <2>12, <2>13
<1> QED BY <1>4, <1>5

(* Only one string is that. *)
LEMMA HoldsOnly ==
  ASSUME NEW ns \in Seq(NodeRec), Filled(ns), NEW s, Holds(s, ns, Len(ns))
  PROVE  s = Bytes(ns)
<1>1. PICK t, N, U : t = Bytes(ns) /\ N = Len(ns) /\ U = Upto(ns, N)
  OBVIOUS
<1>2. Holds(t, ns, N)
  BY <1>1, BytesIs
<1>3. N \in Nat /\ \A i \in 0 .. N : Upto(ns, i) \in Nat
  BY <1>1, NodeIs, UptoIs
<1>4. s \in Seq(Byte) /\ t \in Seq(Byte) /\ Len(s) = U /\ Len(t) = U /\ U \in Nat
  BY <1>1, <1>2, <1>3 DEF Holds
<1>5. \A x \in 1 .. U : s[x] = t[x]
  <2> TAKE x \in 1 .. U
  <2>1. x \in Nat /\ Upto(ns, 0) < x /\ x <= Upto(ns, Len(ns)) /\ 0 \in 0 .. Len(ns)
    <3>1. Upto(ns, 0) = 0
      BY UptoIs
    <3> QED BY <1>1, <1>3, <1>4, <3>1
  <2>2. PICK i \in 0 + 1 .. Len(ns) : Upto(ns, i - 1) < x /\ x <= Upto(ns, i)
    BY <2>1, UptoFind
  <2>3. i \in 1 .. N /\ i - 1 \in 0 .. N
    BY <1>1, <1>3
  <2>4. NLen(ns[i]) \in Nat /\ Upto(ns, i) = Upto(ns, i - 1) + NLen(ns[i])
    BY <1>1, <2>3, NodeIs, UptoIs
  <2>5. PICK V : V = Upto(ns, i - 1)
    OBVIOUS
  <2>6. x - V \in 1 .. NLen(ns[i]) /\ V + (x - V) = x
    BY ONLY <1>3, <2>1, <2>2, <2>3, <2>4, <2>5
  <2>7. s[V + (x - V)] = ns[i].data[x - V]
    BY ONLY <1>1, <2>3, <2>5, <2>6, Holds(s, ns, Len(ns)) DEF Holds
  <2>8. t[V + (x - V)] = ns[i].data[x - V]
    BY ONLY <1>2, <2>3, <2>5, <2>6 DEF Holds
  <2> QED BY ONLY <2>6, <2>7, <2>8
<1>6. s = t
  BY ONLY <1>4, <1>5
<1> QED BY ONLY <1>1, <1>6

(* Nodes in the place of others. *)
LEMMA SwapBytes ==
  ASSUME NEW ms, NEW ns, NEW i, NEW j, NEW xs, IsSwap(ms, ns, i, j, xs), Filled(ns), Filled(xs)
  PROVE  Filled(ms) /\ Bytes(ms) = Mixed(Bytes(ns), Upto(ns, i), Bytes(xs), Upto(ns, j))
<1>1. PICK L, X, M, s, t, p, q : /\ L = Len(ns) /\ X = Len(xs) /\ M = Len(ms) /\ s = Bytes(ns)
                                 /\ t = Bytes(xs) /\ p = Upto(ns, i) /\ q = Upto(ns, j)
  OBVIOUS
<1>2. /\ ms \in Seq(NodeRec) /\ ns \in Seq(NodeRec) /\ xs \in Seq(NodeRec)
      /\ i \in Nat /\ j \in Nat /\ i <= j /\ j <= L /\ M = i + X + (L - j)
      /\ \A k \in 1 .. i : ms[k] = ns[k]
      /\ \A k \in 1 .. X : ms[i + k] = xs[k]
      /\ \A k \in 1 .. L - j : ms[i + X + k] = ns[j + k]
  BY <1>1 DEF IsSwap
<1>3. L \in Nat /\ X \in Nat /\ M \in Nat /\ i \in 0 .. L /\ j \in 0 .. L
  BY <1>1, <1>2, NodeIs
<1>4. SwapSums(ms, ns, i, j, xs)
  BY SwapUpto
<1>5. /\ \A k \in 0 .. i : Upto(ms, k) = Upto(ns, k)
      /\ \A k \in 0 .. X : Upto(ms, i + k) = p + Upto(xs, k)
      /\ \A k \in 0 .. L - j : Upto(ms, i + X + k) = p + Upto(xs, X) + (Upto(ns, j + k) - q)
  BY ONLY <1>1, <1>4 DEF SwapSums
<1>6. /\ \A k \in 0 .. L : Upto(ns, k) \in Nat
      /\ \A k \in 1 .. L : Upto(ns, k) = Upto(ns, k - 1) + NLen(ns[k]) /\ NLen(ns[k]) \in Nat
  BY <1>1, <1>2, UptoIs, NodeIs
<1>7. /\ \A k \in 0 .. X : Upto(xs, k) \in Nat
      /\ \A k \in 1 .. X : Upto(xs, k) = Upto(xs, k - 1) + NLen(xs[k]) /\ NLen(xs[k]) \in Nat
  BY <1>1, <1>2, UptoIs, NodeIs
<1>8. Holds(s, ns, L) /\ Holds(t, xs, X)
  BY <1>1, <1>2, BytesIs
<1>9. /\ s \in Seq(Byte) /\ Len(s) = Upto(ns, L) /\ t \in Seq(Byte) /\ Len(t) = Upto(xs, X)
      /\ \A k \in 1 .. L : \A x \in 1 .. NLen(ns[k]) : s[Upto(ns, k - 1) + x] = ns[k].data[x]
      /\ \A k \in 1 .. X : \A x \in 1 .. NLen(xs[k]) : t[Upto(xs, k - 1) + x] = xs[k].data[x]
  BY ONLY <1>8 DEF Holds
<1>10. \A k, l \in 0 .. L : k <= l => Upto(ns, k) <= Upto(ns, l)
  BY <1>1, <1>2, UptoOrder
<1>11. \A k, l \in 0 .. X : k <= l => Upto(xs, k) <= Upto(xs, l)
  BY <1>1, <1>2, UptoOrder
<1>12. p \in Nat /\ q \in Nat /\ p <= q /\ q <= Len(s)
  <2>1. L \in 0 .. L
    BY <1>3
  <2> QED BY ONLY <1>1, <1>2, <1>3, <1>6, <1>9, <1>10, <2>1
<1>13. PICK u : u = Mixed(s, p, t, q)
  OBVIOUS
<1>14. MixedAt(u, s, p, t, q)
  BY <1>9, <1>12, <1>13, MixedIs
<1>15. PICK S, T : S = Len(s) /\ T = Len(t)
  OBVIOUS
<1>16. /\ u \in Seq(Byte) /\ Len(u) = p + T + (S - q)
       /\ \A x \in 1 .. p : u[x] = s[x]
       /\ \A x \in 1 .. T : u[p + x] = t[x]
       /\ \A x \in 1 .. S - q : u[p + T + x] = s[q + x]
  BY ONLY <1>14, <1>15 DEF MixedAt
<1>17. S = Upto(ns, L) /\ T = Upto(xs, X) /\ S \in Nat /\ T \in Nat
  BY <1>3, <1>6, <1>7, <1>9, <1>15
<1>18. ASSUME NEW k \in 1 .. M PROVE
         NLen(ms[k]) > 0 /\ \A x \in 1 .. NLen(ms[k]) : u[Upto(ms, k - 1) + x] = ms[k].data[x]
  <2>1. CASE k <= i
    <3>1. k \in 1 .. i /\ k \in 1 .. L /\ k - 1 \in 0 .. i /\ k - 1 \in 0 .. L /\ k \in 0 .. L
      BY <1>2, <1>3, <2>1
    <3>2. ms[k] = ns[k] /\ Upto(ms, k - 1) = Upto(ns, k - 1) /\ Upto(ns, k) <= p
      BY <1>1, <1>2, <1>3, <1>5, <1>10, <2>1, <3>1
    <3>3. \A x \in 1 .. NLen(ns[k]) : Upto(ns, k - 1) + x \in 1 .. p
      BY ONLY <1>6, <1>12, <3>1, <3>2
    <3>4. NLen(ns[k]) > 0
      BY <1>1, <3>1 DEF Filled
    <3> QED BY ONLY <1>9, <1>16, <3>1, <3>2, <3>3, <3>4
  <2>2. CASE i < k /\ k <= i + X
    <3>1. PICK l : l = k - i
      OBVIOUS
    <3>2. l \in 1 .. X /\ i + l = k /\ l - 1 \in 0 .. X /\ i + (l - 1) = k - 1 /\ l \in 0 .. X /\ l <= X /\ X \in 0 .. X
      BY <1>2, <1>3, <2>2, <3>1
    <3>3. ms[k] = xs[l]
      BY ONLY <1>2, <3>2
    <3>4. Upto(ms, k - 1) = p + Upto(xs, l - 1)
      BY ONLY <1>5, <3>2
    <3>5. Upto(xs, l) <= T
      BY ONLY <1>11, <1>17, <3>2
    <3>6. PICK V : V = Upto(xs, l - 1)
      OBVIOUS
    <3>7. V \in Nat /\ Upto(xs, l) = V + NLen(xs[l]) /\ NLen(xs[l]) \in Nat
      BY ONLY <1>7, <3>2, <3>6
    <3>8. \A x \in 1 .. NLen(xs[l]) : V + x \in 1 .. T /\ p + (V + x) = (p + V) + x
      BY ONLY <1>12, <1>17, <3>5, <3>7
    <3>9. \A x \in 1 .. NLen(xs[l]) : u[(p + V) + x] = xs[l].data[x]
      <4> TAKE x \in 1 .. NLen(xs[l])
      <4>1. u[p + (V + x)] = t[V + x]
        BY ONLY <1>16, <3>8, x \in 1 .. NLen(xs[l])
      <4>2. t[V + x] = xs[l].data[x]
        BY ONLY <1>9, <3>2, <3>6, x \in 1 .. NLen(xs[l])
      <4> QED BY ONLY <3>8, <4>1, <4>2, x \in 1 .. NLen(xs[l])
    <3>10. NLen(xs[l]) > 0
      BY <1>1, <3>2 DEF Filled
    <3> QED BY ONLY <3>3, <3>4, <3>6, <3>9, <3>10
  <2>3. CASE i + X < k
    <3>1. PICK l, m : l = k - i - X /\ m = j + l
      OBVIOUS
    <3>2. /\ l \in 1 .. L - j /\ i + X + l = k /\ l - 1 \in 0 .. L - j /\ i + X + (l - 1) = k - 1
          /\ m = j + l /\ m \in 1 .. L /\ j + (l - 1) = m - 1 /\ m - 1 \in 0 .. L /\ m \in 0 .. L
          /\ j <= m - 1 /\ m <= L /\ L \in 0 .. L
      <4>1. /\ i \in Nat /\ j \in Nat /\ X \in Nat /\ L \in Nat /\ k \in Nat /\ i + X < k
            /\ k <= i + X + (L - j) /\ j <= L
        BY ONLY <1>2, <1>3, <2>3, k \in 1 .. M
      <4>2. l \in Nat /\ 1 <= l /\ l <= L - j /\ i + X + l = k /\ i + X + (l - 1) = k - 1
        BY ONLY <3>1, <4>1
      <4>3. m \in Nat /\ m = j + l /\ 1 <= m /\ m <= L /\ j + (l - 1) = m - 1 /\ j <= m - 1
        BY ONLY <3>1, <4>1, <4>2
      <4> QED BY ONLY <4>1, <4>2, <4>3
    <3>3. ms[k] = ns[m]
      BY ONLY <1>2, <3>2
    <3>4. PICK V : V = Upto(ns, m - 1)
      OBVIOUS
    <3>5. Upto(ms, k - 1) = p + T + (V - q)
      BY ONLY <1>5, <1>17, <3>2, <3>4
    <3>6. q <= V /\ Upto(ns, m) <= S
      BY ONLY <1>1, <1>3, <1>10, <1>17, <3>2, <3>4
    <3>7. V \in Nat /\ Upto(ns, m) = V + NLen(ns[m]) /\ NLen(ns[m]) \in Nat
      BY ONLY <1>6, <3>2, <3>4
    <3>8. \A x \in 1 .. NLen(ns[m]) : /\ (V - q) + x \in 1 .. S - q /\ q + ((V - q) + x) = V + x
                                          /\ p + T + ((V - q) + x) = (p + T + (V - q)) + x
      BY ONLY <1>12, <1>17, <3>6, <3>7
    <3>9. \A x \in 1 .. NLen(ns[m]) : u[(p + T + (V - q)) + x] = ns[m].data[x]
      <4> TAKE x \in 1 .. NLen(ns[m])
      <4>1. u[p + T + ((V - q) + x)] = s[q + ((V - q) + x)]
        BY ONLY <1>16, <3>8, x \in 1 .. NLen(ns[m])
      <4>2. s[V + x] = ns[m].data[x]
        BY ONLY <1>9, <3>2, <3>4, x \in 1 .. NLen(ns[m])
      <4> QED BY ONLY <3>8, <4>1, <4>2, x \in 1 .. NLen(ns[m])
    <3>10. NLen(ns[m]) > 0
      BY <1>1, <3>2 DEF Filled
    <3> QED BY ONLY <3>3, <3>5, <3>9, <3>10
  <2> QED BY <1>2, <1>3, <2>1, <2>2, <2>3
<1>19. Len(u) = Upto(ms, M)
  <2>1. L - j \in 0 .. L - j /\ i + X + (L - j) = M /\ j + (L - j) = L
    BY <1>2, <1>3
  <2>2. Upto(ms, M) = p + T + (S - q)
    BY ONLY <1>5, <1>17, <2>1
  <2> QED BY ONLY <1>16, <2>2
<1>20. Filled(ms) /\ Holds(u, ms, M)
  BY ONLY <1>1, <1>16, <1>18, <1>19 DEF Filled, Holds
<1>21. u = Bytes(ms)
  BY <1>1, <1>2, <1>20, HoldsOnly
<1> QED BY ONLY <1>1, <1>13, <1>20, <1>21

(* The bytes of one node. *)
LEMMA SingleBytes ==
  ASSUME NEW n \in NodeRec, NLen(n) > 0
  PROVE  Filled(<<n>>) /\ Bytes(<<n>>) = n.data
<1>1. PICK s : s = <<n>>
  OBVIOUS
<1>2. s \in Seq(NodeRec) /\ Len(s) = 1 /\ s[1] = n /\ Upto(s, 1) = NLen(n) /\ Upto(s, 0) = 0
  BY <1>1, SingleIs, UptoIs
<1>3. n.data \in Seq(Byte) /\ Len(n.data) = NLen(n)
  BY DEF NodeRec, NLen
<1>4. Filled(s)
  BY <1>2 DEF Filled
<1>5. Holds(n.data, s, Len(s))
  <2>1. \A i \in 1 .. 1 : i = 1 /\ i - 1 = 0
    OBVIOUS
  <2>2. \A x \in 1 .. NLen(n) : 0 + x = x
    OBVIOUS
  <2> QED BY ONLY <1>2, <1>3, <2>1, <2>2 DEF Holds
<1> QED BY <1>1, <1>2, <1>4, <1>5, HoldsOnly

(* Other data in node i. *)
LEMMA SetBytes ==
  ASSUME NEW ns \in Seq(NodeRec), Filled(ns), NEW i \in 1 .. Len(ns), NEW d \in Seq(Byte), Len(d) > 0
  PROVE  LET ms == [ns EXCEPT ![i].data = d]
         IN  /\ ms \in Seq(NodeRec) /\ Filled(ms)
             /\ Bytes(ms) = Mixed(Bytes(ns), Upto(ns, i - 1), d, Upto(ns, i))
<1>1. PICK ms, n, h, xs : /\ ms = [ns EXCEPT ![i].data = d] /\ n = [ns[i] EXCEPT !.data = d] /\ h = i - 1
                          /\ xs = <<n>>
  OBVIOUS
<1>2. Len(ns) \in Nat /\ ns[i] \in NodeRec /\ i \in Nat /\ h \in Nat /\ h + 1 = i /\ h <= i /\ i <= Len(ns)
  BY <1>1, NodeIs
<1>3. n \in NodeRec /\ n.data = d /\ NLen(n) > 0
  BY <1>1, <1>2 DEF NodeRec, NLen
<1>4. ms = [ns EXCEPT ![i] = n]
  BY <1>1
<1>5. ms \in Seq(NodeRec) /\ Len(ms) = Len(ns) /\ ms[i] = n
      /\ \A k \in 1 .. Len(ns) : k # i => ms[k] = ns[k]
  BY ONLY <1>2, <1>3, <1>4, ns \in Seq(NodeRec), i \in 1 .. Len(ns)
<1>6. xs \in Seq(NodeRec) /\ Len(xs) = 1 /\ xs[1] = n
  BY <1>1, <1>3
<1>7. IsSwap(ms, ns, h, i, xs)
  <2>a. PICK L \in Nat : L = Len(ns)
    BY <1>2
  <2>b. L = h + 1 + (L - i)
    BY ONLY <1>2, L \in Nat
  <2>1. Len(ms) = h + Len(xs) + (Len(ns) - i)
    BY ONLY <1>5, <1>6, <2>a, <2>b
  <2>2. \A k \in 1 .. h : ms[k] = ns[k]
    BY ONLY <1>2, <1>5
  <2>3. \A k \in 1 .. Len(xs) : ms[h + k] = xs[k]
    BY ONLY <1>2, <1>5, <1>6
  <2>4. \A k \in 1 .. Len(ns) - i : ms[h + Len(xs) + k] = ns[i + k]
    <3> TAKE k \in 1 .. Len(ns) - i
    <3>1. h + Len(xs) + k = i + k /\ i + k \in 1 .. Len(ns) /\ i + k # i
      BY ONLY <1>2, <1>6, k \in 1 .. Len(ns) - i
    <3> QED BY ONLY <1>5, <3>1
  <2> QED BY ONLY <1>2, <1>5, <1>6, <2>1, <2>2, <2>3, <2>4, ns \in Seq(NodeRec) DEF IsSwap
<1>8. Filled(xs) /\ Bytes(xs) = d
  BY <1>1, <1>3, SingleBytes
<1>9. Filled(ms) /\ Bytes(ms) = Mixed(Bytes(ns), Upto(ns, h), Bytes(xs), Upto(ns, i))
  BY <1>7, <1>8, SwapBytes
<1> QED BY ONLY <1>1, <1>5, <1>8, <1>9

-----------------------------------------------------------------------------
(* The bytes of a string *)

(* What is known of a list of a string whose length may not be set yet. *)
LEMMA ListIs ==
  ASSUME NEW b, Shape(b)
  PROVE  /\ b.nodes \in Seq(NodeRec) /\ Len(b.nodes) \in Nat /\ Filled(b.nodes) /\ b.used \in Nat
         /\ \A i \in 0 .. Len(b.nodes) : Upto(b.nodes, i) \in Nat
         /\ \A i \in 1 .. Len(b.nodes) :
              /\ Upto(b.nodes, i) = Upto(b.nodes, i - 1) + NLen(b.nodes[i])
              /\ NLen(b.nodes[i]) \in Nat /\ b.used <= Upto(b.nodes, i)
         /\ b.used <= Upto(b.nodes, Len(b.nodes)) /\ Upto(b.nodes, 0) = 0
<1>1. b.nodes \in Seq(NodeRec) /\ b.used \in Nat /\ Good(b.nodes, b.types) /\ UsedIn(b.nodes, b.used)
  BY BaseIs DEF Shape
<1>2. PICK ns, L : ns = b.nodes /\ L = Len(b.nodes)
  OBVIOUS
<1>3. L \in Nat /\ \A i \in 1 .. L : ns[i].type \in NodeTypes /\ NLen(ns[i]) \in Nat
  BY <1>1, <1>2, NodeIs
<1>4. Filled(ns)
  <2> SUFFICES ASSUME NEW i \in 1 .. L PROVE NLen(ns[i]) > 0
    BY <1>2 DEF Filled
  <2>1. NLen(ns[i]) \in 1 .. MaxOf(ns[i].type)
    BY <1>1, <1>2 DEF Good
  <2> QED BY <1>3, <2>1
<1>5. /\ Upto(ns, 0) = 0 /\ \A i \in 0 .. L : Upto(ns, i) \in Nat
      /\ \A i \in 1 .. L : Upto(ns, i) = Upto(ns, i - 1) + NLen(ns[i])
  BY <1>1, <1>2, UptoIs
<1>6. \A i \in 1 .. L : b.used <= Upto(ns, i)
  <2> TAKE i \in 1 .. L
  <2>1. 1 \in 1 .. L /\ 1 \in 0 .. L /\ i \in 0 .. L /\ 1 <= i /\ 1 - 1 = 0
    BY <1>3
  <2>2. Upto(ns, 1) <= Upto(ns, i)
    BY <1>1, <1>2, <1>4, <2>1, UptoOrder
  <2>3. Upto(ns, 1) = NLen(ns[1]) /\ NLen(ns[1]) \in Nat
    BY ONLY <1>3, <1>5, <2>1
  <2>4. b.used <= NLen(ns[1])
    BY <1>1, <1>2, <2>3 DEF UsedIn
  <2> QED BY ONLY <1>1, <1>5, <2>1, <2>2, <2>3, <2>4
<1>7. b.used <= Upto(ns, L)
  <2>1. CASE L = 0
    <3>a. b.nodes \in Seq(NodeRec) /\ Len(b.nodes) = 0
      BY <1>1, <1>2, <2>1
    <3>1. b.nodes = <<>>
      BY ONLY <3>a
    <3>2. b.used = 0
      BY <1>1, <3>1 DEF UsedIn
    <3> QED BY <1>3, <1>5, <2>1, <3>2
  <2>2. CASE L # 0
    <3>1. L \in 1 .. L
      BY <1>3, <2>2
    <3> QED BY <1>6, <3>1
  <2> QED BY <2>1, <2>2
<1> QED BY ONLY <1>1, <1>2, <1>3, <1>4, <1>5, <1>6, <1>7

(* The string follows the used data. *)
LEMMA ContentIs ==
  ASSUME NEW b, Shape(b)
  PROVE  /\ Content(b) \in Seq(Byte) /\ Len(Content(b)) = LenAs(b) /\ LenAs(b) \in Nat
         /\ \A x \in 1 .. LenAs(b) : Content(b)[x] = Bytes(b.nodes)[b.used + x]
<1>1. /\ b.nodes \in Seq(NodeRec) /\ Filled(b.nodes) /\ b.used \in Nat
      /\ b.used <= Upto(b.nodes, Len(b.nodes)) /\ Len(b.nodes) \in 0 .. Len(b.nodes)
      /\ Upto(b.nodes, Len(b.nodes)) \in Nat
  BY ListIs
<1>2. PICK s, n : s = Bytes(b.nodes) /\ n = Len(s)
  OBVIOUS
<1>3. s \in Seq(Byte) /\ n = Upto(b.nodes, Len(b.nodes))
  BY <1>1, <1>2, BytesIs DEF Holds
<1>4. n \in Nat /\ b.used <= n /\ n = Len(s) /\ n <= n
  BY <1>1, <1>2, <1>3
<1>5. Content(b) = SubSeq(s, b.used + 1, n)
  BY <1>2 DEF Content, Bytes
<1>6. /\ SubSeq(s, b.used + 1, n) \in Seq(Byte) /\ Len(SubSeq(s, b.used + 1, n)) = n - b.used
      /\ \A x \in 1 .. n - b.used : SubSeq(s, b.used + 1, n)[x] = s[b.used + x]
  BY ONLY <1>1, <1>3, <1>4, PartIs
<1>7. LenAs(b) = n - b.used /\ n - b.used \in Nat
  BY ONLY <1>1, <1>3, <1>4 DEF LenAs
<1> QED BY ONLY <1>2, <1>5, <1>6, <1>7

(* What is done to the bytes behind the used data is done to the string. *)
LEMMA ContentMixed ==
  ASSUME NEW b, Shape(b), NEW d, Shape(d), d.used = b.used, NEW t \in Seq(Byte),
         NEW p \in Nat, NEW q \in Nat, p <= q, q <= LenAs(b),
         Bytes(d.nodes) = Mixed(Bytes(b.nodes), b.used + p, t, b.used + q)
  PROVE  Content(d) = Mixed(Content(b), p, t, q)
<1>1. PICK s, z, C, D, u, N, M, T : /\ s = Bytes(b.nodes) /\ z = Bytes(d.nodes) /\ C = Content(b)
                                    /\ D = Content(d) /\ u = b.used /\ N = LenAs(b) /\ M = LenAs(d)
                                    /\ T = Len(t)
  OBVIOUS
<1>2. /\ C \in Seq(Byte) /\ Len(C) = N /\ N \in Nat /\ \A x \in 1 .. N : C[x] = s[u + x]
      /\ D \in Seq(Byte) /\ Len(D) = M /\ M \in Nat /\ \A x \in 1 .. M : D[x] = z[u + x]
  BY <1>1, ContentIs
<1>3. /\ b.nodes \in Seq(NodeRec) /\ Filled(b.nodes) /\ d.nodes \in Seq(NodeRec) /\ Filled(d.nodes)
      /\ u \in Nat /\ Upto(b.nodes, Len(b.nodes)) \in Nat /\ Upto(d.nodes, Len(d.nodes)) \in Nat
  <2>1. Len(b.nodes) \in 0 .. Len(b.nodes) /\ Len(d.nodes) \in 0 .. Len(d.nodes)
    BY ListIs
  <2> QED BY <1>1, <2>1, ListIs
<1>4. s \in Seq(Byte) /\ Len(s) = u + N /\ Len(z) = u + M
  <2>1. Len(s) = Upto(b.nodes, Len(b.nodes)) /\ Len(z) = Upto(d.nodes, Len(d.nodes)) /\ s \in Seq(Byte)
    BY <1>1, <1>3, BytesIs DEF Holds
  <2>2. N = Upto(b.nodes, Len(b.nodes)) - u /\ M = Upto(d.nodes, Len(d.nodes)) - u
    BY <1>1 DEF LenAs
  <2> QED BY ONLY <1>3, <2>1, <2>2
<1>a. q <= N /\ p <= q /\ p \in Nat /\ q \in Nat
  BY <1>1
<1>5. MixedAt(z, s, u + p, t, u + q)
  <2>1. u + p \in Nat /\ u + q \in Nat /\ u + p <= u + q /\ u + q <= Len(s)
    <3>1. u \in Nat /\ N \in Nat /\ Len(s) = u + N
      BY ONLY <1>2, <1>3, <1>4
    <3> QED BY ONLY <1>a, <3>1
  <2> QED BY <1>1, <1>4, <2>1, MixedIs
<1>6. /\ M = p + T + (N - q) /\ T \in Nat
      /\ \A x \in 1 .. u + p : z[x] = s[x]
      /\ \A x \in 1 .. T : z[(u + p) + x] = t[x]
      /\ \A x \in 1 .. N - q : z[(u + p) + T + x] = s[(u + q) + x]
  <2>1. /\ Len(z) = (u + p) + T + (Len(s) - (u + q))
        /\ \A x \in 1 .. u + p : z[x] = s[x]
        /\ \A x \in 1 .. T : z[(u + p) + x] = t[x]
        /\ \A x \in 1 .. Len(s) - (u + q) : z[(u + p) + T + x] = s[(u + q) + x]
    BY ONLY <1>1, <1>5 DEF MixedAt
  <2>2. Len(s) - (u + q) = N - q
    BY ONLY <1>2, <1>3, <1>4, <1>a
  <2>3. T \in Nat
    BY <1>1
  <2> QED BY ONLY <1>2, <1>3, <1>4, <1>a, <2>1, <2>2, <2>3
<1>7. \A x \in 1 .. p : D[x] = C[x]
  <2> TAKE x \in 1 .. p
  <2>1. x \in 1 .. M /\ x \in 1 .. N /\ u + x \in 1 .. u + p
    BY ONLY <1>2, <1>3, <1>6, <1>a, x \in 1 .. p
  <2> QED BY ONLY <1>2, <1>6, <2>1
<1>8. \A x \in 1 .. T : D[p + x] = t[x]
  <2> TAKE x \in 1 .. T
  <2>1. p + x \in 1 .. M /\ u + (p + x) = (u + p) + x
    BY ONLY <1>2, <1>3, <1>6, <1>a, x \in 1 .. T
  <2> QED BY ONLY <1>2, <1>6, <2>1, x \in 1 .. T
<1>9. \A x \in 1 .. N - q : D[p + T + x] = C[q + x]
  <2> TAKE x \in 1 .. N - q
  <2>1. p + T + x \in 1 .. M /\ u + (p + T + x) = (u + p) + T + x /\ q + x \in 1 .. N /\ u + (q + x) = (u + q) + x
    BY ONLY <1>2, <1>3, <1>6, <1>a, x \in 1 .. N - q
  <2>2. D[p + T + x] = z[(u + p) + T + x] /\ C[q + x] = s[(u + q) + x]
    BY ONLY <1>2, <2>1
  <2> QED BY ONLY <1>6, <2>2, x \in 1 .. N - q
<1>10. MixedAt(D, C, p, t, q)
  BY ONLY <1>1, <1>2, <1>6, <1>7, <1>8, <1>9 DEF MixedAt
<1>11. D = Mixed(C, p, t, q)
  BY <1>1, <1>2, <1>10, MixedOnly
<1> QED BY ONLY <1>1, <1>11

(* Nodes i + 1 .. j of a string are replaced. *)
LEMMA SwapContent ==
  ASSUME NEW b, Shape(b), NEW d, Shape(d), d.used = b.used, NEW i, NEW j, NEW xs, Filled(xs),
         IsSwap(d.nodes, b.nodes, i, j, xs), b.used <= Upto(b.nodes, i)
  PROVE  Content(d) = Mixed(Content(b), Upto(b.nodes, i) - b.used, Bytes(xs), Upto(b.nodes, j) - b.used)
<1>1. PICK ns, L, u, p, q : /\ ns = b.nodes /\ L = Len(b.nodes) /\ u = b.used
                            /\ p = Upto(b.nodes, i) - b.used /\ q = Upto(b.nodes, j) - b.used
  OBVIOUS
<1>2. /\ ns \in Seq(NodeRec) /\ Filled(ns) /\ L \in Nat /\ u \in Nat
      /\ \A k \in 0 .. L : Upto(ns, k) \in Nat
  BY <1>1, ListIs
<1>3. i \in Nat /\ j \in Nat /\ i <= j /\ j <= L /\ xs \in Seq(NodeRec)
  BY <1>1 DEF IsSwap
<1>4. i \in 0 .. L /\ j \in 0 .. L /\ L \in 0 .. L
  BY <1>2, <1>3
<1>5. Upto(ns, i) <= Upto(ns, j) /\ Upto(ns, j) <= Upto(ns, L)
  BY <1>1, <1>2, <1>3, <1>4, UptoOrder
<1>6. p \in Nat /\ q \in Nat /\ p <= q /\ u + p = Upto(ns, i) /\ u + q = Upto(ns, j) /\ q <= LenAs(b)
  <2>1. LenAs(b) = Upto(ns, L) - u
    BY <1>1 DEF LenAs
  <2>2. u <= Upto(ns, i) /\ p = Upto(ns, i) - u /\ q = Upto(ns, j) - u
    BY <1>1
  <2> QED BY ONLY <1>2, <1>4, <1>5, <2>1, <2>2
<1>7. Bytes(d.nodes) = Mixed(Bytes(ns), u + p, Bytes(xs), u + q)
  BY <1>1, <1>2, <1>6, SwapBytes
<1>8. Bytes(xs) \in Seq(Byte)
  BY <1>3, BytesIs DEF Holds
<1>9. Content(d) = Mixed(Content(b), p, Bytes(xs), q)
  BY <1>1, <1>6, <1>7, <1>8, ContentMixed
<1> QED BY ONLY <1>1, <1>9

(* The bytes after p and up to q of node i of a string are replaced: those *)
(* after v and up to w of the string.                                      *)
Edited(d, b, i, p, t, q, x, v, w) ==
  /\ Shape(b) /\ Shape(d) /\ d.used = b.used /\ i \in 1 .. Len(b.nodes)
  /\ t \in Seq(Byte) /\ p \in Nat /\ q \in Nat /\ p <= q /\ q <= NLen(b.nodes[i])
  /\ 0 < p + Len(t) + (NLen(b.nodes[i]) - q) /\ (i = 1 => b.used <= p)
  /\ x = Mixed(b.nodes[i].data, p, t, q) /\ d.nodes = [b.nodes EXCEPT ![i].data = x]
  /\ v = Upto(b.nodes, i - 1) + p - b.used /\ w = Upto(b.nodes, i - 1) + q - b.used

LEMMA EditContent ==
  ASSUME NEW d, NEW b, NEW i, NEW p, NEW t, NEW q, NEW x, NEW v, NEW w,
         Edited(d, b, i, p, t, q, x, v, w)
  PROVE  Content(d) = Mixed(Content(b), v, t, w)
<1> /\ Shape(b) /\ Shape(d) /\ d.used = b.used /\ i \in 1 .. Len(b.nodes)
    /\ t \in Seq(Byte) /\ p \in Nat /\ q \in Nat /\ p <= q /\ q <= NLen(b.nodes[i])
    /\ 0 < p + Len(t) + (NLen(b.nodes[i]) - q) /\ (i = 1 => b.used <= p)
    /\ x = Mixed(b.nodes[i].data, p, t, q) /\ d.nodes = [b.nodes EXCEPT ![i].data = x]
    /\ v = Upto(b.nodes, i - 1) + p - b.used /\ w = Upto(b.nodes, i - 1) + q - b.used
  BY DEF Edited
<1>1. PICK ns, L, u, U, y, s, l : /\ ns = b.nodes /\ L = Len(b.nodes) /\ u = b.used
                                  /\ U = Upto(b.nodes, i - 1) /\ y = b.nodes[i].data /\ s = Bytes(b.nodes)
                                  /\ l = NLen(b.nodes[i])
  OBVIOUS
<1>2. /\ ns \in Seq(NodeRec) /\ Filled(ns) /\ L \in Nat /\ u \in Nat
      /\ \A k \in 0 .. L : Upto(ns, k) \in Nat
      /\ \A k \in 1 .. L : Upto(ns, k) = Upto(ns, k - 1) + NLen(ns[k]) /\ NLen(ns[k]) \in Nat /\ u <= Upto(ns, k)
      /\ Upto(ns, 0) = 0
  BY <1>1, ListIs
<1>3. y \in Seq(Byte) /\ Len(y) = l /\ l \in Nat
  BY <1>1, <1>2, NodeIs DEF NLen
<1>4. i \in 1 .. L /\ i \in 0 .. L /\ i - 1 \in 0 .. L /\ L \in 0 .. L /\ i <= L
  <2>1. i \in 1 .. L
    BY ONLY <1>1, i \in 1 .. Len(b.nodes)
  <2> QED BY ONLY <1>2, <2>1
<1>5. U \in Nat /\ Upto(ns, i) = U + l /\ U + l <= Upto(ns, L)
  <2>1. Upto(ns, i) <= Upto(ns, L)
    BY ONLY <1>1, <1>2, <1>4, UptoOrder
  <2>2. U = Upto(ns, i - 1) /\ l = NLen(ns[i])
    BY ONLY <1>1
  <2>3. U \in Nat /\ Upto(ns, i) = U + l
    BY ONLY <1>2, <1>4, <2>2
  <2> QED BY ONLY <2>1, <2>3
<1>6. u <= U + p
  <2>1. CASE i = 1
    <3>1. U = 0 /\ u <= p
      BY <1>1, <1>2, <2>1
    <3> QED BY <1>2, <3>1
  <2>2. CASE i # 1
    <3>1. i - 1 \in 1 .. L
      BY <1>2, <1>4, <2>2
    <3>2. u <= U
      BY ONLY <1>1, <1>2, <3>1
    <3> QED BY <1>2, <1>5, <3>2
  <2> QED BY <2>1, <2>2
<1>7. Holds(s, ns, L)
  BY <1>1, <1>2, BytesIs
<1>8. s \in Seq(Byte) /\ Len(s) = Upto(ns, L) /\ \A k \in 1 .. l : s[U + k] = y[k]
  BY ONLY <1>1, <1>4, <1>7 DEF Holds
<1>9. MixedAt(x, y, p, t, q) /\ q <= Len(y)
  BY <1>1, <1>3, MixedIs
<1>10. x \in Seq(Byte) /\ Len(x) = p + Len(t) + (l - q)
  BY ONLY <1>3, <1>9 DEF MixedAt
<1>11. Len(x) > 0
  BY <1>1, <1>10
<1>12. Bytes(d.nodes) = Mixed(s, U, x, U + l)
  <2>1. Bytes(d.nodes) = Mixed(s, Upto(ns, i - 1), x, Upto(ns, i))
    BY ONLY <1>1, <1>2, <1>4, <1>10, <1>11, SetBytes, d.nodes = [b.nodes EXCEPT ![i].data = x]
  <2> QED BY ONLY <1>1, <1>5, <2>1
<1>13. Mixed(s, U, x, U + l) = Mixed(s, U + p, t, U + q)
  <2>1. Within(y, s, U)
    BY ONLY <1>3, <1>5, <1>8 DEF Within
  <2>2. Mixed(s, U, Mixed(y, p, t, q), U + Len(y)) = Mixed(s, U + p, t, U + q)
    <3>1. s \in Seq(Byte) /\ y \in Seq(Byte) /\ U \in Nat /\ q <= Len(y)
      BY ONLY <1>3, <1>5, <1>8, <1>9
    <3> QED BY ONLY <2>1, <3>1, MixedInner, t \in Seq(Byte), p \in Nat, q \in Nat, p <= q
  <2> QED BY ONLY <1>1, <1>3, <2>2, x = Mixed(b.nodes[i].data, p, t, q)
<1>14. v = U + p - u /\ w = U + q - u
  BY <1>1
<1>15. v \in Nat /\ w \in Nat /\ v <= w /\ u + v = U + p /\ u + w = U + q /\ w <= LenAs(b)
  <2>1. LenAs(b) = Upto(ns, L) - u /\ Upto(ns, L) \in Nat
    BY <1>1, <1>2, <1>4 DEF LenAs
  <2>2. q <= l
    BY <1>1
  <2> QED BY ONLY <1>2, <1>3, <1>5, <1>6, <1>14, <2>1, <2>2, p \in Nat, q \in Nat, p <= q
<1>16. Bytes(d.nodes) = Mixed(Bytes(b.nodes), b.used + v, t, b.used + w)
  BY ONLY <1>1, <1>12, <1>13, <1>15
<1>17. Content(d) = Mixed(Content(b), v, t, w)
  BY <1>15, <1>16, ContentMixed
<1> QED BY ONLY <1>17

-----------------------------------------------------------------------------
(* Ways to write Mixed() *)

LEMMA MixedSame ==
  ASSUME NEW s \in Seq(Byte), NEW y \in Seq(Byte), NEW U \in Nat, Within(y, s, U)
  PROVE  Mixed(s, U, y, U + Len(y)) = s
<1>1. PICK S, Y, V : S = Len(s) /\ Y = Len(y) /\ V = U + Len(y)
  OBVIOUS
<1>2. S \in Nat /\ Y \in Nat /\ V \in Nat /\ V = U + Y /\ V <= S /\ U <= V
  BY <1>1 DEF Within
<1>3. MixedAt(s, s, U, y, V)
  <2>1. S = U + Y + (S - V) /\ \A x \in 1 .. S - V : U + Y + x = V + x
    BY ONLY <1>2, U \in Nat
  <2>2. \A x \in 1 .. Y : s[U + x] = y[x]
    BY <1>1 DEF Within
  <2> QED BY ONLY <1>1, <2>1, <2>2, s \in Seq(Byte) DEF MixedAt
<1> QED BY <1>1, <1>2, <1>3, MixedOnly

LEMMA MixedEnd ==
  ASSUME NEW y \in Seq(Byte), NEW t \in Seq(Byte)
  PROVE  y \o t = Mixed(y, Len(y), t, Len(y))
<1>1. PICK Y, T, u : Y = Len(y) /\ T = Len(t) /\ u = y \o t
  OBVIOUS
<1>2. /\ Y \in Nat /\ T \in Nat /\ u \in Seq(Byte) /\ Len(u) = Y + T
      /\ \A x \in 1 .. Y + T : u[x] = IF x <= Y THEN y[x] ELSE t[x - Y]
  BY <1>1, ConcatIs
<1>3. MixedAt(u, y, Y, t, Y)
  <2>1. /\ \A x \in 1 .. Y : x \in 1 .. Y + T /\ x <= Y
        /\ \A x \in 1 .. T : Y + x \in 1 .. Y + T /\ ~(Y + x <= Y) /\ Y + x - Y = x
        /\ Y + T = Y + T + (Y - Y) /\ 1 .. Y - Y = {}
    BY ONLY <1>2
  <2>2. \A x \in 1 .. Y : u[x] = y[x]
    BY ONLY <1>2, <2>1
  <2>3. \A x \in 1 .. T : u[Y + x] = t[x]
    BY ONLY <1>2, <2>1
  <2> QED BY ONLY <1>1, <1>2, <2>1, <2>2, <2>3 DEF MixedAt
<1>4. Y <= Y /\ Y <= Len(y)
  BY ONLY <1>1, <1>2
<1>5. u = Mixed(y, Y, t, Y)
  BY ONLY <1>2, <1>3, <1>4, MixedOnly, y \in Seq(Byte), t \in Seq(Byte)
<1> QED BY ONLY <1>1, <1>5

LEMMA MixedNone ==
  ASSUME NEW y \in Seq(Byte), NEW p \in Nat, NEW q \in Nat, p <= q, q <= Len(y)
  PROVE  Mixed(y, p, <<>>, q) = SubSeq(y, 1, p) \o SubSeq(y, q + 1, Len(y))
<1>1. PICK a, c : a = SubSeq(y, 1, p) /\ c = SubSeq(y, q + 1, Len(y))
  OBVIOUS
<1>2. a \in Seq(Byte)
  <2>1. 1 \in Nat /\ 1 <= 1 /\ 1 <= p + 1 /\ p <= Len(y)
    OBVIOUS
  <2> QED BY ONLY <1>1, <2>1, SubSeqIs, y \in Seq(Byte), p \in Nat
<1>3. a \o <<>> = a
  BY ONLY <1>2
<1> QED BY ONLY <1>1, <1>3 DEF Mixed

LEMMA MixedHead ==
  ASSUME NEW y \in Seq(Byte), NEW p \in Nat, p <= Len(y)
  PROVE  SubSeq(y, 1, p) = Mixed(y, p, <<>>, Len(y))
<1>1. PICK a, Y, e : a = SubSeq(y, 1, p) /\ Y = Len(y) /\ e = <<>>
  OBVIOUS
<1>2. Y \in Nat /\ p <= Y /\ 1 \in Nat /\ 1 <= 1 /\ 1 <= p + 1 /\ e \in Seq(Byte) /\ Len(e) = 0 /\ Y <= Y
  BY <1>1
<1>3. /\ a \in Seq(Byte) /\ Len(a) = p - 1 + 1
      /\ \A x \in 1 .. p - 1 + 1 : a[x] = y[1 + x - 1]
  BY ONLY <1>1, <1>2, SubSeqIs, y \in Seq(Byte), p \in Nat
<1>4. MixedAt(a, y, p, e, Y)
  <2>1. /\ p - 1 + 1 = p /\ \A x \in 1 .. p : 1 + x - 1 = x
        /\ p = p + 0 + (Y - Y) /\ 1 .. Y - Y = {} /\ 1 .. 0 = {}
    BY ONLY <1>2, p \in Nat
  <2> QED BY ONLY <1>1, <1>2, <1>3, <2>1 DEF MixedAt
<1> QED BY <1>1, <1>2, <1>4, MixedOnly

LEMMA MixedTail ==
  ASSUME NEW y \in Seq(Byte), NEW k \in Nat, k <= Len(y)
  PROVE  SubSeq(y, k + 1, Len(y)) = Mixed(y, 0, <<>>, k)
<1>1. PICK a, Y, e : a = SubSeq(y, k + 1, Len(y)) /\ Y = Len(y) /\ e = <<>>
  OBVIOUS
<1>2. Y \in Nat /\ k <= Y /\ 0 \in Nat /\ 0 <= k /\ e \in Seq(Byte) /\ Len(e) = 0 /\ Y <= Y
  BY <1>1
<1>3. a \in Seq(Byte) /\ Len(a) = Y - k /\ \A x \in 1 .. Y - k : a[x] = y[k + x]
  BY ONLY <1>1, <1>2, PartIs, y \in Seq(Byte), k \in Nat
<1>4. MixedAt(a, y, 0, e, k)
  <2>1. /\ Y - k = 0 + 0 + (Y - k) /\ 1 .. 0 = {} /\ \A x \in 1 .. Y - k : 0 + 0 + x = x
    BY ONLY <1>2, k \in Nat
  <2> QED BY ONLY <1>1, <1>2, <1>3, <2>1 DEF MixedAt
<1> QED BY <1>1, <1>2, <1>4, MixedOnly

(* A list that is cut in two. *)
LEMMA Halves ==
  ASSUME NEW y \in Seq(Byte), NEW p \in Nat, p <= Len(y)
  PROVE  /\ SubSeq(y, 1, p) \in Seq(Byte) /\ Len(SubSeq(y, 1, p)) = p
         /\ SubSeq(y, p + 1, Len(y)) \in Seq(Byte) /\ Len(SubSeq(y, p + 1, Len(y))) = Len(y) - p
         /\ SubSeq(y, 1, p) \o SubSeq(y, p + 1, Len(y)) = y
<1>1. PICK a, c, Y, u : /\ a = SubSeq(y, 1, p) /\ c = SubSeq(y, p + 1, Len(y)) /\ Y = Len(y) /\ u = a \o c
  OBVIOUS
<1>2. Y \in Nat /\ p <= Y /\ 1 \in Nat /\ 1 <= 1 /\ 1 <= p + 1 /\ Y <= Y
  BY <1>1
<1>3. a \in Seq(Byte) /\ Len(a) = p /\ \A x \in 1 .. p : a[x] = y[x]
  <2>1. /\ a \in Seq(Byte) /\ Len(a) = p - 1 + 1
        /\ \A x \in 1 .. p - 1 + 1 : a[x] = y[1 + x - 1]
    BY ONLY <1>1, <1>2, SubSeqIs, y \in Seq(Byte), p \in Nat
  <2>2. p - 1 + 1 = p /\ \A x \in 1 .. p : 1 + x - 1 = x
    BY ONLY <1>2, p \in Nat
  <2> QED BY ONLY <2>1, <2>2
<1>4. c \in Seq(Byte) /\ Len(c) = Y - p /\ \A x \in 1 .. Y - p : c[x] = y[p + x]
  <2>1. p \in Nat /\ Y \in Nat /\ p <= Y /\ Y <= Len(y) /\ c = SubSeq(y, p + 1, Y)
    BY ONLY <1>1, <1>2, p \in Nat
  <2> QED BY ONLY <2>1, PartIs, y \in Seq(Byte)
<1>5. /\ u \in Seq(Byte) /\ Len(u) = Len(a) + Len(c)
      /\ \A x \in 1 .. Len(a) + Len(c) : u[x] = IF x <= Len(a) THEN a[x] ELSE c[x - Len(a)]
  <2>1. /\ a \o c \in Seq(Byte) /\ Len(a \o c) = Len(a) + Len(c)
        /\ \A x \in 1 .. Len(a) + Len(c) : (a \o c)[x] = IF x <= Len(a) THEN a[x] ELSE c[x - Len(a)]
    BY ONLY <1>3, <1>4, ConcatIs
  <2> QED BY ONLY <1>1, <2>1
<1>6. Len(u) = Y /\ \A x \in 1 .. Y : u[x] = y[x]
  <2>1. p + (Y - p) = Y
    BY ONLY <1>2, p \in Nat
  <2>2. \A x \in 1 .. Y : u[x] = IF x <= p THEN a[x] ELSE c[x - p]
    BY ONLY <1>3, <1>4, <1>5, <2>1
  <2>3. \A x \in 1 .. Y : IF x <= p THEN x \in 1 .. p ELSE x - p \in 1 .. Y - p /\ p + (x - p) = x
    BY ONLY <1>2, p \in Nat
  <2>4. \A x \in 1 .. Y : u[x] = y[x]
    BY ONLY <1>3, <1>4, <2>2, <2>3
  <2> QED BY ONLY <1>3, <1>4, <1>5, <2>1, <2>4
<1>7. u = y
  <2>1. u \in Seq(Byte) /\ y \in Seq(Byte) /\ Len(u) = Y /\ Len(y) = Y /\ Y \in Nat
    BY <1>1, <1>2, <1>5, <1>6
  <2>2. \A x \in 1 .. Y : u[x] = y[x]
    BY ONLY <1>6
  <2> QED BY ONLY <2>1, <2>2
<1> QED BY ONLY <1>1, <1>3, <1>4, <1>7

-----------------------------------------------------------------------------
(* Splitting a node *)

(* The bytes of a node are where the nodes before it end. *)
LEMMA NodeWithin ==
  ASSUME NEW ns \in Seq(NodeRec), Filled(ns), NEW i \in 1 .. Len(ns)
  PROVE  /\ Within(ns[i].data, Bytes(ns), Upto(ns, i - 1)) /\ Bytes(ns) \in Seq(Byte)
         /\ ns[i].data \in Seq(Byte) /\ Upto(ns, i - 1) \in Nat /\ Upto(ns, i) \in Nat
         /\ Upto(ns, i) = Upto(ns, i - 1) + Len(ns[i].data) /\ Upto(ns, i) <= Len(Bytes(ns))
         /\ Len(Bytes(ns)) = Upto(ns, Len(ns)) /\ Len(ns[i].data) \in Nat
<1>1. PICK L, B, U, V, y : /\ L = Len(ns) /\ B = Bytes(ns) /\ U = Upto(ns, i - 1) /\ V = Upto(ns, i)
                           /\ y = ns[i].data
  OBVIOUS
<1>2. L \in Nat /\ y \in Seq(Byte) /\ Len(y) \in Nat /\ NLen(ns[i]) = Len(y)
  BY <1>1, NodeIs DEF NLen
<1>3. i \in 0 .. L /\ i - 1 \in 0 .. L /\ L \in 0 .. L /\ i <= L
  BY ONLY <1>1, <1>2, i \in 1 .. Len(ns)
<1>4. U \in Nat /\ V \in Nat /\ V = U + Len(y) /\ Upto(ns, L) \in Nat
  BY <1>1, <1>2, <1>3, UptoIs
<1>5. Holds(B, ns, L)
  BY ONLY <1>1, BytesIs, ns \in Seq(NodeRec), Filled(ns)
<1>6. B \in Seq(Byte) /\ Len(B) = Upto(ns, L) /\ \A x \in 1 .. Len(y) : B[U + x] = y[x]
  <2>1. \A x \in 1 .. NLen(ns[i]) : B[Upto(ns, i - 1) + x] = ns[i].data[x]
    BY <1>1, <1>5 DEF Holds
  <2> QED BY <1>1, <1>2, <1>5, <2>1 DEF Holds
<1>7. V <= Upto(ns, L)
  <2>1. V + (L - i) <= Upto(ns, L)
    BY <1>1, <1>3, UptoGrows
  <2> QED BY ONLY <1>2, <1>3, <1>4, <2>1
<1>8. Within(y, B, U)
  BY ONLY <1>4, <1>6, <1>7 DEF Within
<1> QED BY ONLY <1>1, <1>2, <1>4, <1>6, <1>7, <1>8

LEMMA SplitBytes ==
  ASSUME NEW ns \in Seq(NodeRec), Filled(ns), NEW i \in 1 .. Len(ns), NEW p \in Nat, 0 < p,
         p < NLen(ns[i]), NEW x \in NodeRec, x.data = SubSeq(ns[i].data, p + 1, NLen(ns[i]))
  PROVE  Bytes(InsertAt([ns EXCEPT ![i].data = SubSeq(ns[i].data, 1, p)], i + 1, x)) = Bytes(ns)
<1>1. PICK B, U, V, y, y1, y2 : /\ B = Bytes(ns) /\ U = Upto(ns, i - 1) /\ V = Upto(ns, i)
                                /\ y = ns[i].data /\ y1 = SubSeq(y, 1, p) /\ y2 = SubSeq(y, p + 1, Len(y))
  OBVIOUS
<1>2. /\ Within(y, B, U) /\ B \in Seq(Byte) /\ y \in Seq(Byte) /\ U \in Nat /\ V \in Nat
      /\ V = U + Len(y) /\ V <= Len(B) /\ Len(y) \in Nat
  BY <1>1, NodeWithin
<1>3. p < Len(y) /\ p <= Len(y) /\ x.data = y2
  BY <1>1, <1>2 DEF NLen
<1>4. /\ y1 \in Seq(Byte) /\ Len(y1) = p /\ y2 \in Seq(Byte) /\ Len(y2) = Len(y) - p /\ y1 \o y2 = y
  <2>1. /\ SubSeq(y, 1, p) \in Seq(Byte) /\ Len(SubSeq(y, 1, p)) = p
        /\ SubSeq(y, p + 1, Len(y)) \in Seq(Byte) /\ Len(SubSeq(y, p + 1, Len(y))) = Len(y) - p
        /\ SubSeq(y, 1, p) \o SubSeq(y, p + 1, Len(y)) = y
    BY <1>2, <1>3, Halves
  <2> QED BY ONLY <1>1, <2>1
<1>5. Len(y1) > 0 /\ NLen(x) > 0
  BY <1>2, <1>3, <1>4 DEF NLen
<1>6. PICK m1 : m1 = [ns EXCEPT ![i].data = y1]
  OBVIOUS
<1>7. m1 \in Seq(NodeRec) /\ Filled(m1) /\ Bytes(m1) = Mixed(B, U, y1, V)
  BY <1>1, <1>4, <1>5, <1>6, SetBytes
<1>8. Altered(m1, ns, i, p)
  BY ONLY <1>4, <1>6, AlteredIs, ns \in Seq(NodeRec), i \in 1 .. Len(ns)
<1>9. Len(m1) = Len(ns) /\ Upto(m1, i) = U + Len(y1) /\ i \in Nat /\ i <= i /\ i <= Len(m1)
  <2>1. Len(m1) = Len(ns) /\ Len(ns) \in Nat
    BY <1>8, NodeIs DEF Altered
  <2>2. i \in i .. Len(ns) /\ i \in Nat /\ i <= i /\ i <= Len(ns)
    BY ONLY <2>1, i \in 1 .. Len(ns)
  <2>3. Upto(m1, i) = Upto(ns, i) + (p - NLen(ns[i]))
    BY ONLY <1>8, <2>2, AlteredUpto
  <2>4. Upto(m1, i) = V + (p - Len(y))
    BY <1>1, <2>3 DEF NLen
  <2> QED BY ONLY <1>2, <1>4, <2>1, <2>2, <2>4, p \in Nat
<1>10. PICK ms : ms = InsertAt(m1, i + 1, x)
  OBVIOUS
<1>11. /\ <<x>> \in Seq(NodeRec) /\ Filled(<<x>>) /\ Bytes(<<x>>) = y2
  BY <1>3, <1>5, SingleIs, SingleBytes
<1>12. IsSwap(ms, m1, i, i, <<x>>)
  <2>1. ms = SubSeq(m1, 1, i) \o <<x>> \o SubSeq(m1, i + 1, Len(m1))
    BY ONLY <1>9, <1>10, InsertIs
  <2>2. PICK xs : xs = <<x>>
    OBVIOUS
  <2>3. xs \in Seq(NodeRec)
    BY ONLY <1>11, <2>2
  <2>4. IsSwap(SubSeq(m1, 1, i) \o xs \o SubSeq(m1, i + 1, Len(m1)), m1, i, i, xs)
    BY ONLY <1>7, <1>9, <2>3, SwapIs
  <2> QED BY ONLY <2>1, <2>2, <2>4
<1>13. Bytes(ms) = Mixed(Mixed(B, U, y1, V), U + Len(y1), y2, U + Len(y1))
  BY ONLY <1>7, <1>9, <1>11, <1>12, SwapBytes
<1>14. Mixed(Mixed(B, U, y1, V), U + Len(y1), y2, U + Len(y1)) = Mixed(B, U, y, V)
  <2>1. PICK a : a = U + Len(y1)
    OBVIOUS
  <2>2. PICK r, g : r \in Nat /\ r = 0 /\ g = Mixed(B, U, y1, V)
    OBVIOUS
  <2>3. U <= V /\ V + r <= Len(B) /\ a = a + r /\ V = V + r
    BY ONLY <1>2, <1>4, <2>1, <2>2, p \in Nat
  <2>4. Twice(B, U, y1, V, y2, r, g, a, a, V, y)
    BY ONLY <1>2, <1>4, <2>1, <2>2, <2>3 DEF Twice
  <2>5. Mixed(g, a, y2, a) = Mixed(B, U, y, V)
    BY ONLY <2>4, MixedTwice
  <2> QED BY ONLY <2>1, <2>2, <2>5
<1>15. Mixed(B, U, y, V) = B
  BY ONLY <1>2, MixedSame
<1> QED BY ONLY <1>1, <1>6, <1>10, <1>13, <1>14, <1>15

LEMMA ContentSame ==
  ASSUME NEW b, NEW d, Bytes(d.nodes) = Bytes(b.nodes), d.used = b.used
  PROVE  Content(d) = Content(b)
BY DEF Content, Bytes

LEMMA SplitContent ==
  ASSUME NEW b, NEW c, Right(b), Fits(b.nodes, c), NEW i, NEW p, MaySplit(b, i, p)
  PROVE  Content(SplitNode(b, c, i, p).b) = Content(b)
<1>1. PICK n, e : n = b.nodes[i] /\ e = Ensure(c, b.nodes[i].type, 1)
  OBVIOUS
<1> DEFINE x == [id |-> FreshId(b, 1), type |-> n.type, data |-> SubSeq(n.data, p + 1, NLen(n))]
           ms == InsertAt([b.nodes EXCEPT ![i].data = SubSeq(@, 1, p)], i + 1, x)
           s == IovecStale(b)
           d == [s EXCEPT !.nodes = ms, !.num = @ + 1, !.end = IF @ = n.id THEN x.id ELSE @]
<1>2. SplitNode(b, c, i, p).b = IF e.ok THEN d ELSE b
  BY <1>1 DEF SplitNode
<1>3. /\ b.nodes \in Seq(NodeRec) /\ Len(b.nodes) \in Nat /\ Filled(b.nodes) /\ IsBase(b) /\ b.len \in Nat
      /\ i \in 1 .. Len(b.nodes) /\ p \in Nat /\ 0 < p /\ p < NLen(n) /\ b.len <= MaxLen
  BY <1>1, ShapeIs DEF Right, Shape, MaySplit
<1>4. n.data \in Seq(Byte) /\ NLen(n) \in Nat /\ n.type \in NodeTypes /\ NLen(n) = Len(n.data)
  BY <1>1, <1>3, NodeIs DEF NLen
<1>5. x \in NodeRec
  <2>1. PICK o \in Nat : o = 1
    OBVIOUS
  <2>2. Len(b.nodes) <= b.len /\ MaxLen \in Nat /\ MaxLen > 0
    BY NodesAtMost, NodesAssumption DEF Right
  <2>3. 1 <= o /\ Len(b.nodes) + o <= 2 * MaxLen
    BY ONLY <1>3, <2>1, <2>2
  <2>4. FreshId(b, o) \in Ids
    BY ONLY <1>3, <2>3, FreshIs, FreshNew, o \in Nat
  <2>5. SubSeq(n.data, p + 1, Len(n.data)) \in Seq(Byte)
    BY <1>3, <1>4, Halves
  <2> QED BY <1>4, <2>1, <2>4, <2>5 DEF NodeRec
<1>6. Bytes(ms) = Bytes(b.nodes)
  <2>1. x.data = SubSeq(n.data, p + 1, NLen(n))
    OBVIOUS
  <2> HIDE DEF x
  <2>2. ms = InsertAt([b.nodes EXCEPT ![i].data = SubSeq(b.nodes[i].data, 1, p)], i + 1, x)
    OBVIOUS
  <2> QED BY ONLY <1>1, <1>3, <1>5, <2>1, <2>2, SplitBytes
<1> HIDE DEF ms, x
<1>7. Same(b, s)
  BY <1>3, IovecEntriesSame
<1> HIDE DEF s
<1>8. d.nodes = ms /\ d.used = b.used
  BY <1>7 DEF Same, IsBase, BaseRec
<1> HIDE DEF d
<1>9. Content(d) = Content(b)
  BY ONLY <1>6, <1>8, ContentSame
<1> QED BY ONLY <1>2, <1>9

-----------------------------------------------------------------------------
(* Adding *)

(* The bytes of an input from the k-th on, up to the n-th. *)
InPart(in, k, n) == [j \in 1 .. n - k |-> InByte(in, k + j)]

LEMMA InPartIs ==
  ASSUME NEW in \in Inputs, NEW k \in Nat, NEW n \in Nat, k <= n
  PROVE  InPart(in, k, n) \in Seq(Byte) /\ Len(InPart(in, k, n)) = n - k
<1>1. \A j \in 1 .. n - k : InByte(in, k + j) \in Byte
  BY DEF Byte
<1>2. PICK m : m = n - k
  OBVIOUS
<1>3. m \in Nat
  BY <1>2
<1>4. PICK u : u = [j \in 1 .. m |-> InByte(in, k + j)]
  OBVIOUS
<1>5. u \in Seq(Byte) /\ Len(u) = m
  BY ONLY <1>1, <1>2, <1>3, <1>4
<1> QED BY ONLY <1>2, <1>4, <1>5 DEF InPart

LEMMA InPartJoin ==
  ASSUME NEW in \in Inputs, NEW k \in Nat, NEW n \in Nat, k <= n
  PROVE  InPart(in, 0, k) \o InPart(in, k, n) = InPart(in, 0, n)
<1>1. PICK a, c, u, z : /\ a = InPart(in, 0, k) /\ c = InPart(in, k, n) /\ u = InPart(in, 0, n) /\ z = a \o c
  OBVIOUS
<1>2. 0 \in Nat /\ 0 <= k /\ 0 <= n /\ k - 0 = k /\ n - 0 = n
  OBVIOUS
<1>3. /\ a \in Seq(Byte) /\ Len(a) = k /\ c \in Seq(Byte) /\ Len(c) = n - k /\ u \in Seq(Byte) /\ Len(u) = n
  BY <1>1, <1>2, InPartIs
<1>4. /\ z \in Seq(Byte) /\ Len(z) = k + (n - k)
      /\ \A x \in 1 .. k + (n - k) : z[x] = IF x <= k THEN a[x] ELSE c[x - k]
  <2>1. /\ a \o c \in Seq(Byte) /\ Len(a \o c) = Len(a) + Len(c)
        /\ \A x \in 1 .. Len(a) + Len(c) : (a \o c)[x] = IF x <= Len(a) THEN a[x] ELSE c[x - Len(a)]
    BY ONLY <1>3, ConcatIs
  <2> QED BY ONLY <1>1, <1>3, <2>1
<1>5. /\ \A x \in 1 .. k : a[x] = InByte(in, 0 + x)
      /\ \A x \in 1 .. n - k : c[x] = InByte(in, k + x)
      /\ \A x \in 1 .. n : u[x] = InByte(in, 0 + x)
  BY ONLY <1>1, <1>2 DEF InPart
<1>6. /\ k + (n - k) = n
      /\ \A x \in 1 .. n : IF x <= k THEN x \in 1 .. k ELSE x - k \in 1 .. n - k /\ k + (x - k) = 0 + x
  OBVIOUS
<1>7. \A x \in 1 .. n : z[x] = u[x]
  BY ONLY <1>4, <1>5, <1>6
<1>8. z = u
  BY ONLY <1>3, <1>4, <1>6, <1>7, n \in Nat
<1> QED BY ONLY <1>1, <1>8

(* Nothing put in changes nothing. *)
LEMMA MixedNothing ==
  ASSUME NEW y \in Seq(Byte), NEW p \in Nat, p <= Len(y)
  PROVE  Mixed(y, p, <<>>, p) = y
<1>1. p <= p
  OBVIOUS
<1>2. Mixed(y, p, <<>>, p) = SubSeq(y, 1, p) \o SubSeq(y, p + 1, Len(y))
  BY ONLY <1>1, MixedNone, y \in Seq(Byte), p \in Nat, p <= Len(y)
<1>3. SubSeq(y, 1, p) \o SubSeq(y, p + 1, Len(y)) = y
  BY Halves
<1> QED BY ONLY <1>2, <1>3

(* What is merged goes where the node ends. *)
Merged(b, i, pos, t, d) ==
  /\ Content(d) = Mixed(Content(b), pos, t, pos)
  /\ Upto(d.nodes, i) = pos + b.used + Len(t)

LEMMA MergeContent ==
  ASSUME NEW b, Right(b), NEW pos \in Nat, NEW f, Found(b, pos, f), f.p = NLen(b.nodes[f.i]),
         NEW in \in Inputs, NEW k, MayMerge(b, f, in, k)
  PROVE  Merged(b, f.i, pos, InPart(in, 0, k), Merge(b, f, in, k))
<1>1. PICK i, d, ns, n, y, t : /\ i = f.i /\ d = Merge(b, f, in, k) /\ ns = b.nodes /\ n = b.nodes[f.i]
                               /\ y = n.data /\ t = InPart(in, 0, k)
  OBVIOUS
<1>2. /\ ns \in Seq(NodeRec) /\ Len(ns) \in Nat /\ b.used \in Nat /\ b.len \in Nat /\ Shape(b) /\ LenIs(b)
      /\ \A j \in 1 .. Len(ns) : /\ Upto(ns, j) = Upto(ns, j - 1) + NLen(ns[j]) /\ NLen(ns[j]) \in Nat
                                 /\ NLen(ns[j]) > 0
      /\ \A j \in 0 .. Len(ns) : Upto(ns, j) \in Nat
      /\ Len(ns) > 0 => b.used < NLen(ns[1])
  BY <1>1, ShapeIs DEF Right
<1>3. /\ i \in 1 .. Len(ns) /\ n = ns[i] /\ NLen(n) \in Nat /\ NLen(n) > 0 /\ y \in Seq(Byte)
      /\ Upto(ns, i - 1) + NLen(n) = pos + b.used /\ NLen(n) = Len(y) /\ i - 1 \in 0 .. Len(ns)
  <2>1. i \in 1 .. Len(ns) /\ n = ns[i]
    BY <1>1 DEF Found
  <2>2. NLen(n) \in Nat /\ NLen(n) > 0 /\ y \in Seq(Byte) /\ NLen(n) = Len(y)
    <3>1. n \in NodeRec
      BY ONLY <1>2, <2>1, NodeIs
    <3> QED BY <1>1, <1>2, <2>1, <3>1, NodeIs DEF NLen
  <2>3. Upto(ns, i - 1) + NLen(n) = pos + b.used
    BY <1>1 DEF Found
  <2>4. i - 1 \in 0 .. Len(ns)
    BY ONLY <1>2, <2>1
  <2> QED BY ONLY <2>1, <2>2, <2>3, <2>4
<1>4. Upto(ns, i) = pos + b.used /\ Upto(ns, i - 1) \in Nat
  <2>1. Upto(ns, i) = Upto(ns, i - 1) + NLen(ns[i])
    BY ONLY <1>2, <1>3
  <2> QED BY ONLY <1>2, <1>3, <2>1
<1>5. k \in Nat /\ t \in Seq(Byte) /\ Len(t) = k
  <2>1. k \in Nat
    BY DEF MayMerge
  <2>2. 0 \in Nat /\ 0 <= k /\ k - 0 = k
    BY <2>1
  <2> QED BY <1>1, <2>1, <2>2, InPartIs
<1>6. /\ Content(b) \in Seq(Byte) /\ Len(Content(b)) = LenAs(b) /\ pos <= Len(Content(b))
  <2>1. Content(b) \in Seq(Byte) /\ Len(Content(b)) = LenAs(b) /\ LenAs(b) \in Nat
    BY <1>2, ContentIs
  <2>2. Upto(ns, i) <= Upto(ns, Len(ns))
    <3>1. i \in 0 .. Len(ns) /\ Len(ns) \in 0 .. Len(ns) /\ i <= Len(ns) /\ i \in Nat
      BY ONLY <1>2, <1>3
    <3>2. Filled(ns) /\ Upto(ns, i) \in Nat /\ Upto(ns, Len(ns)) \in Nat
      BY ONLY <1>2, <3>1 DEF Filled
    <3>3. Upto(ns, i) + (Len(ns) - i) <= Upto(ns, Len(ns))
      BY ONLY <1>2, <3>1, <3>2, UptoGrows
    <3> QED BY ONLY <1>2, <3>1, <3>2, <3>3
  <2>3. LenAs(b) = Upto(ns, Len(ns)) - b.used /\ Upto(ns, Len(ns)) \in Nat
    <3>1. Len(ns) \in 0 .. Len(ns)
      BY ONLY <1>2
    <3> QED BY <1>1, <1>2, <3>1 DEF LenAs
  <2>4. pos <= LenAs(b)
    BY ONLY <1>2, <1>4, <2>2, <2>3, pos \in Nat
  <2> QED BY ONLY <2>1, <2>4
<1>7. CASE k = 0
  <2>1. d = b /\ t = <<>>
    BY <1>1, <1>5, <1>7 DEF Merge
  <2>2. Content(d) = Mixed(Content(b), pos, t, pos)
    BY <1>6, <2>1, MixedNothing
  <2>3. Upto(d.nodes, i) = pos + b.used + Len(t)
    BY <1>1, <1>2, <1>4, <1>5, <1>7, <2>1
  <2> QED BY <1>1, <2>2, <2>3 DEF Merged
<1>8. CASE k > 0
  <2>1. PICK x, e, m, g : /\ x = y \o t /\ e = IovecLenAdd(b, f.num, k) /\ m = b.len + k
                          /\ g = [e EXCEPT !.nodes[i].data = x, !.len = m]
    OBVIOUS
  <2>2. x \in Seq(Byte) /\ Len(x) = NLen(n) + k /\ x = Mixed(y, Len(y), t, Len(y))
    <3>1. y \o t \in Seq(Byte) /\ Len(y \o t) = Len(y) + Len(t)
      BY ONLY <1>3, <1>5, ConcatIs
    <3>2. y \o t = Mixed(y, Len(y), t, Len(y))
      BY ONLY <1>3, <1>5, MixedEnd
    <3> QED BY ONLY <1>3, <1>5, <2>1, <3>1, <3>2
  <2>3. Same(b, e) /\ IsBase(e) /\ e.nodes = ns /\ e.used = b.used /\ e.len = b.len
    <3>1. IsBase(b)
      BY ONLY <1>2 DEF Shape
    <3>2. Same(b, e)
      BY ONLY <2>1, <3>1, IovecEntriesSame
    <3> QED BY ONLY <1>1, <3>2 DEF Same
  <2>4. t = [j \in 1 .. k |-> InByte(in, j)]
    <3>1. 1 .. k - 0 = 1 .. k /\ \A j \in 1 .. k : 0 + j = j
      BY ONLY <1>5
    <3> QED BY ONLY <1>1, <3>1 DEF InPart
  <2>5. d = g
    <3>1. d = [e EXCEPT !.nodes[f.i].data = @ \o [j \in 1 .. k |-> InByte(in, j)], !.len = @ + k]
      BY <1>1, <1>8, <2>1 DEF Merge
    <3> QED BY ONLY <1>1, <2>1, <2>3, <2>4, <3>1
  <2>6. d.nodes = [ns EXCEPT ![i].data = x] /\ d.used = b.used
    BY ONLY <2>1, <2>3, <2>5 DEF IsBase, BaseRec
  <2>7. Shape(d)
    BY <1>1, MergeIs DEF MergeDone
  <2>8. /\ Len(y) \in Nat /\ Len(y) <= Len(y) /\ Len(y) <= NLen(ns[i])
        /\ 0 < Len(y) + Len(t) + (NLen(ns[i]) - Len(y)) /\ (i = 1 => b.used <= Len(y))
    BY ONLY <1>2, <1>3, <1>5
  <2>9. PICK Y : Y = Len(y)
    OBVIOUS
  <2>10. Upto(ns, i - 1) + Y - b.used = pos
    <3>1. PICK u, U : u = b.used /\ U = Upto(ns, i - 1)
      OBVIOUS
    <3>2. u \in Nat /\ U \in Nat /\ Y \in Nat /\ U + Y = pos + u
      BY ONLY <1>2, <1>3, <1>4, <2>9, <3>1
    <3>3. U + Y - u = pos
      BY ONLY <3>2, pos \in Nat
    <3> QED BY ONLY <3>1, <3>3
  <2>11. Content(d) = Mixed(Content(b), pos, t, pos)
    <3>1. Edited(d, b, i, Y, t, Y, x, pos, pos)
      BY ONLY <1>1, <1>2, <1>3, <1>5, <2>2, <2>6, <2>7, <2>8, <2>9, <2>10 DEF Edited
    <3> QED BY ONLY <3>1, EditContent
  <2>12. Altered(d.nodes, ns, i, Len(x))
    BY ONLY <1>2, <1>3, <2>2, <2>6, AlteredIs
  <2>13. Upto(d.nodes, i) = Upto(ns, i) + (Len(x) - NLen(ns[i]))
    <3>1. i \in i .. Len(ns)
      BY ONLY <1>2, <1>3
    <3> QED BY ONLY <2>12, <3>1, AlteredUpto
  <2>14. Upto(d.nodes, i) = pos + b.used + Len(t)
    <3>1. PICK l, u : l = NLen(n) /\ u = b.used
      OBVIOUS
    <3>2. l \in Nat /\ u \in Nat /\ Upto(d.nodes, i) = (pos + u) + ((l + k) - l)
      BY ONLY <1>2, <1>3, <1>4, <2>2, <2>13, <3>1
    <3> QED BY ONLY <1>5, <3>1, <3>2, pos \in Nat
  <2> QED BY ONLY <1>1, <2>11, <2>14 DEF Merged
<1> QED BY <1>5, <1>7, <1>8

(* Data by reference goes into one node: its offset in further nodes is    *)
(* not what is left of the input (vstr_add_ptr(), vstr_add_ref()).         *)
OneNode(in, done) == in.type \in {"PTR", "REF"} => done = 0 /\ in.len <= MaxNodeAll

LEMMA NewBytes ==
  ASSUME NEW b, b.nodes \in Seq(NodeRec), NEW in \in Inputs, NEW done \in Nat, done < in.len,
         Len(b.nodes) + in.len <= 2 * MaxLen, OneNode(in, done)
  PROVE  Bytes(NewNodes(b, in, done)) = InPart(in, done, in.len)
<1>1. /\ in.len \in Nat /\ in.type \in NodeTypes /\ MaxOf(in.type) \in Nat /\ MaxOf(in.type) > 0
      /\ MaxNodeAll \in Nat /\ MaxNodeAll > 0
  BY NodesAssumption DEF MaxOf
<1>2. PICK M, r, m, xs, s : /\ M = MaxOf(in.type) /\ r = in.len - done /\ m = (r + M - 1) \div M
                            /\ xs = NewNodes(b, in, done) /\ s = InPart(in, done, in.len)
  OBVIOUS
<1>3. r \in Nat /\ r > 0 /\ M \in Nat /\ M > 0
  <2>1. r = in.len - done /\ in.len \in Nat
    BY ONLY <1>1, <1>2
  <2>2. r \in Nat /\ r > 0
    BY ONLY <2>1, done \in Nat, done < in.len
  <2> QED BY ONLY <1>1, <1>2, <2>2
<1>4. AreNew(xs, b, in.type, r, m)
  BY ONLY <1>2, NewNodesIs, b.nodes \in Seq(NodeRec), in \in Inputs, done \in Nat, done < in.len,
          Len(b.nodes) + in.len <= 2 * MaxLen
<1>5. xs \in Seq(NodeRec) /\ Len(xs) = m /\ m \in Nat /\ m > 0 /\ Upto(xs, m) = r
  BY ONLY <1>4 DEF AreNew
<1>6. Filled(xs)
  <2>1. \A k \in 1 .. m : NLen(xs[k]) \in 1 .. MaxOf(xs[k].type)
    BY ONLY <1>4, <1>5 DEF AreNew, Good
  <2>2. \A k \in 1 .. m : NLen(xs[k]) \in Nat
    BY ONLY <1>5, NodeIs
  <2>3. \A k \in 1 .. m : MaxOf(xs[k].type) \in Nat
    BY NodesAssumption DEF MaxOf
  <2> QED BY ONLY <1>5, <2>1, <2>2, <2>3 DEF Filled
<1>7. (m - 1) * M < r /\ (m - 1) * M \in Nat
  <2>1. (m - 1) * M < r
    BY ONLY <1>2, <1>3, DivUp
  <2>2. m - 1 \in Nat
    BY ONLY <1>5
  <2> QED BY ONLY <1>3, <2>1, <2>2
<1> DEFINE size(j) == IF j < m THEN M ELSE r - (m - 1) * M
           data(j) == [k \in 1 .. size(j) |-> InByte(in, NodeOff(in, done, r, j) + k)]
<1>8. \A j \in 1 .. m : size(j) \in Nat /\ (j < m => size(j) = M)
  BY ONLY <1>3, <1>5, <1>7
<1>9. \A j \in 1 .. m : xs[j].data = data(j)
  BY ONLY <1>2 DEF NewNodes
<1>10. \A j \in 1 .. m : NLen(xs[j]) = size(j) /\ xs[j].data \in Seq(Byte)
  <2> TAKE j \in 1 .. m
  <2>1. xs[j].data \in Seq(Byte)
    BY ONLY <1>5, NodeIs, j \in 1 .. m
  <2>2. PICK z, v : z = size(j) /\ v = xs[j].data
    OBVIOUS
  <2>3. z \in Nat /\ v \in Seq(Byte) /\ DOMAIN v = 1 .. z
    BY ONLY <1>8, <1>9, <2>1, <2>2, j \in 1 .. m
  <2>4. Len(v) = z
    BY ONLY <2>3
  <2> QED BY ONLY <2>1, <2>2, <2>4 DEF NLen
<1> HIDE DEF size
<1>11. \A j \in 1 .. m : NodeOff(in, done, r, j) = done + Upto(xs, j - 1)
  <2>1. CASE in.type \in {"PTR", "REF"}
    <3>1. done = 0 /\ in.len <= MaxNodeAll /\ M = MaxNodeAll
      BY <1>1, <1>2, <2>1 DEF OneNode, MaxOf
    <3>2. m = 1
      <4>1. r <= M
        BY ONLY <1>1, <1>2, <3>1
      <4>2. (m - 1) * M < M
        BY ONLY <1>3, <1>7, <4>1
      <4>3. m - 1 \in Nat
        BY ONLY <1>5
      <4>4. m - 1 = 0
        <5>1. PICK n \in Nat : n = m - 1
          BY <4>3
        <5>2. n * M < M
          BY ONLY <4>2, <5>1
        <5>3. CASE n >= 1
          <6>1. PICK l \in Nat : n = l + 1
            BY <5>3
          <6>2. n * M = l * M + M /\ l * M \in Nat
            BY ONLY <1>3, <6>1
          <6> QED BY ONLY <1>3, <5>2, <6>2
        <5>4. n >= 1 \/ n = 0
          OBVIOUS
        <5> QED BY ONLY <5>1, <5>3, <5>4
      <4> QED BY ONLY <1>5, <4>4
    <3>3. Upto(xs, 0) = 0
      BY ONLY <1>5, UptoIs
    <3>4. NodeOff(in, done, r, 1) = 0
      <4>1. 1 - 1 = 0 /\ 0 * MaxNodeAll = 0 /\ 0 * r = 0 /\ (0 * (1 - 2)) \div 2 = 0 /\ MaxNodeAll * 0 = 0
        BY ONLY <1>1, <1>3
      <4>2. 0 - 0 = 0
        OBVIOUS
      <4> QED BY ONLY <2>1, <4>1, <4>2 DEF NodeOff
    <3>5. \A j \in 1 .. m : j = 1 /\ j - 1 = 0
      BY ONLY <3>2
    <3>6. 0 + 0 = 0
      OBVIOUS
    <3> QED BY ONLY <3>1, <3>3, <3>4, <3>5, <3>6
  <2>2. CASE in.type \notin {"PTR", "REF"}
    <3>1. \A k \in 1 .. m - 1 : NLen(xs[k]) = M
      <4>1. \A k \in 1 .. m - 1 : k \in 1 .. m /\ k < m
        BY ONLY <1>5
      <4> QED BY ONLY <1>8, <1>10, <4>1
    <3>2. \A k \in 0 .. m - 1 : Upto(xs, k) = k * M
      BY ONLY <1>3, <1>5, <3>1, UptoEven
    <3>3. \A j \in 1 .. m : j - 1 \in 0 .. m - 1
      BY ONLY <1>5
    <3>4. \A j \in 1 .. m : NodeOff(in, done, r, j) = done + (j - 1) * M
      BY ONLY <1>2, <2>2 DEF NodeOff
    <3> QED BY ONLY <3>2, <3>3, <3>4
  <2> QED BY ONLY <2>1, <2>2
<1>12. s \in Seq(Byte) /\ Len(s) = r /\ \A x \in 1 .. r : s[x] = InByte(in, done + x)
  <2>1. done <= in.len
    BY ONLY <1>1, done \in Nat, done < in.len
  <2>2. s \in Seq(Byte) /\ Len(s) = in.len - done
    BY ONLY <1>1, <1>2, <2>1, InPartIs, in \in Inputs, done \in Nat
  <2> QED BY ONLY <1>2, <2>2 DEF InPart
<1>13. ASSUME NEW j \in 1 .. m, NEW x \in 1 .. NLen(xs[j])
       PROVE  s[Upto(xs, j - 1) + x] = xs[j].data[x]
  <2>1. PICK U, l, n : U = Upto(xs, j - 1) /\ l = NLen(xs[j]) /\ n = NodeOff(in, done, r, j)
    OBVIOUS
  <2>2. j \in 0 .. m /\ j - 1 \in 0 .. m /\ j <= m /\ m \in 0 .. m /\ j \in Nat
    BY ONLY <1>5, j \in 1 .. m
  <2>3. U \in Nat /\ l \in Nat /\ Upto(xs, j) = U + l /\ Upto(xs, j) + (m - j) <= r
    BY <1>5, <1>6, <2>1, <2>2, UptoIs, UptoGrows, NodeIs
  <2>4. x \in 1 .. l /\ U + x \in 1 .. r /\ n = done + U /\ done + (U + x) = n + x
    <3>1. x \in 1 .. l /\ n = done + U
      BY <1>11, <2>1
    <3> QED BY ONLY <1>3, <1>5, <2>2, <2>3, <3>1, done \in Nat
  <2>5. s[U + x] = InByte(in, n + x)
    BY ONLY <1>12, <2>4
  <2>6. xs[j].data[x] = InByte(in, n + x)
    <3>1. x \in 1 .. size(j)
      BY ONLY <1>10, <2>1, <2>4, j \in 1 .. m
    <3> QED BY ONLY <1>9, <2>1, <3>1, j \in 1 .. m
  <2> QED BY ONLY <2>1, <2>5, <2>6
<1>14. Holds(s, xs, m)
  BY ONLY <1>5, <1>12, <1>13 DEF Holds
<1>15. s = Bytes(xs)
  BY ONLY <1>5, <1>6, <1>14, HoldsOnly
<1> QED BY ONLY <1>2, <1>15

(* The string without its first n bytes. *)
LEMMA ContentHead ==
  ASSUME NEW b, Shape(b)
  PROVE  /\ Content(b) = Mixed(Bytes(b.nodes), 0, <<>>, b.used) /\ Bytes(b.nodes) \in Seq(Byte)
         /\ b.used \in Nat /\ b.used <= Len(Bytes(b.nodes)) /\ Len(Bytes(b.nodes)) = b.used + LenAs(b)
<1>1. PICK B, u : B = Bytes(b.nodes) /\ u = b.used
  OBVIOUS
<1>2. /\ b.nodes \in Seq(NodeRec) /\ Filled(b.nodes) /\ u \in Nat /\ u <= Upto(b.nodes, Len(b.nodes))
      /\ Len(b.nodes) \in Nat /\ \A i \in 0 .. Len(b.nodes) : Upto(b.nodes, i) \in Nat
  BY <1>1, ListIs
<1>3. B \in Seq(Byte) /\ Len(B) = Upto(b.nodes, Len(b.nodes))
  BY <1>1, <1>2, BytesIs DEF Holds
<1>4. Content(b) = SubSeq(B, u + 1, Len(B))
  BY <1>1 DEF Content, Bytes
<1>5. SubSeq(B, u + 1, Len(B)) = Mixed(B, 0, <<>>, u)
  BY ONLY <1>2, <1>3, MixedTail
<1>6. Len(B) = u + LenAs(b)
  <2>1. Upto(b.nodes, Len(b.nodes)) \in Nat
    BY ONLY <1>2
  <2> QED BY ONLY <1>1, <1>2, <1>3, <2>1 DEF LenAs
<1> QED BY ONLY <1>1, <1>2, <1>3, <1>4, <1>5, <1>6

(* d holds the bytes of b from the n-th on. *)
Behead(d, b, n) ==
  /\ Shape(b) /\ Shape(d) /\ n \in Nat /\ n <= LenAs(b)
  /\ Mixed(Bytes(d.nodes), 0, <<>>, d.used) = Mixed(Bytes(b.nodes), 0, <<>>, b.used + n)

LEMMA BeheadContent ==
  ASSUME NEW d, NEW b, NEW n, Behead(d, b, n)
  PROVE  Content(d) = Mixed(Content(b), 0, <<>>, n)
<1> Shape(b) /\ Shape(d) /\ n \in Nat /\ n <= LenAs(b)
  BY DEF Behead
<1>1. PICK B, u, e, C, v : /\ B = Bytes(b.nodes) /\ u = b.used /\ e = <<>> /\ C = Content(b) /\ v = u + n
  OBVIOUS
<1>2. C = Mixed(B, 0, e, u) /\ B \in Seq(Byte) /\ u \in Nat /\ Len(B) = u + LenAs(b)
  BY <1>1, ContentHead
<1>3. Content(d) = Mixed(B, 0, e, v)
  BY <1>1, ContentHead DEF Behead
<1>4. /\ e \in Seq(Byte) /\ Len(e) = 0 /\ e = e \o e
  BY <1>1
<1>5. 0 \in Nat /\ 0 <= u /\ u + n <= Len(B) /\ 0 = 0 + Len(e) /\ n = 0 + n /\ v = u + n
  <2>1. LenAs(b) \in Int
    BY LenAsIs
  <2> QED BY ONLY <1>1, <1>2, <1>4, <2>1, n \in Nat, n <= LenAs(b)
<1>6. Twice(B, 0, e, u, e, n, C, 0, n, v, e)
  BY ONLY <1>2, <1>4, <1>5, n \in Nat DEF Twice
<1>7. Mixed(C, 0, e, n) = Mixed(B, 0, e, v)
  BY ONLY <1>6, MixedTwice
<1> QED BY ONLY <1>1, <1>3, <1>7

(* The first bytes of the first node go. *)
LEMMA FrontBytes ==
  ASSUME NEW ns \in Seq(NodeRec), Filled(ns), Len(ns) > 0, NEW k \in Nat, k < NLen(ns[1]),
         NEW ms, ms = [ns EXCEPT ![1].data = SubSeq(ns[1].data, k + 1, Len(ns[1].data))]
  PROVE  ms \in Seq(NodeRec) /\ Bytes(ms) = Mixed(Bytes(ns), 0, <<>>, k)
<1>1. PICK o, B, y, z, e, U, V : /\ o = 1 /\ B = Bytes(ns) /\ y = ns[1].data /\ z = SubSeq(y, k + 1, Len(y))
                                 /\ e = <<>> /\ U = Upto(ns, o - 1) /\ V = Upto(ns, o)
  OBVIOUS
<1>2. o \in 1 .. Len(ns) /\ o - 1 = 0
  BY <1>1, NodeIs
<1>3. /\ Within(y, B, U) /\ B \in Seq(Byte) /\ y \in Seq(Byte) /\ U \in Nat /\ V = U + Len(y) /\ Len(y) \in Nat
  BY <1>1, <1>2, NodeWithin
<1>4. U = 0
  BY <1>1, <1>2, UptoIs
<1>5. k < Len(y) /\ k <= Len(y)
  BY <1>1, <1>3 DEF NLen
<1>6. z = Mixed(y, 0, e, k) /\ z \in Seq(Byte) /\ Len(z) = Len(y) - k
  <2>1. SubSeq(y, k + 1, Len(y)) = Mixed(y, 0, <<>>, k)
    BY ONLY <1>3, <1>5, MixedTail, k \in Nat
  <2>2. SubSeq(y, k + 1, Len(y)) \in Seq(Byte) /\ Len(SubSeq(y, k + 1, Len(y))) = Len(y) - k
    BY ONLY <1>3, <1>5, Halves, k \in Nat
  <2> QED BY ONLY <1>1, <2>1, <2>2
<1>7. Len(z) > 0
  BY ONLY <1>3, <1>5, <1>6, k \in Nat
<1>8. ms = [ns EXCEPT ![o].data = z]
  BY <1>1
<1>9. ms \in Seq(NodeRec) /\ Bytes(ms) = Mixed(B, U, z, V)
  BY ONLY <1>1, <1>2, <1>6, <1>7, <1>8, SetBytes, ns \in Seq(NodeRec), Filled(ns)
<1>10. Mixed(B, U, Mixed(y, 0, e, k), U + Len(y)) = Mixed(B, U + 0, e, U + k)
  <2>1. e \in Seq(Byte) /\ 0 \in Nat /\ 0 <= k
    BY <1>1
  <2> QED BY ONLY <1>3, <1>5, <2>1, MixedInner, k \in Nat
<1>11. U + 0 = 0 /\ U + k = k
  BY ONLY <1>4, k \in Nat
<1> QED BY ONLY <1>1, <1>3, <1>6, <1>9, <1>10, <1>11

LEMMA ZeroUsedContent ==
  ASSUME NEW b, Shape(b), LenIs(b)
  PROVE  Content(ZeroUsed(b)) = Content(b)
<1>1. CASE b.used = 0
  BY <1>1 DEF ZeroUsed
<1>2. CASE b.used # 0
  <2>1. PICK z, ns, u : z = ZeroUsed(b) /\ ns = b.nodes /\ u = b.used
    OBVIOUS
  <2>2. /\ ns \in Seq(NodeRec) /\ Filled(ns) /\ u \in Nat /\ Len(ns) \in Nat
        /\ Len(ns) > 0 => u < NLen(ns[1])
    BY <2>1, ShapeIs
  <2>3. Len(ns) > 0
    <3>1. UsedIn(ns, u) /\ u > 0
      BY <1>2, <2>1, <2>2 DEF Shape
    <3>2. ns # <<>>
      BY ONLY <3>1 DEF UsedIn
    <3> QED BY <2>1, <2>2, <3>2
  <2>4. z.nodes = [ns EXCEPT ![1].data = SubSeq(ns[1].data, u + 1, Len(ns[1].data))] /\ z.used = 0
    BY <1>2, <2>1 DEF ZeroUsed, Shape, IsBase, BaseRec
  <2>5. z.nodes \in Seq(NodeRec) /\ Bytes(z.nodes) = Mixed(Bytes(ns), 0, <<>>, u)
    BY ONLY <2>2, <2>3, <2>4, FrontBytes
  <2>6. Shape(z)
    BY <2>1, ZeroUsedIs DEF IntoDone
  <2>7. PICK B : B = Bytes(z.nodes)
    OBVIOUS
  <2>8. Content(z) = Mixed(B, 0, <<>>, 0) /\ B \in Seq(Byte) /\ Len(B) \in Nat
    BY <2>4, <2>6, <2>7, ContentHead
  <2>9. Mixed(B, 0, <<>>, 0) = B
    <3>1. 0 \in Nat /\ 0 <= Len(B)
      BY ONLY <2>8
    <3> QED BY ONLY <2>8, <3>1, MixedNothing
  <2>10. Content(b) = Mixed(Bytes(ns), 0, <<>>, u)
    BY ONLY <2>1, ContentHead, Shape(b)
  <2> QED BY ONLY <2>1, <2>5, <2>7, <2>8, <2>9, <2>10
<1> QED BY ONLY <1>1, <1>2

LEMMA LinkIntoContent ==
  ASSUME NEW b, Shape(b), LenIs(b), NEW i \in 0 .. Len(b.nodes)
  PROVE  Content(LinkInto(b, i)) = Content(b)
<1>1. CASE i = 0
  <2>1. LinkInto(b, i) = IF b.len > 0 THEN ZeroUsed(b) ELSE b
    BY ONLY <1>1 DEF LinkInto
  <2> QED BY ONLY <2>1, ZeroUsedContent, Shape(b), LenIs(b)
<1>2. CASE i # 0
  <2>1. PICK z : z = LinkInto(b, i)
    OBVIOUS
  <2>2. z.nodes = b.nodes /\ z.used = b.used
    <3>1. IntoDone(b, i, z)
      BY ONLY <2>1, LinkIntoIs, Shape(b), LenIs(b), i \in 0 .. Len(b.nodes)
    <3> QED BY ONLY <1>2, <3>1 DEF IntoDone
  <2>3. Content(z) = Content(b)
    BY ONLY <2>2 DEF Content
  <2> QED BY ONLY <2>1, <2>3
<1> QED BY ONLY <1>1, <1>2

(* New nodes put their bytes in where the node before them ends, at q. *)
LEMMA LinkContent ==
  ASSUME NEW b, NEW i, NEW pos, MayLink(b, i, pos), NEW q \in Nat,
         IF i = 0 THEN q = 0 ELSE q + b.used = Upto(b.nodes, i),
         NEW c, Fits(b.nodes, c), NEW in \in Inputs,
         NEW xs, NEW r \in Nat, NEW m, AreNew(xs, b, in.type, r, m), c.spare[in.type] >= m
  PROVE  Content(LinkNodes(b, c, i, pos, in, xs).b) = Mixed(Content(b), q, Bytes(xs), q)
<1>1. PICK t, z, d, g : /\ t = in.type /\ z = LinkInto(b, i) /\ d = Linked(z, xs, i, t)
                        /\ g = CacheAdd(d, pos)
  OBVIOUS
<1>2. t \in NodeTypes
  BY <1>1, NodesAssumption
<1>3. Shape(b) /\ LenIs(b) /\ i \in 0 .. Len(b.nodes) /\ pos \in Nat
  BY DEF MayLink
<1>4. IntoDone(b, i, z) /\ Content(z) = Content(b)
  BY ONLY <1>1, <1>3, LinkIntoIs, LinkIntoContent
<1>5. /\ Shape(z) /\ LenIs(z) /\ Len(z.nodes) = Len(b.nodes) /\ z.len = b.len
      /\ \A k \in 1 .. Len(b.nodes) : z.nodes[k].id = b.nodes[k].id
      /\ IF i = 0 THEN z.used = 0 ELSE z.nodes = b.nodes /\ z.used = b.used
  BY ONLY <1>4 DEF IntoDone
<1>6. AreNew(xs, z, t, r, m) /\ xs \in Seq(NodeRec) /\ Len(xs) = m /\ m \in Nat
  BY ONLY <1>1, <1>5, AreNew(xs, b, in.type, r, m) DEF AreNew
<1>7. LinkDone(z, i, t, r, m, d)
  <2>1. i \in 0 .. Len(z.nodes) /\ (i = 0 => z.used = 0)
    BY <1>3, <1>5
  <2> QED BY ONLY <1>1, <1>2, <1>5, <1>6, <2>1, r \in Nat, LinkedIs
<1>8. Shape(d) /\ d.used = z.used
  BY ONLY <1>7 DEF LinkDone
<1>9. /\ z.nodes \in Seq(NodeRec) /\ Len(z.nodes) \in Nat /\ z.used \in Nat /\ IsBase(z) /\ Upto(z.nodes, 0) = 0
  BY <1>5, ShapeIs DEF Shape
<1>10. i \in Nat /\ i <= i /\ i <= Len(z.nodes)
  BY ONLY <1>3, <1>5, <1>9
<1>11. IsSwap(d.nodes, z.nodes, i, i, xs)
  <2>1. PICK w : w = IovecMaybeAdd(z, xs, i > 0 \/ z.len = 0)
    OBVIOUS
  <2>2. Same(z, w)
    <3>1. Len(xs) \in Nat /\ (i > 0 \/ z.len = 0) \in BOOLEAN
      BY <1>6
    <3> QED BY ONLY <1>9, <2>1, <3>1, IovecSame, 0 \in Nat
  <2>3. IsBase(w) /\ w.nodes = z.nodes
    BY ONLY <2>2 DEF Same
  <2>4. d.nodes = SubSeq(w.nodes, 1, i) \o xs \o SubSeq(w.nodes, i + 1, Len(w.nodes))
    BY ONLY <1>1, <2>1, <2>3 DEF Linked, IsBase, BaseRec
  <2>5. IsSwap(SubSeq(z.nodes, 1, i) \o xs \o SubSeq(z.nodes, i + 1, Len(z.nodes)), z.nodes, i, i, xs)
    BY ONLY <1>6, <1>9, <1>10, SwapIs
  <2> QED BY ONLY <2>3, <2>4, <2>5
<1>12. Filled(xs)
  <2>1. \A k \in 1 .. m : NLen(xs[k]) \in 1 .. MaxOf(xs[k].type)
    BY ONLY <1>6 DEF AreNew, Good
  <2>2. \A k \in 1 .. m : NLen(xs[k]) \in Nat
    BY ONLY <1>6, NodeIs
  <2>3. \A k \in 1 .. m : MaxOf(xs[k].type) \in Nat
    BY NodesAssumption DEF MaxOf
  <2> QED BY ONLY <1>6, <2>1, <2>2, <2>3 DEF Filled
<1>13. Upto(z.nodes, i) = q + z.used
  <2>1. CASE i = 0
    <3>1. q = 0 /\ z.used = 0 /\ 0 = 0 + 0
      BY <1>5, <2>1
    <3> QED BY ONLY <1>9, <2>1, <3>1
  <2>2. CASE i # 0
    BY <1>5, <2>2
  <2> QED BY ONLY <2>1, <2>2
<1>14. z.used <= Upto(z.nodes, i) /\ Upto(z.nodes, i) - z.used = q
  BY ONLY <1>9, <1>13, q \in Nat
<1>15. Content(d) = Mixed(Content(z), q, Bytes(xs), q)
  <2>1. Content(d) = Mixed(Content(z), Upto(z.nodes, i) - z.used, Bytes(xs), Upto(z.nodes, i) - z.used)
    BY ONLY <1>5, <1>8, <1>11, <1>12, <1>14, SwapContent
  <2> QED BY ONLY <1>14, <2>1
<1>16. g.nodes = d.nodes /\ g.used = d.used
  BY ONLY <1>1, <1>8 DEF CacheAdd, Shape, IsBase, BaseRec
<1>17. Content(g) = Content(d)
  BY ONLY <1>16 DEF Content
<1>18. LinkNodes(b, c, i, pos, in, xs).b = g
  BY ONLY <1>1 DEF LinkNodes
<1> QED BY ONLY <1>4, <1>15, <1>17, <1>18

LEMMA CacheAddContent ==
  ASSUME NEW b, IsBase(b), NEW pos
  PROVE  Content(CacheAdd(b, pos)) = Content(b) /\ Content(CacheDel(b, pos)) = Content(b)
<1>1. CacheAdd(b, pos).nodes = b.nodes /\ CacheAdd(b, pos).used = b.used
  BY DEF CacheAdd, IsBase, BaseRec
<1>2. CacheDel(b, pos).nodes = b.nodes /\ CacheDel(b, pos).used = b.used
  BY DEF CacheDel, IsBase, BaseRec
<1> QED BY ONLY <1>1, <1>2 DEF Content

(* Data by reference is never longer than a node can be. *)
ByRefFits == (\E in \in Inputs : in.type \in {"PTR", "REF"}) => MaxLen <= MaxNodeAll

(* Such data is merged as a whole, or not at all. *)
LEMMA MergeWhole ==
  ASSUME NEW b, Shape(b), LenIs(b), NEW in \in Inputs, b.len + in.len <= MaxLen, ByRefFits,
         NEW i \in 1 .. Len(b.nodes), MergeLen(b.nodes[i], in) # in.len
  PROVE  OneNode(in, MergeLen(b.nodes[i], in))
<1> SUFFICES ASSUME in.type \in {"PTR", "REF"}
             PROVE  MergeLen(b.nodes[i], in) = 0 /\ in.len <= MaxNodeAll
  BY DEF OneNode
<1>1. PICK n, l, k, ns, L : /\ n = b.nodes[i] /\ l = NLen(n) /\ k = MergeLen(n, in) /\ ns = b.nodes
                            /\ L = Len(b.nodes)
  OBVIOUS
<1>2. MaxLen <= MaxNodeAll /\ MaxLen \in Nat /\ MaxNodeAll \in Nat /\ in.len \in Nat /\ MaxOf(in.type) = MaxNodeAll
  BY NodesAssumption DEF ByRefFits, MaxOf
<1>3. /\ ns \in Seq(NodeRec) /\ L \in Nat /\ b.used \in Nat /\ b.len \in Nat /\ l \in Nat /\ Filled(ns)
      /\ \A j \in 1 .. L : Upto(ns, j) = Upto(ns, j - 1) + NLen(ns[j])
      /\ \A j \in 0 .. L : Upto(ns, j) \in Nat
      /\ b.len = Upto(ns, L) - b.used /\ Upto(ns, 0) = 0
  BY <1>1, ShapeIs DEF LenIs
<1>4. b.len + in.len <= MaxNodeAll /\ in.len <= MaxNodeAll
  BY ONLY <1>2, <1>3, b.len + in.len <= MaxLen
<1>5. n.type # "BUF" => l <= b.len
  <2> HAVE n.type # "BUF"
  <2>1. i \in 1 .. L /\ i \in 0 .. L /\ i - 1 \in 0 .. L /\ L \in 0 .. L /\ i <= L
    BY <1>1, <1>3
  <2>2. Upto(ns, i) = Upto(ns, i - 1) + l /\ Upto(ns, i) <= Upto(ns, L)
    BY <1>1, <1>3, <2>1, UptoOrder
  <2>3. b.used <= Upto(ns, i - 1)
    <3>1. CASE i = 1
      <4>1. b.used = 0
        BY <1>1, <1>3, <3>1 DEF Shape, UsedIn
      <4> QED BY <1>3, <2>1, <4>1
    <3>2. CASE i # 1
      <4>1. i - 1 \in 1 .. L
        BY <1>3, <2>1, <3>2
      <4> QED BY <1>1, <4>1, ListIs
    <3> QED BY ONLY <3>1, <3>2
  <2> QED BY ONLY <1>3, <2>1, <2>2, <2>3
<1>6. k = 0
  <2>1. SUFFICES ASSUME k # 0 PROVE FALSE
    OBVIOUS
  <2>2. /\ n.type = in.type /\ k = IF MaxOf(in.type) - NLen(n) > in.len THEN in.len ELSE MaxOf(in.type) - NLen(n)
    BY <1>1, <2>1 DEF MergeLen
  <2>3. l <= b.len
    BY ONLY <1>5, <2>2, in.type \in {"PTR", "REF"}
  <2>4. k = IF MaxNodeAll - l > in.len THEN in.len ELSE MaxNodeAll - l
    BY ONLY <1>1, <1>2, <2>2
  <2>5. k = in.len
    <3>1. PICK x, y, z : x = MaxNodeAll /\ y = in.len /\ z = b.len
      OBVIOUS
    <3>2. x \in Nat /\ y \in Nat /\ z \in Nat /\ l \in Nat /\ z + y <= x /\ l <= z
      BY ONLY <1>2, <1>3, <1>4, <2>3, <3>1
    <3>3. k = IF x - l > y THEN y ELSE x - l
      BY ONLY <2>4, <3>1
    <3>4. k = y
      BY ONLY <3>2, <3>3
    <3> QED BY ONLY <3>1, <3>4
  <2> QED BY <1>1, <2>5
<1> QED BY ONLY <1>1, <1>4, <1>6

(* What an add does to the string. *)
Added(b, pos, in, r) ==
  Content(r.b) = IF r.ok THEN Mixed(Content(b), pos, InPart(in, 0, in.len), pos) ELSE Content(b)

LEMMA AddMergingContent ==
  ASSUME NEW s, Sound(s), NEW f, NEW pos, NEW in \in Inputs, NEW k, MayAdd(s.b, f, pos, in, k),
         k # in.len => OneNode(in, k)
  PROVE  Added(s.b, pos, in, AddMerging(s, f, pos, in, k))
<1>1. PICK b, c, e, r, i : /\ b = s.b /\ c = s.c /\ e = NodesFor(s.c, in, k)
                           /\ r = AddMerging(s, f, pos, in, k) /\ i = f.i
  OBVIOUS
<1>2. /\ in.len \in Nat /\ in.type \in NodeTypes /\ MaxOf(in.type) \in Nat /\ MaxOf(in.type) > 0
      /\ in.len > 0 /\ MaxLen \in Nat
  BY NodesAssumption DEF MaxOf
<1>3. Right(b) /\ Fits(b.nodes, c) /\ pos \in Nat /\ b.len + in.len <= MaxLen /\ Shape(b) /\ LenIs(b)
  BY <1>1 DEF Sound, MayAdd, Right
<1>4. k \in Nat /\ k <= in.len
  <2>1. CASE k = 0
    BY <1>2, <2>1
  <2>2. CASE MayMerge(b, f, in, k)
    BY <2>2 DEF MayMerge
  <2> QED BY <1>1, <2>1, <2>2 DEF MayAdd
<1>5. /\ Fits(b.nodes, e.c) /\ e.ok \in BOOLEAN
      /\ e.ok /\ k < in.len =>
           e.c.spare[in.type] >= (in.len - k + MaxOf(in.type) - 1) \div MaxOf(in.type)
  BY ONLY <1>1, <1>3, <1>4, in \in Inputs, NodesForIs
<1>6. b.nodes \in Seq(NodeRec) /\ Len(b.nodes) \in Nat /\ b.len \in Nat /\ Len(b.nodes) <= b.len
  BY <1>3, ShapeIs, NodesAtMost
<1>7. r = AddData(s, e, f, pos, in, k)
  BY <1>1 DEF AddMerging
<1>8. PICK C, t, w, a : /\ C = Content(b) /\ t = InPart(in, 0, k) /\ w = InPart(in, k, in.len)
                        /\ a = InPart(in, 0, in.len)
  OBVIOUS
<1>9. /\ t \in Seq(Byte) /\ Len(t) = k /\ w \in Seq(Byte) /\ a = t \o w /\ C \in Seq(Byte) /\ Len(C) = b.len
  <2>1. 0 \in Nat /\ 0 <= k /\ k - 0 = k
    BY <1>4
  <2>2. t \in Seq(Byte) /\ Len(t) = k
    BY ONLY <1>4, <1>8, <2>1, InPartIs, in \in Inputs
  <2>3. w \in Seq(Byte)
    BY ONLY <1>2, <1>4, <1>8, InPartIs, in \in Inputs
  <2>4. InPart(in, 0, k) \o InPart(in, k, in.len) = InPart(in, 0, in.len)
    BY ONLY <1>2, <1>4, InPartJoin, in \in Inputs
  <2>5. C \in Seq(Byte) /\ Len(C) = b.len
    BY <1>3, <1>8, ContentIs, LenAsIs
  <2> QED BY ONLY <1>8, <2>2, <2>3, <2>4, <2>5
<1>10. CASE ~e.ok
  <2>1. r.b = b /\ r.ok = FALSE
    BY ONLY <1>1, <1>7, <1>10 DEF AddData
  <2> QED BY ONLY <1>1, <2>1 DEF Added
<1>11. CASE e.ok
  <2>1. PICK d : d = Merge(b, f, in, k)
    OBVIOUS
  <2>2. /\ Shape(d) /\ LenIs(d) /\ Len(d.nodes) = Len(b.nodes)
        /\ \A j \in 1 .. Len(b.nodes) : d.nodes[j].id = b.nodes[j].id
        /\ \A u : CountType(d.nodes, u) = CountType(b.nodes, u)
        /\ MayLink(d, i, pos) /\ d.used = b.used
        /\ Content(d) = Mixed(C, pos, t, pos) /\ pos <= b.len
        /\ IF i = 0 THEN pos + k = 0 ELSE (pos + k) + d.used = Upto(d.nodes, i)
    <3>1. CASE pos = 0 /\ i = 0 /\ k = 0
      <4>1. d = b
        BY <2>1, <3>1 DEF Merge
      <4>2. PosUpto(b, pos)
        BY <1>3, PosStart
      <4>3. i \in 0 .. Len(b.nodes) /\ pos <= b.len /\ pos + k = 0 /\ pos <= Len(C)
        BY <1>6, <1>9, <3>1
      <4>4. t = <<>>
        BY ONLY <1>9, <3>1
      <4>5. Mixed(C, pos, t, pos) = C
        BY ONLY <1>3, <1>9, <4>3, <4>4, MixedNothing
      <4> QED BY ONLY <1>3, <1>8, <3>1, <4>1, <4>2, <4>3, <4>5 DEF MayLink
    <3>2. CASE Found(b, pos, f) /\ f.p = NLen(b.nodes[f.i]) /\ MayMerge(b, f, in, k)
      <4>1. MergeDone(b, i, pos, k, d) /\ Merged(b, i, pos, t, d)
        BY ONLY <1>1, <1>3, <1>8, <2>1, <3>2, in \in Inputs, MergeIs, MergeContent
      <4>2. /\ Shape(d) /\ LenIs(d) /\ PosUpto(d, pos) /\ d.used = b.used /\ d.len = b.len + k
            /\ Len(d.nodes) = Len(b.nodes) /\ \A j \in 1 .. Len(b.nodes) : d.nodes[j].id = b.nodes[j].id
            /\ \A u : CountType(d.nodes, u) = CountType(b.nodes, u)
            /\ pos + b.used <= Upto(d.nodes, i)
        BY ONLY <4>1 DEF MergeDone
      <4>3. i \in 0 .. Len(d.nodes) /\ i # 0 /\ i \in 1 .. Len(d.nodes)
        <5>1. i \in 1 .. Len(b.nodes)
          BY ONLY <1>1, <3>2 DEF Found
        <5> QED BY ONLY <1>6, <4>2, <5>1
      <4>4. MayLink(d, i, pos)
        BY ONLY <1>3, <4>2, <4>3 DEF MayLink
      <4>5. Content(d) = Mixed(C, pos, t, pos) /\ Upto(d.nodes, i) = pos + b.used + k
        BY ONLY <1>8, <1>9, <4>1 DEF Merged
      <4>6. b.used \in Nat
        BY <1>3, ShapeIs
      <4>7. (pos + k) + d.used = Upto(d.nodes, i)
        BY ONLY <1>3, <1>4, <4>2, <4>5, <4>6
      <4>8. pos <= b.len
        <5>1. PICK D : D = Len(d.nodes)
          OBVIOUS
        <5>2. D \in Nat /\ i \in 0 .. D /\ D \in 0 .. D /\ i <= D
          BY <1>6, <4>2, <4>3, <5>1
        <5>3. d.nodes \in Seq(NodeRec) /\ Filled(d.nodes) /\ d.len = Upto(d.nodes, D) - d.used
          BY <4>2, <5>1, ShapeIs DEF LenIs
        <5>4. Upto(d.nodes, i) <= Upto(d.nodes, D) /\ Upto(d.nodes, D) \in Nat
          BY <5>1, <5>2, <5>3, UptoOrder, UptoIs
        <5> QED BY ONLY <1>3, <1>4, <1>6, <4>2, <4>5, <4>6, <5>3, <5>4
      <4> QED BY ONLY <4>2, <4>3, <4>4, <4>5, <4>7, <4>8
    <3> QED BY ONLY <1>1, <3>1, <3>2, MayAdd(s.b, f, pos, in, k) DEF MayAdd
  <2>3. d.nodes \in Seq(NodeRec) /\ IsBase(d)
    BY <2>2, BaseIs DEF Shape
  <2>4. Fits(d.nodes, e.c)
    BY ONLY <1>5, <2>2, <2>3 DEF Fits
  <2>5. CASE k = in.len
    <3>1. r.b = CacheAdd(d, pos) /\ r.ok = TRUE
      BY ONLY <1>1, <1>7, <1>11, <2>1, <2>5 DEF AddData
    <3>2. Content(r.b) = Content(d)
      BY ONLY <2>3, <3>1, CacheAddContent
    <3> QED BY ONLY <1>1, <1>8, <2>2, <2>5, <3>1, <3>2 DEF Added
  <2>6. CASE k # in.len
    <3>1. k < in.len
      BY ONLY <1>2, <1>4, <2>6
    <3>2. PICK xs, m, o, h, q, D :
                          /\ xs = NewNodes(b, in, k) /\ o = in.len - k /\ h = e.c /\ q = pos + k
                          /\ m = (in.len - k + MaxOf(in.type) - 1) \div MaxOf(in.type) /\ D = Content(d)
      OBVIOUS
    <3>3. Len(b.nodes) + in.len <= 2 * MaxLen
      BY ONLY <1>2, <1>3, <1>6
    <3>4. AreNew(xs, b, in.type, o, m)
      BY ONLY <1>4, <1>6, <3>1, <3>2, <3>3, in \in Inputs, NewNodesIs
    <3>5. AreNew(xs, d, in.type, o, m)
      BY ONLY <2>2, <3>4 DEF AreNew
    <3>6. o \in Nat /\ e.c.spare[in.type] >= m /\ q \in Nat
      BY ONLY <1>2, <1>3, <1>4, <1>5, <1>11, <3>1, <3>2
    <3>7. r = LinkNodes(d, h, i, pos, in, xs)
      BY ONLY <1>1, <1>7, <1>11, <2>1, <2>6, <3>2 DEF AddData
    <3>8. Bytes(xs) = w
      <4>1. OneNode(in, k)
        BY <2>6
      <4> QED BY ONLY <1>4, <1>6, <1>8, <3>1, <3>2, <3>3, <4>1, in \in Inputs, NewBytes
    <3>9. Content(r.b) = Mixed(D, q, w, q)
      <4>1. /\ MayLink(d, i, pos) /\ Fits(d.nodes, h) /\ h.spare[in.type] >= m /\ o \in Nat /\ q \in Nat
            /\ IF i = 0 THEN q = 0 ELSE q + d.used = Upto(d.nodes, i)
        BY ONLY <2>2, <2>4, <3>2, <3>6
      <4>2. Content(LinkNodes(d, h, i, pos, in, xs).b) = Mixed(Content(d), q, Bytes(xs), q)
        BY ONLY <3>5, <4>1, in \in Inputs, LinkContent
      <4> QED BY ONLY <3>2, <3>7, <3>8, <4>2
    <3>10. Mixed(D, q, w, q) = Mixed(C, pos, a, pos)
      <4>1. 0 \in Nat /\ pos <= pos /\ pos + 0 <= Len(C) /\ q = pos + Len(t) /\ q = q + 0 /\ pos = pos + 0
        BY ONLY <1>3, <1>6, <1>9, <2>2, <3>2, <3>6
      <4>2. Twice(C, pos, t, pos, w, 0, D, q, q, pos, a)
        BY ONLY <1>3, <1>9, <2>2, <3>2, <4>1 DEF Twice
      <4> QED BY ONLY <4>2, MixedTwice
    <3>11. r.ok = TRUE
      BY ONLY <3>7 DEF LinkNodes
    <3> QED BY ONLY <1>1, <1>8, <3>9, <3>10, <3>11 DEF Added
  <2> QED BY ONLY <2>5, <2>6
<1> QED BY ONLY <1>1, <1>5, <1>10, <1>11

LEMMA SetupContent ==
  ASSUME NEW b, NEW c, Right(b), Fits(b.nodes, c), b.len <= MaxLen, NEW pos \in 1 .. b.len,
         NEW f, Found(b, pos, f)
  PROVE  Content(SetupPos(b, c, pos, f).b) = Content(b)
<1>1. PICK d : d = CachePos(b, pos, f)
  OBVIOUS
<1>2. b.len \in Nat /\ pos \in Nat /\ b.used \in Nat /\ 0 < pos
  BY ShapeIs DEF Right
<1>3. Right(d) /\ Found(d, pos, f) /\ d.nodes = b.nodes /\ d.used = b.used /\ d.len = b.len
  BY <1>1, <1>2, CachePosIs
<1>4. Content(d) = Content(b)
  BY ONLY <1>3 DEF Content
<1>5. CASE f.p = NLen(b.nodes[f.i])
  BY ONLY <1>1, <1>4, <1>5 DEF SetupPos
<1>6. CASE f.p # NLen(b.nodes[f.i])
  <2>1. SetupPos(b, c, pos, f) = SplitNode(d, c, f.i, f.p)
    BY ONLY <1>1, <1>6 DEF SetupPos
  <2>2. /\ f.i \in 1 .. Len(d.nodes) /\ f.p \in 1 .. NLen(d.nodes[f.i])
        /\ Upto(d.nodes, f.i - 1) + f.p = pos + d.used
    BY ONLY <1>3 DEF Found
  <2>3. /\ Len(d.nodes) \in Nat /\ NLen(d.nodes[f.i]) \in Nat /\ Upto(d.nodes, 0) = 0
    BY <1>3, <2>2, ShapeIs DEF Right
  <2>4. MaySplit(d, f.i, f.p)
    <3>1. f.p \in Nat /\ 0 < f.p /\ f.p < NLen(d.nodes[f.i])
      BY <1>3, <1>6, <2>2, <2>3
    <3>2. f.i = 1 => d.used < f.p
      <4> HAVE f.i = 1
      <4>1. f.i - 1 = 0
        OBVIOUS
      <4>2. 0 + f.p = pos + d.used
        BY ONLY <2>2, <2>3, <4>1
      <4> QED BY ONLY <1>2, <1>3, <3>1, <4>2
    <3> QED BY <1>3, <2>2, <3>1, <3>2 DEF MaySplit
  <2>5. PICK i, p : i = f.i /\ p = f.p
    OBVIOUS
  <2>6. Content(SplitNode(d, c, i, p).b) = Content(d)
    BY ONLY <1>3, <2>4, <2>5, SplitContent, Fits(b.nodes, c)
  <2> QED BY ONLY <1>4, <2>1, <2>5, <2>6
<1> QED BY ONLY <1>5, <1>6

LEMMA AddContent ==
  ASSUME NEW b, NEW c, Right(b), Fits(b.nodes, c), NEW pos \in 0 .. b.len, NEW in \in Inputs,
         b.len + in.len <= MaxLen, ByRefFits
  PROVE  Added(b, pos, in, AddOp(b, c, pos, in))
<1>1. PICK r : r = AddOp(b, c, pos, in)
  OBVIOUS
<1>2. b.len \in Nat /\ in.len \in Nat /\ MaxLen \in Nat /\ MaxNodeAll \in Nat
  BY ShapeIs, NodesAssumption DEF Right
<1>3. CASE pos = 0
  <2>1. PICK s, f, k : s = [b |-> b, c |-> c, ok |-> TRUE] /\ f = Nowhere /\ k = 0
    OBVIOUS
  <2>2. s.b = b /\ s.c = c /\ s.ok = TRUE /\ f.i = 0
    BY <2>1 DEF Nowhere
  <2>3. r = AddMerging(s, f, pos, in, k)
    BY <1>1, <1>3, <2>1 DEF AddOp
  <2>4. Sound(s)
    BY <2>2 DEF Sound
  <2>5. MayAdd(s.b, f, pos, in, k)
    BY <1>3, <2>1, <2>2 DEF MayAdd
  <2>6. k # in.len => OneNode(in, k)
    <3>1. in.type \in {"PTR", "REF"} => MaxLen <= MaxNodeAll
      BY DEF ByRefFits
    <3>2. in.type \in {"PTR", "REF"} => in.len <= MaxNodeAll
      BY ONLY <1>2, <3>1, b.len + in.len <= MaxLen
    <3> QED BY ONLY <2>1, <3>2 DEF OneNode
  <2>7. Added(s.b, pos, in, AddMerging(s, f, pos, in, k))
    BY ONLY <2>4, <2>5, <2>6, in \in Inputs, AddMergingContent
  <2> QED BY ONLY <1>1, <2>2, <2>3, <2>7
<1>4. CASE pos # 0
  <2>1. PICK f, s : f = BasePos(b, pos) /\ s = SetupPos(b, c, pos, f)
    OBVIOUS
  <2>2. pos \in 1 .. b.len /\ pos > 0 /\ pos \in Nat /\ b.len <= MaxLen
    BY <1>2, <1>4
  <2>3. Found(b, pos, f)
    BY ONLY <2>1, <2>2, Right(b), BasePosIs
  <2>4. SetupDone(b, pos, f, s) /\ Content(s.b) = Content(b)
    BY ONLY <2>1, <2>2, <2>3, Right(b), Fits(b.nodes, c), SetupPosIs, SetupContent
  <2>5. /\ Sound(s) /\ s.b.len = b.len /\ Right(s.b) /\ s.ok \in BOOLEAN
        /\ s.ok => Found(s.b, pos, f) /\ f.p = NLen(s.b.nodes[f.i])
    BY ONLY <2>4 DEF SetupDone, Sound
  <2>6. r = AddAfter(s, f, pos, in)
    BY ONLY <1>1, <2>1, <2>2 DEF AddOp, AddFound
  <2>7. CASE ~s.ok
    <3>1. r = s
      BY ONLY <2>6, <2>7 DEF AddAfter
    <3>2. Added(b, pos, in, r)
      BY ONLY <2>4, <2>7, <3>1 DEF Added
    <3> QED BY ONLY <1>1, <3>2
  <2>8. CASE s.ok
    <3>1. PICK d, n, k, i : d = s.b /\ i = f.i /\ n = d.nodes[i] /\ k = MergeLen(n, in)
      OBVIOUS
    <3>2. r = AddMerging(s, f, pos, in, k)
      BY ONLY <2>6, <2>8, <3>1 DEF AddAfter
    <3>3. n \in NodeRec /\ i \in 1 .. Len(d.nodes) /\ Shape(d) /\ LenIs(d) /\ d.len + in.len <= MaxLen
      <4>1. s.b.nodes \in Seq(NodeRec) /\ Shape(d) /\ LenIs(d)
        BY <2>5, <3>1, ShapeIs DEF Right
      <4>2. f.i \in 1 .. Len(s.b.nodes)
        BY <2>5, <2>8 DEF Found
      <4> QED BY <2>5, <3>1, <4>1, <4>2, NodeIs
    <3>4. k \in Nat /\ k <= in.len /\ (k > 0 => n.type = in.type /\ NLen(n) + k <= MaxOf(in.type))
      BY ONLY <3>1, <3>3, in \in Inputs, MergeLenIs
    <3>5. MayAdd(s.b, f, pos, in, k)
      BY <2>2, <2>5, <2>8, <3>1, <3>4 DEF MayAdd, MayMerge
    <3>6. k # in.len => OneNode(in, k)
      BY ONLY <3>1, <3>3, in \in Inputs, ByRefFits, MergeWhole
    <3>7. Added(s.b, pos, in, r)
      BY ONLY <2>5, <3>2, <3>5, <3>6, in \in Inputs, AddMergingContent
    <3>8. Added(b, pos, in, r)
      BY ONLY <2>4, <3>7 DEF Added
    <3> QED BY ONLY <1>1, <3>8
  <2> QED BY ONLY <2>5, <2>7, <2>8
<1> QED BY ONLY <1>3, <1>4

-----------------------------------------------------------------------------
(* Deleting *)

(* What a delete does to the string. *)
Without(C, p, len) == Mixed(C, p, <<>>, p + len)

Deleted(b, pos, len, r) ==
  Content(r.b) = IF r.ok THEN Without(Content(b), pos - 1, len) ELSE Content(b)

(* Bytes that go after others that stood before them went. *)
LEMMA WithoutTwice ==
  ASSUME NEW C \in Seq(Byte), NEW p \in Nat, NEW k \in Nat, NEW r \in Nat, p + (k + r) <= Len(C)
  PROVE  Without(Without(C, p, k), p, r) = Without(C, p, k + r)
<1>1. PICK e, q, a, n, v : e = <<>> /\ q = p + k /\ a = Mixed(C, p, e, q) /\ n = p + r /\ v = p + (k + r)
  OBVIOUS
<1>2. e \in Seq(Byte) /\ Len(e) = 0 /\ e = e \o e
  BY <1>1
<1>3. q \in Nat /\ p <= q /\ q + r <= Len(C) /\ p = p + Len(e) /\ v = q + r
  BY <1>1, <1>2
<1>4. Twice(C, p, e, q, e, r, a, p, n, v, e)
  BY ONLY <1>1, <1>2, <1>3, C \in Seq(Byte), p \in Nat, r \in Nat DEF Twice
<1>5. Mixed(a, p, e, n) = Mixed(C, p, e, v)
  BY ONLY <1>4, MixedTwice
<1> QED BY ONLY <1>1, <1>5 DEF Without

LEMMA WithoutNone ==
  ASSUME NEW C \in Seq(Byte), NEW p \in Nat, p <= Len(C)
  PROVE  Without(C, p, 0) = C
<1>1. p + 0 = p
  OBVIOUS
<1> QED BY ONLY <1>1, MixedNothing, C \in Seq(Byte), p \in Nat, p <= Len(C) DEF Without

(* Bytes of the first node go. *)
LEMMA DropBytesContent ==
  ASSUME NEW b, Shape(b), Len(b.nodes) > 0, NEW rem \in Nat, b.used + rem < NLen(b.nodes[1])
  PROVE  Content(DropBytes(b, rem)) = Without(Content(b), 0, rem)
<1>1. PICK z, g, ns, u, B, C : /\ z = DropBytes(b, rem) /\ g = DropFront(b, 1, rem, TRUE) /\ ns = b.nodes
                               /\ u = b.used /\ B = Bytes(b.nodes) /\ C = Content(b)
  OBVIOUS
<1>2. DropDone(z, b, rem)
  BY ONLY <1>1, DropBytesIs, Shape(b), Len(b.nodes) > 0, rem \in Nat, b.used + rem < NLen(b.nodes[1])
<1>3. Shape(z) /\ LenAs(z) = LenAs(b) - rem
  BY ONLY <1>2 DEF DropDone
<1>4. C \in Seq(Byte) /\ Len(C) \in Nat /\ LenAs(z) \in Nat /\ LenAs(b) \in Nat
  BY <1>1, <1>3, ContentIs
<1>5. rem <= LenAs(b)
  BY ONLY <1>3, <1>4, rem \in Nat
<1>6. ns \in Seq(NodeRec) /\ Filled(ns) /\ u \in Nat /\ Len(ns) \in Nat /\ NLen(ns[1]) \in Nat
  <2>1. ns \in Seq(NodeRec) /\ Filled(ns) /\ u \in Nat /\ Len(ns) \in Nat
    BY <1>1, ListIs
  <2>2. 1 \in 1 .. Len(ns)
    BY <1>1, <2>1
  <2> QED BY ONLY <2>1, <2>2, NodeIs
<1>7. CASE rem = 0
  <2>1. z = b
    BY <1>1, <1>7 DEF DropBytes
  <2>2. 0 \in Nat /\ 0 <= Len(C)
    BY <1>4
  <2>3. Without(C, 0, 0) = C
    BY ONLY <1>4, <2>2, WithoutNone
  <2> QED BY ONLY <1>1, <1>7, <2>1, <2>3
<1>8. CASE rem > 0
  <2>1. z.nodes = g.nodes /\ z.used = g.used
    <3>1. z = IovecDropFront(g, 1, rem)
      BY <1>1, <1>8 DEF DropBytes
    <3> QED BY ONLY <3>1 DEF IovecDropFront
  <2>2. IsBase(b)
    BY DEF Shape
  <2>3. CASE ns[1].type = "BUF"
    <3>1. g.nodes = ns /\ g.used = u + rem
      BY ONLY <1>1, <2>2, <2>3 DEF DropFront, IsBase, BaseRec
    <3>2. Behead(z, b, rem)
      BY ONLY <1>1, <1>3, <1>5, <2>1, <3>1, Shape(b), rem \in Nat DEF Behead
    <3>3. Content(z) = Mixed(Content(b), 0, <<>>, rem)
      BY ONLY <3>2, BeheadContent
    <3>4. 0 + rem = rem
      OBVIOUS
    <3> QED BY ONLY <1>1, <3>3, <3>4 DEF Without
  <2>4. CASE ns[1].type # "BUF"
    <3>1. u = 0
      BY <1>1, <1>6, <2>4 DEF Shape, UsedIn
    <3>2. /\ g.nodes = [ns EXCEPT ![1].data = SubSeq(ns[1].data, rem + 1, Len(ns[1].data))]
          /\ g.used = 0
      BY ONLY <1>1, <2>2, <2>4, <3>1 DEF DropFront, IsBase, BaseRec
    <3>3. rem < NLen(ns[1]) /\ Len(ns) > 0
      <4>1. u + rem < NLen(ns[1]) /\ Len(ns) > 0
        BY <1>1
      <4> QED BY ONLY <3>1, <4>1, rem \in Nat
    <3>4. Bytes(g.nodes) = Mixed(B, 0, <<>>, rem)
      BY ONLY <1>1, <1>6, <3>2, <3>3, rem \in Nat, FrontBytes
    <3>5. PICK G : G = Bytes(z.nodes)
      OBVIOUS
    <3>6. G \in Seq(Byte) /\ 0 \in Nat /\ 0 <= Len(G)
      <4>1. G \in Seq(Byte)
        BY ONLY <1>3, <3>5, ContentHead
      <4> QED BY <4>1
    <3>7. Mixed(G, 0, <<>>, 0) = G
      BY ONLY <3>6, MixedNothing
    <3>8. u + rem = rem
      BY ONLY <3>1, rem \in Nat
    <3>9. Mixed(Bytes(z.nodes), 0, <<>>, z.used) = Mixed(Bytes(b.nodes), 0, <<>>, b.used + rem)
      BY ONLY <1>1, <2>1, <3>2, <3>4, <3>5, <3>7, <3>8
    <3>10. Behead(z, b, rem)
      BY ONLY <1>3, <1>5, <3>9, Shape(b), rem \in Nat DEF Behead
    <3>11. Content(z) = Mixed(Content(b), 0, <<>>, rem)
      BY ONLY <3>10, BeheadContent
    <3>12. 0 + rem = rem
      OBVIOUS
    <3> QED BY ONLY <1>1, <3>11, <3>12 DEF Without
  <2> QED BY ONLY <2>3, <2>4
<1> QED BY <1>7, <1>8

LEMMA InlineBegContent ==
  ASSUME NEW b, NEW c, NEW pos, NEW len, MayDel(b, c, pos, len), InlineBeg(b, pos, len)
  PROVE  Deleted(b, pos, len,
           [b |-> [IovecDropFront(DropFront(b, 1, len, TRUE), 1, len)
                     EXCEPT !.len = @ - len, !.pc = NoPos],
            c |-> c, ok |-> TRUE])
<1>1. /\ Shape(b) /\ len \in Nat /\ 0 < len /\ b.used \in Nat /\ Len(b.nodes) > 0
  BY MayDelIs
<1>2. PICK z, d : z = DropBytes(b, len) /\ d = [z EXCEPT !.len = @ - len, !.pc = NoPos]
  OBVIOUS
<1>3. z = IovecDropFront(DropFront(b, 1, len, TRUE), 1, len)
  BY <1>1, <1>2 DEF DropBytes
<1>4. b.used + len < NLen(b.nodes[1]) /\ pos = 1
  <2>1. len + b.used < NLen(b.nodes[1]) /\ len + b.used = b.used + len
    BY <1>1 DEF InlineBeg
  <2> QED BY ONLY <2>1, InlineBeg(b, pos, len) DEF InlineBeg
<1>5. Content(z) = Without(Content(b), 0, len) /\ DropDone(z, b, len)
  BY ONLY <1>1, <1>2, <1>4, DropBytesContent, DropBytesIs
<1>6. d.nodes = z.nodes /\ d.used = z.used
  BY ONLY <1>2, <1>5 DEF DropDone, Shape, IsBase, BaseRec
<1>7. Content(d) = Content(z)
  BY ONLY <1>6 DEF Content
<1>8. PICK r : r = [b |-> d, c |-> c, ok |-> TRUE]
  OBVIOUS
<1>9. r.b = d /\ r.ok = TRUE /\ pos - 1 = 0
  BY <1>4, <1>8
<1>10. Deleted(b, pos, len, r)
  BY ONLY <1>5, <1>7, <1>9 DEF Deleted
<1> QED BY ONLY <1>2, <1>3, <1>8, <1>10

LEMMA InlineEndContent ==
  ASSUME NEW b, NEW c, NEW pos, NEW len, MayDel(b, c, pos, len), InlineEnd(b, pos, len)
  PROVE  Deleted(b, pos, len,
           [b |-> [IovecLenAdd(b, b.num, -len) EXCEPT
                     !.nodes[b.num].data = SubSeq(@, 1, Len(@) - len),
                     !.len = @ - len, !.pc = NoPos],
            c |-> c, ok |-> TRUE])
<1>1. /\ Shape(b) /\ LenIs(b) /\ IsBase(b) /\ b.len = LenAs(b) /\ len \in Nat /\ 0 < len
      /\ b.len - len \in Nat /\ b.used \in Nat /\ b.len \in Nat
      /\ Len(b.nodes) > 0 /\ Len(b.nodes) \in Nat /\ b.num = Len(b.nodes) /\ pos \in Nat
      /\ b.nodes \in Seq(NodeRec)
  BY MayDelIs
<1>2. PICK i, y, l, e, x, g, r :
        /\ i = b.num /\ y = b.nodes[i].data /\ l = NLen(b.nodes[i]) /\ e = IovecLenAdd(b, b.num, -len)
        /\ x = SubSeq(y, 1, l - len)
        /\ g = [e EXCEPT !.nodes[b.num].data = SubSeq(@, 1, Len(@) - len), !.len = @ - len, !.pc = NoPos]
        /\ r = [b |-> g, c |-> c, ok |-> TRUE]
  OBVIOUS
<1>3. i \in 1 .. Len(b.nodes) /\ l \in Nat /\ y \in Seq(Byte) /\ l = Len(y)
  BY <1>1, <1>2, NodeIs DEF NLen
<1>4. DelDone(b, len, r)
  BY ONLY <1>2, InlineEndIs, MayDel(b, c, pos, len), InlineEnd(b, pos, len)
<1>5. Shape(g) /\ r.b = g /\ r.ok = TRUE
  BY <1>2, <1>4 DEF DelDone, Sound, Right
<1>6. Same(b, e) /\ e.nodes = b.nodes /\ e.used = b.used /\ IsBase(e)
  <2>1. Same(b, e)
    BY <1>1, <1>2, IovecEntriesSame
  <2> QED BY ONLY <2>1 DEF Same
<1>7. g.nodes = [b.nodes EXCEPT ![i].data = x] /\ g.used = b.used
  BY ONLY <1>2, <1>3, <1>6 DEF IsBase, BaseRec
<1>9. len < l /\ (i = 1 => b.used = 0)
  <2>1. PICK u : u = IF i = 1 THEN b.used ELSE 0
    OBVIOUS
  <2>2. /\ b.len - ((l + u) - 1) >= 0 /\ pos > b.len - ((l + u) - 1) /\ len = b.len - pos + 1
    BY <1>2, <2>1 DEF InlineEnd
  <2>3. u \in Nat
    BY <1>1, <2>1
  <2>4. i = 1 => b.len = l - b.used
    <3> HAVE i = 1
    <3>1. PICK o : o = 1
      OBVIOUS
    <3>2. o \in 1 .. Len(b.nodes) /\ o - 1 = 0 /\ i = o
      BY <1>1, <3>1
    <3>3. Upto(b.nodes, 0) = 0 /\ Upto(b.nodes, o) = Upto(b.nodes, o - 1) + NLen(b.nodes[o])
      BY ONLY <1>1, <3>2, UptoIs
    <3>4. b.len = Upto(b.nodes, o) - b.used
      <4>1. Len(b.nodes) = o
        BY ONLY <1>1, <1>2, <3>2
      <4> QED BY ONLY <1>1, <4>1 DEF LenAs
    <3>5. NLen(b.nodes[o]) = l
      BY ONLY <1>2, <3>2
    <3>6. Upto(b.nodes, o) = 0 + l
      BY ONLY <3>2, <3>3, <3>5
    <3> QED BY ONLY <1>3, <3>4, <3>6
  <2>5. i = 1 => u = 0
    <3> HAVE i = 1
    <3>1. u = b.used /\ b.len = l - b.used /\ b.len - ((l + u) - 1) >= 0
      BY ONLY <2>1, <2>2, <2>4, i = 1
    <3>2. l \in Nat /\ b.used \in Nat
      BY <1>1, <1>3
    <3> QED BY ONLY <3>1, <3>2
  <2>6. u = 0
    BY ONLY <2>1, <2>5
  <2> QED BY ONLY <1>1, <1>3, <2>1, <2>2, <2>6
<1>10. PICK p, v, C : p = l - len /\ v = pos - 1 /\ C = Content(b)
  OBVIOUS
<1>11. p \in Nat /\ 0 < p /\ p <= l /\ l = p + len
  BY ONLY <1>1, <1>3, <1>9, <1>10
<1>12. x = Mixed(y, p, <<>>, l)
  <2>1. SubSeq(y, 1, p) = Mixed(y, p, <<>>, Len(y))
    BY ONLY <1>3, <1>11, MixedHead
  <2> QED BY ONLY <1>2, <1>3, <1>10, <2>1
<1>13. v + len = b.len /\ v \in Nat
  <2>1. len = b.len - pos + 1
    BY DEF InlineEnd
  <2>2. 0 < pos
    BY MayDelIs
  <2> QED BY ONLY <1>1, <1>10, <2>1, <2>2
<1>14. b.len = Upto(b.nodes, i - 1) + l - b.used /\ v = Upto(b.nodes, i - 1) + p - b.used
  <2>1. PICK U : U = Upto(b.nodes, i - 1)
    OBVIOUS
  <2>2. U \in Nat /\ Upto(b.nodes, i) = U + l
    <3>1. i - 1 \in 0 .. Len(b.nodes)
      BY ONLY <1>1, <1>3
    <3> QED BY ONLY <1>1, <1>2, <1>3, <2>1, <3>1, ListIs
  <2>3. b.len = (U + l) - b.used
    BY ONLY <1>1, <1>2, <2>2 DEF LenAs
  <2>4. v = U + p - b.used
    <3>1. PICK u, m : u = b.used /\ m = b.len
      OBVIOUS
    <3>2. /\ u \in Nat /\ m \in Nat /\ v \in Nat /\ len \in Nat /\ p \in Nat /\ U \in Nat
          /\ v + len = m /\ m = (U + (p + len)) - u
      BY ONLY <1>1, <1>11, <1>13, <2>2, <2>3, <3>1
    <3>3. v = m - len /\ m - len = U + p - u
      BY ONLY <3>2
    <3> QED BY ONLY <3>1, <3>3
  <2> QED BY ONLY <1>1, <1>3, <1>11, <2>1, <2>2, <2>3, <2>4
<1>15. 0 < p + Len(<<>>) + (NLen(b.nodes[i]) - l)
  BY ONLY <1>2, <1>3, <1>11
<1>16. (i = 1 => b.used <= p) /\ l <= NLen(b.nodes[i]) /\ <<>> \in Seq(Byte)
  BY ONLY <1>2, <1>3, <1>9, <1>11
<1>17. Edited(g, b, i, p, <<>>, l, x, v, b.len)
  BY ONLY <1>1, <1>2, <1>3, <1>5, <1>7, <1>11, <1>12, <1>14, <1>15, <1>16 DEF Edited
<1>18. Content(g) = Mixed(C, v, <<>>, b.len)
  BY ONLY <1>10, <1>17, EditContent
<1>19. Deleted(b, pos, len, r)
  BY ONLY <1>5, <1>10, <1>13, <1>18 DEF Deleted, Without
<1> QED BY ONLY <1>2, <1>19

LEMMA DelAllContent ==
  ASSUME NEW b, NEW c, NEW pos, NEW len, MayDel(b, c, pos, len), pos = 1, len = b.len
  PROVE  Deleted(b, pos, len, DelAll(b, c))
<1>1. PICK d, r, C : /\ r = DelAll(b, c) /\ d = r.b /\ C = Content(b)
  OBVIOUS
<1>2. C \in Seq(Byte) /\ Len(C) = len
  <2>1. Shape(b) /\ LenAs(b) = len
    BY MayDelIs
  <2> QED BY ONLY <1>1, <2>1, ContentIs
<1>3. r.ok = TRUE /\ DelDone(b, len, r)
  <2>1. DelDone(b, len, r)
    BY ONLY <1>1, DelAllIs, MayDel(b, c, pos, len), len = b.len
  <2> QED BY <1>1, <2>1 DEF DelAll
<1>4. Content(d) \in Seq(Byte) /\ Len(Content(d)) = 0
  <2>1. Shape(d) /\ LenIs(d)
    BY ONLY <1>1, <1>3 DEF DelDone, Sound, Right
  <2>2. d.len = 0
    <3>1. d.len = b.len - len /\ len \in Nat
      BY ONLY <1>1, <1>3, MayDelIs, MayDel(b, c, pos, len) DEF DelDone
    <3> QED BY ONLY <3>1, len = b.len
  <2>3. LenAs(d) = d.len
    BY ONLY <2>1, LenAsIs
  <2> QED BY ONLY <2>1, <2>2, <2>3, ContentIs
<1>5. Without(C, 0, len) = SubSeq(C, 1, 0)
  <2>1. 0 \in Nat /\ 0 <= Len(C)
    BY <1>2
  <2>2. SubSeq(C, 1, 0) = Mixed(C, 0, <<>>, Len(C)) /\ 0 + Len(C) = Len(C)
    <3>1. SubSeq(C, 1, 0) = Mixed(C, 0, <<>>, Len(C))
      BY ONLY <1>2, <2>1, MixedHead
    <3> QED BY <1>2, <3>1
  <2> QED BY ONLY <1>2, <2>2 DEF Without
<1>6. SubSeq(C, 1, 0) = Content(d)
  <2>1. SubSeq(C, 1, 0) = <<>>
    BY ONLY <1>2
  <2>2. Content(d) = <<>>
    BY ONLY <1>4
  <2> QED BY ONLY <2>1, <2>2
<1>7. pos - 1 = 0
  BY pos = 1
<1> QED BY ONLY <1>1, <1>3, <1>5, <1>6, <1>7 DEF Deleted


(* Nodes are taken out of the list. *)
LEMMA RemovedBytes ==
  ASSUME NEW ms, NEW ns, NEW i, NEW j, Removed(ms, ns, i, j), Filled(ns)
  PROVE  Filled(ms) /\ Bytes(ms) = Mixed(Bytes(ns), Upto(ns, i), <<>>, Upto(ns, j))
<1>1. PICK e, L : e = <<>> /\ L = Len(ns)
  OBVIOUS
<1>2. e \in Seq(NodeRec) /\ e \in Seq(Byte) /\ Len(e) = 0 /\ Upto(e, 0) = 0
  BY <1>1, EmptyIs
<1>3. /\ ms \in Seq(NodeRec) /\ ns \in Seq(NodeRec) /\ i \in Nat /\ j \in Nat /\ i <= j /\ j <= L
      /\ L \in Nat /\ Len(ms) = i + (L - j)
      /\ \A k \in 1 .. i : ms[k] = ns[k]
      /\ \A k \in 1 .. L - j : ms[i + k] = ns[j + k]
  BY <1>1, NodeIs DEF Removed
<1>4. IsSwap(ms, ns, i, j, e)
  <2>1. Len(ms) = i + Len(e) + (L - j) /\ i + Len(e) = i
    BY ONLY <1>2, <1>3
  <2>2. \A k \in 1 .. Len(e) : ms[i + k] = e[k]
    BY ONLY <1>2
  <2>3. \A k \in 1 .. L - j : ms[i + Len(e) + k] = ns[j + k]
    BY ONLY <1>3, <2>1
  <2> QED BY ONLY <1>1, <1>2, <1>3, <2>1, <2>2, <2>3 DEF IsSwap
<1>5. Filled(e) /\ Bytes(e) = e
  <2>1. Filled(e) /\ Holds(e, e, Len(e))
    BY ONLY <1>2 DEF Filled, Holds
  <2> QED BY ONLY <1>2, <2>1, HoldsOnly
<1>6. Filled(ms) /\ Bytes(ms) = Mixed(Bytes(ns), Upto(ns, i), Bytes(e), Upto(ns, j))
  BY ONLY <1>4, <1>5, Filled(ns), SwapBytes
<1> QED BY ONLY <1>1, <1>5, <1>6

(* The first nodes go. *)
LEMMA DropNodesContent ==
  ASSUME NEW b, Shape(b), NEW k \in Nat, 0 < k, k < Len(b.nodes), NEW n, n = Upto(b.nodes, k) - b.used
  PROVE  n \in Nat /\ n <= LenAs(b) /\ Content(DropNodes(b, k)) = Without(Content(b), 0, n)
<1>1. PICK ns, L, ms, z, u, x, o : /\ ns = b.nodes /\ L = Len(b.nodes) /\ ms = SubSeq(b.nodes, k + 1, L)
                                   /\ z = DropNodes(b, k) /\ u = b.used /\ x = Upto(b.nodes, k) /\ o = 0
  OBVIOUS
<1>2. ns \in Seq(NodeRec) /\ L = Len(ns) /\ L \in Nat /\ Filled(ns) /\ u \in Nat /\ Upto(ns, 0) = 0
  BY <1>1, ListIs
<1>3. x \in Nat /\ u <= x
  <2>1. k \in 1 .. Len(b.nodes) /\ k \in 0 .. Len(b.nodes)
    BY <1>1, <1>2
  <2> QED BY ONLY <1>1, <2>1, Shape(b), ListIs
<1>4. DropNodesDone(z, b, k)
  BY ONLY <1>1, DropNodesIs, Shape(b), k \in Nat, 0 < k, k < Len(b.nodes)
<1>5. Shape(z) /\ z.used = 0 /\ LenAs(z) = Upto(ns, L) - x /\ LenAs(b) = Upto(ns, L) - u
  BY ONLY <1>1, <1>4 DEF DropNodesDone, LenAs
<1>6. n \in Nat /\ n <= LenAs(b) /\ u + n = x
  <2>1. LenAs(z) \in Nat /\ LenAs(b) \in Nat
    BY ONLY <1>5, Shape(b), ContentIs
  <2>2. PICK y : y = Upto(ns, L)
    OBVIOUS
  <2>3. y \in Nat
    <3>1. L \in 0 .. L
      BY <1>2
    <3> QED BY ONLY <1>1, <2>2, <3>1, Shape(b), ListIs
  <2>4. n = x - u
    BY ONLY <1>1, n = Upto(b.nodes, k) - b.used
  <2> QED BY ONLY <1>2, <1>3, <1>5, <2>1, <2>2, <2>3, <2>4
<1>7. z.nodes = ms
  <2>1. k # 0
    OBVIOUS
  <2>2. z = [b EXCEPT !.nodes = SubSeq(@, k + 1, Len(@)), !.num = @ - k, !.used = 0,
                      !.vec.off = IF b.upto THEN @ + k ELSE @,
                      !.vec.v = IF b.upto THEN SubSeq(@, k + 1, Len(@)) ELSE @]
    BY ONLY <1>1, <2>1 DEF DropNodes
  <2> QED BY ONLY <1>1, <2>2, Shape(b) DEF Shape, IsBase, BaseRec
<1>8. Removed(ms, ns, o, k)
  <2>0. ms \in Seq(NodeRec) /\ Len(ms) = L - k /\ \A j \in 1 .. L - k : ms[j] = ns[k + j]
    <3>1. k <= L /\ L <= Len(ns)
      BY <1>1, <1>2
    <3>2. ns \in Seq(NodeRec) /\ k \in Nat /\ L \in Nat /\ ms = SubSeq(ns, k + 1, L)
      BY ONLY <1>1, <1>2, k \in Nat
    <3> QED BY ONLY <3>1, <3>2, PartIs
  <2>1. o \in Nat /\ o <= k /\ k <= L /\ Len(ms) = o + (L - k) /\ \A j \in 1 .. o : ms[j] = ns[j]
    BY <1>1, <1>2, <2>0
  <2>2. \A j \in 1 .. L - k : ms[o + j] = ns[k + j]
    <3>1. \A j \in 1 .. L - k : o + j = j
      BY <1>1
    <3> QED BY ONLY <2>0, <3>1
  <2> QED BY ONLY <1>2, <2>0, <2>1, <2>2, k \in Nat DEF Removed
<1>9. Bytes(ms) = Mixed(Bytes(ns), Upto(ns, o), <<>>, Upto(ns, k))
  BY ONLY <1>2, <1>8, RemovedBytes
<1>10. PICK G : G = Bytes(z.nodes)
  OBVIOUS
<1>11. Mixed(G, 0, <<>>, 0) = G
  <2>1. G \in Seq(Byte)
    BY ONLY <1>5, <1>10, ContentHead
  <2>2. 0 \in Nat /\ 0 <= Len(G)
    BY <2>1
  <2> QED BY ONLY <2>1, <2>2, MixedNothing
<1>12. Mixed(Bytes(z.nodes), 0, <<>>, z.used) = Mixed(Bytes(b.nodes), 0, <<>>, b.used + n)
  BY ONLY <1>1, <1>2, <1>5, <1>6, <1>7, <1>9, <1>10, <1>11
<1>13. Behead(z, b, n)
  BY ONLY <1>5, <1>6, <1>12, Shape(b) DEF Behead
<1>14. Content(z) = Mixed(Content(b), 0, <<>>, n)
  BY ONLY <1>13, BeheadContent
<1>15. 0 + n = n
  BY <1>6
<1> QED BY ONLY <1>1, <1>6, <1>14, <1>15 DEF Without


(* vstr__del_beg(): whole nodes go, and bytes of the next one. *)
LEMMA DelBegContent ==
  ASSUME NEW b, NEW c, NEW pos, NEW len, MayDel(b, c, pos, len), pos = 1, len < b.len
  PROVE  Deleted(b, pos, len, DelBeg(b, c, len))
<1>1. /\ Shape(b) /\ LenIs(b) /\ b.len = LenAs(b) /\ len \in Nat /\ 0 < len
      /\ b.used \in Nat /\ b.len \in Nat /\ Len(b.nodes) > 0 /\ Len(b.nodes) \in Nat /\ b.nodes \in Seq(NodeRec)
  BY MayDelIs
<1>2. PICK ns, L, u, q, k, C : /\ ns = b.nodes /\ L = Len(b.nodes) /\ u = b.used /\ q = u + len
                               /\ k = Whole(b, 0, b.used + len) /\ C = Content(b)
  OBVIOUS
<1>3. ns \in Seq(NodeRec) /\ L = Len(ns) /\ L \in Nat /\ L > 0 /\ u \in Nat /\ q \in Nat /\ Upto(ns, 0) = 0
  BY <1>1, <1>2, ListIs
<1>4. \A i \in 0 .. L : Upto(ns, i) \in Nat
  BY ONLY <1>1, <1>2, ListIs
<1>5. \A i \in 1 .. L : Upto(ns, i) = Upto(ns, i - 1) + NLen(ns[i]) /\ NLen(ns[i]) \in Nat /\ u <= Upto(ns, i)
  BY ONLY <1>1, <1>2, ListIs
<1>6. WholeDone(ns, 0, q, k)
  <2>1. PICK o : o = 0
    OBVIOUS
  <2>2. o \in 0 .. Len(b.nodes)
    BY ONLY <1>1, <2>1
  <2>3. WholeDone(b.nodes, o, q, Whole(b, o, q))
    BY ONLY <1>1, <1>3, <2>2, WholeIs
  <2> QED BY ONLY <1>2, <2>1, <2>3
<1>7. k \in Nat /\ k <= L /\ Upto(ns, k) \in Nat /\ Upto(ns, k) <= q /\ (k < L => q < Upto(ns, k + 1))
  <2>1. /\ k \in 0 .. L - 0 /\ Upto(ns, 0 + k) - Upto(ns, 0) <= q
        /\ 0 + k < L => q < Upto(ns, 0 + k + 1) - Upto(ns, 0)
    BY ONLY <1>3, <1>6 DEF WholeDone
  <2>2. L - 0 = L
    BY <1>3
  <2>3. k \in 0 .. L /\ k \in Nat /\ k <= L /\ 0 + k = k /\ (k < L => k + 1 \in 0 .. L)
    BY ONLY <1>3, <2>1, <2>2
  <2>4. PICK x, y : x = Upto(ns, k) /\ y = Upto(ns, k + 1)
    OBVIOUS
  <2>5. x \in Nat /\ (k < L => y \in Nat)
    BY ONLY <1>4, <2>3, <2>4
  <2>6. x - 0 <= q /\ (k < L => q < y - 0)
    BY ONLY <1>3, <2>1, <2>3, <2>4
  <2>7. x <= q /\ (k < L => q < y)
    BY ONLY <1>3, <2>5, <2>6
  <2> QED BY ONLY <2>3, <2>4, <2>5, <2>7
<1>8. k < L
  <2>1. b.len = Upto(ns, L) - u
    BY ONLY <1>1, <1>2 DEF LenAs
  <2>2. L \in 0 .. L
    BY ONLY <1>3
  <2>3. PICK y : y = Upto(ns, L)
    OBVIOUS
  <2>4. y \in Nat /\ b.len = y - u
    BY ONLY <1>4, <2>1, <2>2, <2>3
  <2>5. q < y
    BY ONLY <1>1, <1>2, <1>3, <2>4, len < b.len
  <2>6. k # L
    BY ONLY <1>3, <1>7, <2>3, <2>4, <2>5
  <2> QED BY ONLY <1>3, <1>7, <2>6
<1>9. q < Upto(ns, k) + NLen(ns[k + 1]) /\ NLen(ns[k + 1]) \in Nat
  <2>1. k + 1 \in 1 .. L /\ (k + 1) - 1 = k
    BY ONLY <1>3, <1>7, <1>8
  <2>2. Upto(ns, k + 1) = Upto(ns, (k + 1) - 1) + NLen(ns[k + 1]) /\ NLen(ns[k + 1]) \in Nat
    BY ONLY <1>5, <2>1
  <2> QED BY ONLY <1>7, <1>8, <2>1, <2>2
<1>10. PICK b1, rem, n : /\ b1 = DropNodes(b, k) /\ rem = IF k = 0 THEN len ELSE b.used + len - Upto(b.nodes, k)
                         /\ n = IF k = 0 THEN 0 ELSE Upto(b.nodes, k) - b.used
  OBVIOUS
<1>11. C \in Seq(Byte) /\ Len(C) = b.len
  BY ONLY <1>1, <1>2, ContentIs
<1>12. /\ Shape(b1) /\ Len(b1.nodes) > 0 /\ rem \in Nat /\ b1.used + rem < NLen(b1.nodes[1])
       /\ n \in Nat /\ n + rem = len /\ Content(b1) = Without(C, 0, n)
  <2>1. CASE k = 0
    <3>1. b1 = b /\ rem = len /\ n = 0
      BY <1>10, <2>1 DEF DropNodes
    <3>2. b.used + len < NLen(b.nodes[1])
      <4>1. k + 1 = 1 /\ Upto(ns, k) = 0
        BY <1>3, <2>1
      <4>2. q < 0 + NLen(ns[1]) /\ NLen(ns[1]) \in Nat
        BY ONLY <1>9, <4>1
      <4> QED BY ONLY <1>2, <4>2
    <3>3. Without(C, 0, 0) = C
      <4>1. 0 \in Nat /\ 0 <= Len(C)
        BY <1>11
      <4> QED BY ONLY <1>11, <4>1, WithoutNone
    <3>4. 0 \in Nat /\ 0 + len = len
      BY <1>1
    <3> QED BY ONLY <1>1, <1>2, <3>1, <3>2, <3>3, <3>4
  <2>2. CASE k # 0
    <3>1. 0 < k /\ k < Len(b.nodes)
      BY ONLY <1>2, <1>7, <1>8, <2>2
    <3>2. DropNodesDone(b1, b, k)
      BY ONLY <1>1, <1>7, <1>10, <3>1, DropNodesIs
    <3>3. Shape(b1) /\ b1.used = 0 /\ Len(b1.nodes) > 0 /\ b1.nodes[1] = ns[k + 1]
      BY ONLY <1>2, <3>2 DEF DropNodesDone
    <3>4. n = Upto(b.nodes, k) - b.used
      BY ONLY <1>10, <2>2
    <3>5. n \in Nat /\ Content(b1) = Without(C, 0, n)
      BY ONLY <1>1, <1>2, <1>7, <1>10, <3>1, <3>4, DropNodesContent
    <3>6. PICK x, v : x = Upto(ns, k) /\ v = NLen(ns[k + 1])
      OBVIOUS
    <3>7. /\ x \in Nat /\ v \in Nat /\ x <= q /\ q < x + v /\ q = u + len /\ u \in Nat /\ len \in Nat
          /\ n = x - u
      BY ONLY <1>1, <1>2, <1>3, <1>7, <1>9, <3>4, <3>6
    <3>8. rem = u + len - x
      BY ONLY <1>2, <1>10, <2>2, <3>6
    <3>9. rem \in Nat /\ 0 + rem < v /\ n + rem = len
      BY ONLY <3>5, <3>7, <3>8
    <3> QED BY ONLY <3>3, <3>5, <3>6, <3>9
  <2> QED BY ONLY <2>1, <2>2
<1>13. PICK z, d, g, r : /\ z = DropBytes(b1, rem) /\ d = [z EXCEPT !.len = @ - len] /\ g = CacheDel(d, 1)
                         /\ r = DelBeg(b, c, len)
  OBVIOUS
<1>14. Content(z) = Without(Content(b1), 0, rem) /\ DropDone(z, b1, rem)
  BY ONLY <1>12, <1>13, DropBytesContent, DropBytesIs
<1>15. r = [b |-> g, c |-> Relink(c, SubSeq(b.nodes, 1, k)), ok |-> TRUE]
  <2>1. r = DelNodes(b, c, len, k)
    BY ONLY <1>2, <1>13 DEF DelBeg
  <2> QED BY ONLY <1>10, <1>13, <2>1 DEF DelNodes
<1>16. r.b = g /\ r.ok = TRUE
  BY ONLY <1>15
<1>17. Content(g) = Content(z)
  <2>1. g.nodes = z.nodes /\ g.used = z.used
    <3>1. IsBase(z)
      BY ONLY <1>14 DEF DropDone, Shape
    <3>2. d.nodes = z.nodes /\ d.used = z.used
      BY ONLY <1>13, <3>1 DEF IsBase, BaseRec
    <3>3. g = d \/ g = [d EXCEPT !.pc = NoPos]
      BY ONLY <1>13 DEF CacheDel
    <3>4. [d EXCEPT !.pc = NoPos].nodes = d.nodes /\ [d EXCEPT !.pc = NoPos].used = d.used
      BY ONLY <1>13, <3>1 DEF IsBase, BaseRec
    <3> QED BY ONLY <3>2, <3>3, <3>4
  <2> QED BY ONLY <2>1 DEF Content
<1>18. Without(Without(C, 0, n), 0, rem) = Without(C, 0, len)
  <2>1. PICK o : o = 0
    OBVIOUS
  <2>2. o \in Nat /\ o + (n + rem) <= Len(C)
    BY ONLY <1>1, <1>11, <1>12, <2>1, len < b.len
  <2>3. Without(Without(C, o, n), o, rem) = Without(C, o, n + rem)
    BY ONLY <1>11, <1>12, <2>2, WithoutTwice
  <2> QED BY ONLY <1>12, <2>1, <2>3
<1>19. pos - 1 = 0
  BY pos = 1
<1>20. Deleted(b, pos, len, r)
  BY ONLY <1>2, <1>12, <1>14, <1>16, <1>17, <1>18, <1>19 DEF Deleted
<1> QED BY ONLY <1>13, <1>20


LEMMA CacheDelKeeps ==
  ASSUME NEW b, IsBase(b), NEW pos
  PROVE  CacheDel(b, pos).nodes = b.nodes /\ CacheDel(b, pos).used = b.used
<1>1. CacheDel(b, pos) = b \/ CacheDel(b, pos) = [b EXCEPT !.pc = NoPos]
  BY DEF CacheDel
<1>2. [b EXCEPT !.pc = NoPos].nodes = b.nodes /\ [b EXCEPT !.pc = NoPos].used = b.used
  BY DEF IsBase, BaseRec
<1> QED BY ONLY <1>1, <1>2

(* len bytes within a node go, once the node is split or not. *)
LEMMA CutInnerContent ==
  ASSUME NEW b, NEW c, NEW pos, NEW len, NEW f, MayCut(b, c, pos, len, f), NEW s, SplitFor(b, len, f, s),
         Content(s.b) = Content(b)
  PROVE  Deleted(b, pos, len, CutInner(s, pos, f, len))
<1>1. PICK a, i, p, m, h, r, C : /\ a = s.b /\ i = f.i /\ p = f.p /\ m = b.len - len /\ h = pos - 1
                                 /\ r = CutInner(s, pos, f, len) /\ C = Content(b)
  OBVIOUS
<1>2. /\ a.len = b.len /\ a.used = b.used /\ s.ok \in BOOLEAN /\ Right(a)
      /\ s.ok => /\ i \in 1 .. Len(a.nodes) /\ p + len <= NLen(a.nodes[i])
                 /\ Upto(a.nodes, i - 1) = Upto(b.nodes, i - 1)
  BY ONLY <1>1, SplitFor(b, len, f, s) DEF SplitFor, Sound
<1>3. b.used \in Nat /\ b.len \in Nat /\ len \in Nat /\ 0 < len /\ m \in Nat /\ pos \in Nat /\ h \in Nat
  <2>1. MayDel(b, c, pos, len) /\ 1 < pos
    BY DEF MayCut
  <2>2. /\ b.used \in Nat /\ b.len \in Nat /\ len \in Nat /\ 0 < len /\ b.len - len \in Nat /\ pos \in Nat
    BY ONLY <2>1, MayDelIs
  <2> QED BY <1>1, <2>1, <2>2
<1>4. p \in Nat /\ 0 < p /\ (i = 1 => b.used < p) /\ Upto(b.nodes, i - 1) + p = h + b.used
      /\ Upto(b.nodes, i - 1) \in Nat
  BY ONLY <1>1, MayCut(b, c, pos, len, f), MayCutIs
<1>5. CASE ~s.ok
  <2>1. r = s
    BY <1>1, <1>5 DEF CutInner
  <2>2. Deleted(b, pos, len, r)
    BY ONLY <1>5, <2>1, Content(s.b) = Content(b) DEF Deleted
  <2> QED BY ONLY <1>1, <2>2
<1>6. CASE s.ok
  <2>1. Shape(a) /\ IsBase(a) /\ a.nodes \in Seq(NodeRec) /\ i \in 1 .. Len(a.nodes)
    BY <1>2, <1>6, BaseIs DEF Right, Shape
  <2>2. PICK t, l, q : t = a.nodes[i].data /\ l = NLen(a.nodes[i]) /\ q = p + len
    OBVIOUS
  <2>3. t \in Seq(Byte) /\ l = Len(t) /\ l \in Nat /\ q \in Nat /\ p <= q /\ q <= l
    <3>1. t \in Seq(Byte) /\ l = Len(t) /\ l \in Nat
      BY <2>1, <2>2, NodeIs DEF NLen
    <3> QED BY ONLY <1>2, <1>3, <1>4, <1>6, <2>2, <3>1
  <2>4. PICK x : x = Mixed(t, p, <<>>, q)
    OBVIOUS
  <2>5. x = SubSeq(t, 1, p) \o SubSeq(t, q + 1, Len(t))
    BY ONLY <1>4, <2>3, <2>4, MixedNone
  <2>6. x \in Seq(Byte)
    <3>1. PICK e : e = <<>>
      OBVIOUS
    <3>2. e \in Seq(Byte)
      BY <3>1
    <3>3. MixedAt(Mixed(t, p, e, q), t, p, e, q)
      BY ONLY <1>4, <2>3, <3>2, MixedIs
    <3> QED BY ONLY <2>4, <3>1, <3>3 DEF MixedAt
  <2>7. PICK e, z, g : e = CutBytes(a, f, len) /\ z = IovecLenAdd(e, f.num, -len) /\ g = CacheDel(z, pos)
    OBVIOUS
  <2>8. e = [a EXCEPT !.nodes[i].data = x, !.len = m]
    <3>1. e = [a EXCEPT !.nodes[f.i].data = SubSeq(@, 1, f.p) \o SubSeq(@, f.p + len + 1, Len(@)),
                        !.len = @ - len]
      BY ONLY <2>7 DEF CutBytes
    <3> QED BY ONLY <1>1, <1>2, <2>2, <2>5, <3>1
  <2>9. IsBase(e) /\ e.used = a.used
    <3>1. DataDone(e, a, i, Len(x), m)
      BY ONLY <1>3, <2>1, <2>6, <2>8, DataSet
    <3> QED BY ONLY <3>1 DEF DataDone
  <2>10. e.nodes = [a.nodes EXCEPT ![i].data = x]
    BY ONLY <2>1, <2>8 DEF IsBase, BaseRec
  <2>11. IsBase(z) /\ z.nodes = e.nodes /\ z.used = e.used
    <3>1. Same(e, z)
      BY ONLY <2>7, <2>9, IovecEntriesSame
    <3> QED BY ONLY <3>1 DEF Same
  <2>12. g.nodes = z.nodes /\ g.used = z.used
    BY ONLY <2>7, <2>11, CacheDelKeeps
  <2>13. r.b = g /\ r.ok = TRUE
    <3>1. s.ok => \E o1, o2 : s = [b |-> o1, c |-> o2, ok |-> TRUE]
      BY ONLY SplitFor(b, len, f, s), Zenon DEF SplitFor
    <3>2. PICK o1, o2 : s = [b |-> o1, c |-> o2, ok |-> TRUE]
      BY ONLY <1>6, <3>1, Zenon
    <3>3. r = [s EXCEPT !.b = g]
      BY ONLY <1>1, <1>6, <2>7 DEF CutInner
    <3>4. PICK o : o = TRUE
      OBVIOUS
    <3>5. s = [b |-> o1, c |-> o2, ok |-> o]
      BY ONLY <3>2, <3>4, Zenon
    <3>6. r.b = g /\ r.ok = o
      BY ONLY <3>3, <3>5
    <3> QED BY ONLY <3>4, <3>6, Zenon
  <2>14. Shape(g)
    <3>1. DelDone(b, len, r)
      BY ONLY <1>1, MayCut(b, c, pos, len, f), SplitFor(b, len, f, s), CutInnerIs
    <3> QED BY ONLY <2>13, <3>1 DEF DelDone, Sound, Right
  <2>15. h = Upto(a.nodes, i - 1) + p - a.used /\ h + len = Upto(a.nodes, i - 1) + q - a.used
    <3>1. PICK U, u : U = Upto(a.nodes, i - 1) /\ u = a.used
      OBVIOUS
    <3>2. U \in Nat /\ u \in Nat /\ U + p = h + u /\ p \in Nat /\ h \in Nat /\ len \in Nat /\ q = p + len
      BY ONLY <1>2, <1>3, <1>4, <1>6, <2>2, <3>1
    <3>3. h = U + p - u /\ h + len = U + q - u
      BY ONLY <3>2
    <3> QED BY ONLY <3>1, <3>3
  <2>16. 0 < p + Len(<<>>) + (NLen(a.nodes[i]) - q) /\ q <= NLen(a.nodes[i]) /\ <<>> \in Seq(Byte)
    BY ONLY <1>4, <2>2, <2>3
  <2>17. i = 1 => a.used <= p
    BY ONLY <1>2, <1>3, <1>4
  <2>18. Edited(g, a, i, p, <<>>, q, x, h, h + len)
    BY ONLY <1>4, <2>1, <2>2, <2>3, <2>4, <2>9, <2>10, <2>11, <2>12, <2>14, <2>15, <2>16, <2>17 DEF Edited
  <2>19. Content(g) = Mixed(Content(a), h, <<>>, h + len)
    BY ONLY <2>18, EditContent
  <2>20. Content(g) = Without(Content(b), pos - 1, len)
    BY ONLY <1>1, <2>19, Content(s.b) = Content(b) DEF Without
  <2>21. Deleted(b, pos, len, r)
    BY ONLY <2>13, <2>20 DEF Deleted
  <2> QED BY ONLY <1>1, <2>21
<1> QED BY ONLY <1>2, <1>5, <1>6

(* The data of a node from f on goes. *)
LEMMA CutNodeContent ==
  ASSUME NEW b, NEW c, NEW pos, NEW len, NEW f, MayCut(b, c, pos, len, f),
         NEW n, n = NLen(b.nodes[f.i]) - f.p
  PROVE  Content(CutNode(b, f, len)) = Without(Content(b), pos - 1, n) /\ n \in Nat
<1>0. PICK i, p, l, t, m, h, g : /\ i = f.i /\ p = f.p /\ l = NLen(b.nodes[i]) /\ t = b.nodes[i].data
                                 /\ m = b.len - len /\ h = pos - 1 /\ g = CutNode(b, f, len)
  OBVIOUS
<1>a. PICK x : x = SubSeq(t, 1, p)
  OBVIOUS
<1>b. PICK e : e = [b EXCEPT !.nodes[i].data = x, !.len = m]
  OBVIOUS
<1>1. /\ i = f.i /\ p = f.p /\ l = NLen(b.nodes[i]) /\ t = b.nodes[i].data
      /\ m = b.len - len /\ h = pos - 1 /\ g = CutNode(b, f, len)
      /\ x = SubSeq(t, 1, p) /\ e = [b EXCEPT !.nodes[i].data = x, !.len = m]
  BY ONLY <1>0, <1>a, <1>b
<1>2. /\ i \in 1 .. Len(b.nodes) /\ p \in Nat /\ 0 < p /\ p <= l /\ l \in Nat
      /\ (i = 1 => b.used < p) /\ Upto(b.nodes, i - 1) \in Nat /\ Upto(b.nodes, i - 1) + p = h + b.used
  BY ONLY <1>1, MayCut(b, c, pos, len, f), MayCutIs
<1>3. MayDel(b, c, pos, len) /\ 1 < pos
  BY DEF MayCut
<1>4. /\ Shape(b) /\ IsBase(b) /\ b.nodes \in Seq(NodeRec) /\ m \in Nat /\ b.used \in Nat /\ pos \in Nat
  BY ONLY <1>1, <1>3, MayDelIs
<1>5. t \in Seq(Byte) /\ l = Len(t) /\ n \in Nat /\ n = l - p /\ h \in Nat
  <2>1. t \in Seq(Byte) /\ l = Len(t)
    BY <1>1, <1>2, <1>4, NodeIs DEF NLen
  <2>2. n = l - p
    BY ONLY <1>1, n = NLen(b.nodes[f.i]) - f.p
  <2>3. n \in Nat
    BY ONLY <1>2, <2>2
  <2>4. h = pos - 1 /\ h \in Nat
    BY ONLY <1>0, <1>3, <1>4
  <2> QED BY ONLY <2>1, <2>2, <2>3, <2>4
<1>6. x = Mixed(t, p, <<>>, l)
  BY ONLY <1>1, <1>2, <1>5, MixedHead
<1>7. x \in Seq(Byte)
  BY ONLY <1>1, <1>2, <1>5, Halves
<1>8. IsBase(e)
  <2>1. DataDone(e, b, i, Len(x), m)
    BY ONLY <1>1, <1>2, <1>4, <1>7, DataSet
  <2> QED BY ONLY <2>1 DEF DataDone
<1>9. e.nodes = [b.nodes EXCEPT ![i].data = x]
  BY ONLY <1>1, <1>4 DEF IsBase, BaseRec
<1>10. g = IovecLenAdd(e, f.num, p - l)
  <2>1. e = [b EXCEPT !.nodes[f.i].data = SubSeq(@, 1, f.p), !.len = @ - len]
    BY ONLY <1>1
  <2>2. p - l = f.p - NLen(b.nodes[f.i])
    BY ONLY <1>1
  <2> QED BY ONLY <1>1, <2>1, <2>2 DEF CutNode
<1>11. g.nodes = e.nodes
  <2>1. PICK d : d = p - l
    OBVIOUS
  <2>2. Same(e, IovecLenAdd(e, f.num, d))
    BY ONLY <1>8, IovecEntriesSame
  <2> QED BY ONLY <1>10, <2>1, <2>2 DEF Same
<1>12. Shape(g) /\ g.used = b.used
  <2>1. CutDone(g, b, f, len)
    BY ONLY <1>1, MayCut(b, c, pos, len, f), CutNodeIs
  <2> QED BY ONLY <2>1 DEF CutDone
<1>13. h = Upto(b.nodes, i - 1) + p - b.used /\ h + n = Upto(b.nodes, i - 1) + l - b.used
  <2>1. PICK U, u : U = Upto(b.nodes, i - 1) /\ u = b.used
    OBVIOUS
  <2>2. U \in Nat /\ u \in Nat /\ U + p = h + u /\ p \in Nat /\ h \in Nat /\ l \in Nat /\ n = l - p
    BY ONLY <1>2, <1>4, <1>5, <2>1
  <2>3. h = U + p - u /\ h + n = U + l - u
    BY ONLY <2>2
  <2> QED BY ONLY <2>1, <2>3
<1>14. 0 < p + Len(<<>>) + (NLen(b.nodes[i]) - l) /\ l <= NLen(b.nodes[i]) /\ <<>> \in Seq(Byte)
       /\ (i = 1 => b.used <= p)
  <2>1. NLen(b.nodes[i]) = l
    BY ONLY <1>0
  <2>2. 0 < p + Len(<<>>) + (l - l) /\ l <= l /\ <<>> \in Seq(Byte)
    BY ONLY <1>2
  <2>3. i = 1 => b.used <= p
    BY ONLY <1>2, <1>4
  <2> QED BY ONLY <2>1, <2>2, <2>3
<1>15. Edited(g, b, i, p, <<>>, l, x, h, h + n)
  BY ONLY <1>1, <1>2, <1>4, <1>6, <1>9, <1>11, <1>12, <1>13, <1>14 DEF Edited
<1>16. Content(g) = Mixed(Content(b), h, <<>>, h + n)
  BY ONLY <1>15, EditContent
<1> QED BY ONLY <1>1, <1>5, <1>16 DEF Without


(* Nodes i + 1 .. i + k go. *)
LEMMA UnlinkedContent ==
  ASSUME NEW b, Shape(b), NEW i \in 1 .. Len(b.nodes), NEW k \in 0 .. Len(b.nodes) - i, NEW num,
         NEW p \in Nat, p + b.used = Upto(b.nodes, i), NEW n, n = Upto(b.nodes, i + k) - Upto(b.nodes, i)
  PROVE  /\ Content(Unlinked(b, i, num, k)) = Without(Content(b), p, n)
         /\ n \in Nat /\ p + n <= LenAs(b)
<1>1. PICK ns, L, j, x, y, ms, z : /\ ns = b.nodes /\ L = Len(b.nodes) /\ j = i + k
                                   /\ x = SubSeq(ns, 1, i) /\ y = SubSeq(ns, j + 1, L) /\ ms = x \o y
                                   /\ z = Unlinked(b, i, num, k)
  OBVIOUS
<1>2. ns \in Seq(NodeRec) /\ L = Len(ns) /\ L \in Nat /\ Filled(ns) /\ b.used \in Nat /\ IsBase(b)
  BY <1>1, ListIs DEF Shape
<1>3. i \in Nat /\ j \in Nat /\ k \in Nat /\ 1 <= i /\ i <= j /\ j <= L
  BY <1>1, <1>2
<1>6. Removed(ms, ns, i, j)
  <2>1. /\ i \in 1 .. Len(ns) /\ k \in 0 .. Len(ns) - i
        /\ ms = SubSeq(ns, 1, i) \o SubSeq(ns, i + k + 1, Len(ns))
    BY <1>1, <1>2
  <2>2. Removed(ms, ns, i, i + k)
    BY ONLY <1>2, <2>1, UnlinkedRemoves
  <2> QED BY ONLY <1>1, <2>2
<1>7. Bytes(ms) = Mixed(Bytes(ns), Upto(ns, i), <<>>, Upto(ns, j))
  BY ONLY <1>2, <1>6, RemovedBytes
<1>8. z.nodes = ms
  <2>1. PICK N, W, E : /\ N = b.num - k
                       /\ W = IF b.upto
                              THEN SubSeq(b.vec.v, 1, num) \o SubSeq(b.vec.v, num + k + 1, Len(b.vec.v))
                              ELSE b.vec.v
                       /\ E = IF i + k = Len(b.nodes) THEN b.nodes[i].id ELSE b.end
    OBVIOUS
  <2>2. z = [b EXCEPT !.nodes = ms, !.num = N, !.vec.v = W, !.end = E]
    BY ONLY <1>1, <2>1 DEF Unlinked
  <2> QED BY ONLY <1>2, <2>2 DEF IsBase, BaseRec
<1>9. UnlinkDone(z, b, i, k)
  <2>1. UnlinkDone(Unlinked(b, i, num, k), b, i, k)
    BY ONLY Shape(b), i \in 1 .. Len(b.nodes), k \in 0 .. Len(b.nodes) - i, UnlinkedIs
  <2> QED BY ONLY <1>1, <2>1
<1>10. Shape(z) /\ z.used = b.used
  BY ONLY <1>9 DEF UnlinkDone
<1>11. PICK X, Y, u, Z, v, a : /\ X = Upto(ns, i) /\ Y = Upto(ns, j) /\ u = b.used /\ Z = Upto(ns, L)
                               /\ a = p + n /\ v = LenAs(b)
  OBVIOUS
<1>12. X \in Nat /\ Y \in Nat /\ Z \in Nat /\ u \in Nat /\ X <= Y /\ Y <= Z
  <2>1. i \in 0 .. Len(ns) /\ j \in 0 .. Len(ns) /\ L \in 0 .. Len(ns)
    BY ONLY <1>2, <1>3
  <2>2. X \in Nat /\ Y \in Nat /\ Z \in Nat
    BY ONLY <1>2, <1>11, <2>1, UptoIs
  <2>3. X <= Y /\ Y <= Z
    BY ONLY <1>2, <1>3, <1>11, <2>1, UptoOrder
  <2> QED BY ONLY <1>2, <1>11, <2>2, <2>3
<1>13. n = Y - X /\ p + u = X /\ v = Z - u
  <2>1. Upto(b.nodes, i + k) = Y /\ Upto(b.nodes, i) = X /\ b.used = u
    BY ONLY <1>1, <1>11
  <2>2. v = Z - u
    BY ONLY <1>1, <1>11 DEF LenAs
  <2> QED BY ONLY <2>1, <2>2, n = Upto(b.nodes, i + k) - Upto(b.nodes, i), p + b.used = Upto(b.nodes, i)
<1>14. n \in Nat /\ a \in Nat /\ p <= a /\ a <= v /\ u + p = X /\ u + a = Y
  <2>1. a = p + n
    BY ONLY <1>11
  <2>2. n \in Nat
    BY ONLY <1>12, <1>13
  <2> QED BY ONLY <1>12, <1>13, <2>1, <2>2, p \in Nat
<1>15. Bytes(z.nodes) = Mixed(Bytes(b.nodes), b.used + p, <<>>, b.used + a) /\ <<>> \in Seq(Byte)
  BY ONLY <1>1, <1>7, <1>8, <1>11, <1>14
<1>16. PICK e : e = <<>>
  OBVIOUS
<1>17. Content(z) = Mixed(Content(b), p, e, a)
  <2>1. e \in Seq(Byte) /\ a <= LenAs(b) /\ Bytes(z.nodes) = Mixed(Bytes(b.nodes), b.used + p, e, b.used + a)
    BY ONLY <1>11, <1>14, <1>15, <1>16
  <2> QED BY ONLY <1>10, <1>14, <2>1, Shape(b), p \in Nat, ContentMixed
<1> QED BY ONLY <1>1, <1>11, <1>14, <1>16, <1>17 DEF Without

(* The first r bytes of a node that is not the first go. *)
LEMMA DropAfterContent ==
  ASSUME NEW b, Shape(b), NEW j \in 1 .. Len(b.nodes), 1 < j, NEW r \in Nat, r < NLen(b.nodes[j]), NEW num,
         NEW p \in Nat, p + b.used = Upto(b.nodes, j - 1)
  PROVE  Content(IovecRedo(DropFront(b, j, r, FALSE), j, num)) = Without(Content(b), p, r)
<1>1. PICK t, l, U, u : t = b.nodes[j].data /\ l = NLen(b.nodes[j]) /\ U = Upto(b.nodes, j - 1) /\ u = b.used
  OBVIOUS
<1>2. b.nodes \in Seq(NodeRec) /\ IsBase(b) /\ Len(b.nodes) \in Nat /\ u \in Nat /\ U = p + u
  <2>1. U = p + u
    BY ONLY <1>1, p + b.used = Upto(b.nodes, j - 1)
  <2> QED BY <1>1, <2>1, ListIs DEF Shape
<1>3. t \in Seq(Byte) /\ l = Len(t) /\ l \in Nat /\ r < l /\ r <= l /\ l <= Len(t)
  BY <1>1, <1>2, NodeIs DEF NLen
<1>4. PICK x : x = SubSeq(t, r + 1, Len(t))
  OBVIOUS
<1>5. x \in Seq(Byte) /\ x = Mixed(t, 0, <<>>, r)
  <2>1. r <= Len(t)
    BY ONLY <1>3
  <2>2. x = Mixed(t, 0, <<>>, r)
    BY ONLY <1>3, <1>4, <2>1, r \in Nat, MixedTail
  <2>3. x \in Seq(Byte)
    BY ONLY <1>3, <1>4, <2>1, r \in Nat, Halves
  <2> QED BY ONLY <2>2, <2>3
<1>6. PICK g, z, o : g = [b EXCEPT !.nodes[j].data = x] /\ z = IovecRedo(g, j, num) /\ o = 0
  OBVIOUS
<1>7. DropFront(b, j, r, FALSE) = g
  BY ONLY <1>1, <1>4, <1>6 DEF DropFront
<1>8. DropAfterDone(z, b, j, r)
  <2>1. DropAfterDone(IovecRedo(DropFront(b, j, r, FALSE), j, num), b, j, r)
    BY ONLY Shape(b), j \in 1 .. Len(b.nodes), 1 < j, r \in Nat, r < NLen(b.nodes[j]), DropAfterIs
  <2> QED BY ONLY <1>6, <1>7, <2>1
<1>9. Shape(z) /\ z.used = b.used
  BY ONLY <1>8 DEF DropAfterDone
<1>10. z.nodes = [b.nodes EXCEPT ![j].data = x]
  <2>1. g.nodes = [b.nodes EXCEPT ![j].data = x]
    BY ONLY <1>2, <1>6 DEF IsBase, BaseRec
  <2>2. PICK m \in Nat : m = 0
    OBVIOUS
  <2>3. DataDone([b EXCEPT !.nodes[j].data = x], b, j, Len(x), b.len)
    BY ONLY <1>2, <1>5, <2>2, j \in 1 .. Len(b.nodes), DataSet
  <2>4. IsBase(g)
    BY ONLY <1>6, <2>3 DEF DataDone
  <2>5. Same(g, z)
    BY ONLY <1>6, <2>4, IovecEntriesSame
  <2> QED BY ONLY <2>1, <2>5 DEF Same
<1>11. p = Upto(b.nodes, j - 1) + o - b.used /\ p + r = Upto(b.nodes, j - 1) + r - b.used
  <2>1. p = U + o - u /\ p + r = U + r - u
    BY ONLY <1>2, <1>6, p \in Nat, r \in Nat
  <2> QED BY ONLY <1>1, <2>1
<1>12. 0 < o + Len(<<>>) + (NLen(b.nodes[j]) - r) /\ r <= NLen(b.nodes[j]) /\ <<>> \in Seq(Byte)
  <2>1. 0 < o + Len(<<>>) + (l - r) /\ <<>> \in Seq(Byte)
    BY ONLY <1>3, <1>6, r \in Nat
  <2> QED BY ONLY <1>1, <1>3, <2>1
<1>13. j # 1 /\ o \in Nat /\ o <= r
  BY ONLY <1>2, <1>6, 1 < j, r \in Nat, j \in 1 .. Len(b.nodes)
<1>14. x = Mixed(b.nodes[j].data, o, <<>>, r)
  BY ONLY <1>1, <1>5, <1>6
<1>15. Edited(z, b, j, o, <<>>, r, x, p, p + r)
  BY ONLY <1>9, <1>10, <1>11, <1>12, <1>13, <1>14, Shape(b), j \in 1 .. Len(b.nodes), r \in Nat DEF Edited
<1>16. Content(z) = Mixed(Content(b), p, <<>>, p + r)
  BY ONLY <1>15, EditContent
<1> QED BY ONLY <1>6, <1>7, <1>16 DEF Without


(* Nothing moves in front of them. *)
LEMMA UnlinkedUpto ==
  ASSUME NEW b, Shape(b), NEW i \in 1 .. Len(b.nodes), NEW k \in 0 .. Len(b.nodes) - i, NEW num
  PROVE  Upto(Unlinked(b, i, num, k).nodes, i) = Upto(b.nodes, i)
<1>1. PICK ns, ms : ns = b.nodes /\ ms = SubSeq(ns, 1, i) \o SubSeq(ns, i + k + 1, Len(ns))
  OBVIOUS
<1>2. ns \in Seq(NodeRec) /\ IsBase(b) /\ Good(ns, b.types)
  BY <1>1, ListIs DEF Shape
<1>3. Unlinked(b, i, num, k).nodes = ms
  <2>1. Unlinked(b, i, num, k) =
          [b EXCEPT
             !.nodes = SubSeq(@, 1, i) \o SubSeq(@, i + k + 1, Len(@)),
             !.num = @ - k,
             !.vec.v = IF b.upto
                       THEN SubSeq(@, 1, num) \o SubSeq(@, num + k + 1, Len(@)) ELSE @,
             !.end = IF i + k = Len(b.nodes) THEN b.nodes[i].id ELSE @]
    BY DEF Unlinked
  <2> QED BY ONLY <1>1, <1>2, <2>1 DEF IsBase, BaseRec
<1>4. Removed(ms, ns, i, i + k)
  <2>1. i \in 1 .. Len(ns) /\ k \in 0 .. Len(ns) - i
    BY <1>1
  <2> QED BY ONLY <1>1, <1>2, <2>1, UnlinkedRemoves
<1>5. PICK j : j = i + k
  OBVIOUS
<1>6. RemoveDone(ms, ns, i, j, b.types)
  BY ONLY <1>2, <1>4, <1>5, RemoveIs
<1>7. i \in 0 .. i
  BY ListIs
<1> QED BY ONLY <1>1, <1>3, <1>6, <1>7 DEF RemoveDone

(* The data behind f to the end of its node goes, then k whole nodes, then *)
(* r bytes of the next one.                                                *)
LEMMA DelAfterContent ==
  ASSUME NEW b, NEW c, NEW pos, NEW len, NEW f, MayCut(b, c, pos, len, f),
         NLen(b.nodes[f.i]) <= f.p + len
  PROVE  Deleted(b, pos, len, DelAfter(CutNode(b, f, len), c, pos, f, f.p + len - NLen(b.nodes[f.i])))
<1>1. PICK i, p, l, U, L, u, w, C : /\ i = f.i /\ p = f.p /\ l = NLen(b.nodes[i]) /\ U = Upto(b.nodes, i - 1)
                                    /\ L = Len(b.nodes) /\ u = b.used /\ w = pos - 1 /\ C = Content(b)
  OBVIOUS
<1>2. /\ i \in 1 .. L /\ i \in Nat /\ p \in Nat /\ p <= l /\ l \in Nat /\ U \in Nat /\ U + p = w + u
      /\ l <= p + len
  BY ONLY <1>1, MayCut(b, c, pos, len, f), MayCutIs, NLen(b.nodes[f.i]) <= f.p + len
<1>3. MayDel(b, c, pos, len) /\ 1 < pos
  BY DEF MayCut
<1>4. /\ Shape(b) /\ b.nodes \in Seq(NodeRec) /\ L \in Nat /\ b.len = LenAs(b)
      /\ b.len \in Nat /\ u \in Nat /\ len \in Nat /\ pos \in Nat /\ pos + len <= b.len + 1
  BY ONLY <1>1, <1>3, MayDelIs
<1>5. w \in Nat /\ w + len <= b.len
  BY ONLY <1>1, <1>3, <1>4
<1>6. PICK g, rem, n1 : g = CutNode(b, f, len) /\ rem = p + len - l /\ n1 = l - p
  OBVIOUS
<1>7. CutDone(g, b, f, len)
  BY ONLY <1>6, MayCut(b, c, pos, len, f), CutNodeIs
<1>8. Shape(g) /\ g.used = u /\ Len(g.nodes) = L /\ LenAs(g) = b.len + (p - l) /\ Upto(g.nodes, i) = U + p
  BY ONLY <1>1, <1>7 DEF CutDone
<1>9. g.nodes \in Seq(NodeRec)
  BY <1>8, BaseIs DEF Shape
<1>10. rem \in Nat /\ n1 \in Nat /\ n1 + rem = len
  BY ONLY <1>2, <1>4, <1>6
<1>11. Content(g) = Without(C, w, n1)
  <2>1. n1 = NLen(b.nodes[f.i]) - f.p
    BY ONLY <1>1, <1>6
  <2>2. Content(CutNode(b, f, len)) = Without(Content(b), pos - 1, n1)
    BY ONLY <2>1, MayCut(b, c, pos, len, f), CutNodeContent
  <2> QED BY ONLY <1>1, <1>6, <2>2
<1>12. PICK k : k = Whole(g, i, rem)
  OBVIOUS
<1>13. /\ k \in 0 .. L - i /\ Upto(g.nodes, i + k) - Upto(g.nodes, i) <= rem
       /\ i + k < L => rem < Upto(g.nodes, i + k + 1) - Upto(g.nodes, i)
  <2>1. i \in 0 .. Len(g.nodes)
    BY ONLY <1>2, <1>4, <1>8
  <2>2. WholeDone(g.nodes, i, rem, k)
    BY ONLY <1>9, <1>10, <1>12, <2>1, WholeIs
  <2> QED BY ONLY <1>8, <2>2 DEF WholeDone
<1>14. PICK o1, o2, x, r, b1 : /\ o1 = Upto(g.nodes, i) /\ o2 = Upto(g.nodes, i + k) /\ x = o2 - o1
                               /\ r = rem - (Upto(g.nodes, i + k) - Upto(g.nodes, i))
                               /\ b1 = Unlinked(g, i, f.num, k)
  OBVIOUS
<1>15. \A j \in 0 .. L : Upto(g.nodes, j) \in Nat
  BY <1>8, <1>9, UptoIs
<1>16. k \in Nat /\ i + k \in 0 .. L /\ i + k <= L /\ o1 \in Nat /\ o2 \in Nat /\ i \in 0 .. L
  <2>1. k \in Nat /\ i + k \in 0 .. L /\ i \in 0 .. L /\ i + k <= L
    BY ONLY <1>2, <1>4, <1>13
  <2> QED BY ONLY <1>14, <1>15, <2>1
<1>17. w + g.used = Upto(g.nodes, i) /\ i \in 1 .. Len(g.nodes) /\ k \in 0 .. Len(g.nodes) - i
  BY ONLY <1>2, <1>8, <1>13
<1>18. Content(b1) = Without(Content(g), w, x) /\ x \in Nat /\ w + x <= LenAs(g)
  <2>1. PICK num : num = f.num
    OBVIOUS
  <2>2. x = Upto(g.nodes, i + k) - Upto(g.nodes, i)
    BY ONLY <1>14
  <2>3. Content(Unlinked(g, i, num, k)) = Without(Content(g), w, x) /\ x \in Nat /\ w + x <= LenAs(g)
    BY ONLY <1>5, <1>8, <1>17, <2>2, UnlinkedContent
  <2> QED BY ONLY <1>14, <2>1, <2>3
<1>19. r \in Nat /\ r = rem - x
  <2>1. r = rem - x /\ x <= rem
    BY ONLY <1>13, <1>14
  <2> QED BY ONLY <1>10, <1>18, <2>1
<1>20. r > 0 => i + k < L
  <2> HAVE r > 0
  <2>1. ASSUME i + k = L PROVE FALSE
    <3>1. o2 = Upto(g.nodes, L)
      BY ONLY <1>14, <2>1
    <3>2. LenAs(g) = o2 - u
      BY ONLY <1>8, <3>1 DEF LenAs
    <3>3. o1 = U + p /\ o2 - u = b.len + (p - l)
      BY ONLY <1>8, <1>14, <3>2
    <3>4. x = b.len + (p - l) + u - (U + p)
      BY ONLY <1>2, <1>4, <1>14, <1>16, <3>3
    <3>5. rem <= x
      BY ONLY <1>2, <1>4, <1>5, <1>6, <3>4
    <3> QED BY ONLY <1>10, <1>18, <1>19, <3>5, r > 0
  <2> QED BY ONLY <1>4, <1>16, <2>1
<1>21. /\ Shape(b1) /\ b1.used = u /\ FrontKept(b1.nodes, g.nodes, i)
       /\ i + k < L => i + 1 \in 1 .. Len(b1.nodes) /\ b1.nodes[i + 1] = g.nodes[i + k + 1]
  <2>1. PICK num : num = f.num
    OBVIOUS
  <2>2. UnlinkDone(Unlinked(g, i, num, k), g, i, k)
    BY ONLY <1>8, <1>17, UnlinkedIs
  <2>3. UnlinkDone(b1, g, i, k)
    BY ONLY <1>14, <2>1, <2>2
  <2> QED BY ONLY <1>8, <2>3 DEF UnlinkDone
<1>22. PICK z : z = IF r > 0 THEN IovecRedo(DropFront(b1, i + 1, r, FALSE), i + 1, f.num + 1) ELSE b1
  OBVIOUS
<1>23. C \in Seq(Byte) /\ Len(C) = b.len
  BY ONLY <1>1, <1>4, ContentIs
<1>24. Content(b1) = Without(C, w, n1 + x) /\ x + r = rem
  <2>1. x + r = rem
    BY ONLY <1>10, <1>18, <1>19
  <2>2. w + (n1 + x) <= Len(C)
    BY ONLY <1>4, <1>5, <1>10, <1>18, <1>19, <1>23, <2>1
  <2>3. Without(Without(C, w, n1), w, x) = Without(C, w, n1 + x)
    BY ONLY <1>5, <1>10, <1>18, <1>23, <2>2, WithoutTwice
  <2> QED BY ONLY <1>11, <1>18, <2>1, <2>3
<1>25. Content(z) = Without(C, w, len) /\ IsBase(z)
  <2>1. CASE ~(r > 0)
    <3>1. z = b1
      BY ONLY <1>22, <2>1
    <3>2. n1 + x = len
      BY ONLY <1>10, <1>18, <1>19, <1>24, <2>1
    <3> QED BY ONLY <1>21, <1>24, <3>1, <3>2 DEF Shape
  <2>2. CASE r > 0
    <3>1. PICK j, num : j = i + 1 /\ num = f.num + 1
      OBVIOUS
    <3>2. i + k < L
      BY ONLY <1>20, <2>2
    <3>3. z = IovecRedo(DropFront(b1, j, r, FALSE), j, num)
      BY ONLY <1>22, <2>2, <3>1
    <3>4. j \in 1 .. Len(b1.nodes) /\ b1.nodes[j] = g.nodes[i + k + 1]
      BY ONLY <1>21, <3>1, <3>2
    <3>5. j \in Nat /\ 1 < j /\ j - 1 = i
      BY ONLY <1>2, <3>1
    <3>6. r < NLen(b1.nodes[j])
      <4>1. PICK q, y : q = i + k + 1 /\ y = NLen(g.nodes[q])
        OBVIOUS
      <4>2. q \in 1 .. L /\ q - 1 = i + k
        BY ONLY <1>2, <1>4, <1>16, <3>2, <4>1
      <4>3. Upto(g.nodes, q) = Upto(g.nodes, q - 1) + NLen(g.nodes[q]) /\ NLen(g.nodes[q]) \in Nat
        BY <1>8, <1>9, <4>2, UptoIs, NodeIs
      <4>4. Upto(g.nodes, q) = o2 + y /\ y \in Nat
        BY ONLY <1>14, <4>1, <4>2, <4>3
      <4>5. rem < (o2 + y) - o1
        BY ONLY <1>13, <1>14, <3>2, <4>1, <4>4
      <4>6. x = o2 - o1
        BY ONLY <1>14
      <4>7. r < y
        BY ONLY <1>10, <1>16, <1>19, <4>4, <4>5, <4>6
      <4> QED BY ONLY <3>4, <4>1, <4>7
    <3>7. w + b1.used = Upto(b1.nodes, j - 1)
      <4>1. Upto(b1.nodes, i) = Upto(g.nodes, i)
        BY ONLY <1>14, <1>17, <1>9, <1>8, UnlinkedUpto
      <4> QED BY ONLY <1>8, <1>17, <1>21, <3>5, <4>1
    <3>8. Content(z) = Without(Content(b1), w, r)
      <4>1. Shape(b1) /\ j \in 1 .. Len(b1.nodes) /\ 1 < j /\ r \in Nat /\ w \in Nat
        BY ONLY <1>5, <1>19, <1>21, <3>4, <3>5
      <4>2. Content(IovecRedo(DropFront(b1, j, r, FALSE), j, num)) = Without(Content(b1), w, r)
        BY ONLY <3>6, <3>7, <4>1, DropAfterContent
      <4> QED BY ONLY <3>3, <4>2
    <3>9. DropAfterDone(z, b1, j, r)
      BY ONLY <1>19, <1>21, <3>3, <3>4, <3>5, <3>6, DropAfterIs
    <3>10. IsBase(z)
      BY ONLY <3>9 DEF DropAfterDone, Shape
    <3>11. PICK n2 : n2 = n1 + x
      OBVIOUS
    <3>12. n2 \in Nat /\ n2 + r = len /\ w + (n2 + r) <= Len(C)
      BY ONLY <1>4, <1>5, <1>10, <1>18, <1>19, <1>23, <1>24, <3>11
    <3>13. Without(Without(C, w, n2), w, r) = Without(C, w, n2 + r)
      BY ONLY <1>5, <1>19, <1>23, <3>12, WithoutTwice
    <3> QED BY ONLY <1>24, <3>8, <3>10, <3>11, <3>12, <3>13
  <2> QED BY ONLY <2>1, <2>2
<1>26. PICK d, h : d = CacheDel(z, pos) /\ h = Relink(c, SubSeq(g.nodes, i + 1, i + k))
  OBVIOUS
<1>27. Content(d) = Content(z)
  BY ONLY <1>25, <1>26, CacheAddContent
<1>28. PICK y : y = [b |-> d, c |-> h, ok |-> TRUE]
  OBVIOUS
<1>29. DelAfter(g, c, pos, f, rem) = y
  <2>1. DelAfter(g, c, pos, f, rem) = DelNodesAfter(g, c, pos, f, rem, k)
    BY ONLY <1>1, <1>12 DEF DelAfter
  <2>2. DelNodesAfter(g, c, pos, f, rem, k) =
          [b |-> CacheDel(IF r > 0 THEN IovecRedo(DropFront(b1, f.i + 1, r, FALSE), f.i + 1, f.num + 1)
                                   ELSE b1, pos),
           c |-> Relink(c, SubSeq(g.nodes, f.i + 1, f.i + k)), ok |-> TRUE]
    BY ONLY <1>1, <1>14 DEF DelNodesAfter
  <2> QED BY ONLY <1>1, <1>22, <1>26, <1>28, <2>1, <2>2
<1>30. DelAfter(g, c, pos, f, rem) = DelAfter(CutNode(b, f, len), c, pos, f, f.p + len - NLen(b.nodes[f.i]))
  BY ONLY <1>1, <1>6
<1>31. y.b = d /\ y.ok = TRUE
  BY ONLY <1>28
<1>32. Deleted(b, pos, len, y)
  BY ONLY <1>1, <1>25, <1>27, <1>31 DEF Deleted
<1> QED BY ONLY <1>29, <1>30, <1>32


(* vstr_extern_inline_del() for pos > 1 *)
LEMMA DelMidContent ==
  ASSUME NEW b, NEW c, NEW pos, NEW len, MayDel(b, c, pos, len), 1 < pos
  PROVE  Deleted(b, pos, len, DelMid(b, c, pos, len))
<1>1. PICK w, f : w = pos - 1 /\ f = BasePos(b, pos - 1)
  OBVIOUS
<1>2. /\ pos \in Nat /\ b.len \in Nat /\ len \in Nat /\ 0 < len /\ pos + len <= b.len + 1 /\ Right(b)
      /\ Fits(b.nodes, c) /\ b.len <= MaxLen /\ b.used \in Nat
  BY MayDelIs DEF MayDel
<1>3. w \in 1 .. b.len
  BY ONLY <1>1, <1>2, 1 < pos
<1>4. Found(b, w, f)
  <2>1. Found(b, w, BasePos(b, w))
    BY ONLY <1>2, <1>3, BasePosIs
  <2> QED BY ONLY <1>1, <2>1
<1>5. MayCut(b, c, pos, len, f)
  BY ONLY <1>1, <1>4, MayDel(b, c, pos, len), 1 < pos DEF MayCut
<1>6. /\ NLen(b.nodes[f.i]) \in Nat /\ f.p \in Nat /\ 0 < f.p /\ f.i \in 1 .. Len(b.nodes)
      /\ (f.i = 1 => b.used < f.p)
  BY ONLY <1>5, MayCutIs
<1>7. DelMid(b, c, pos, len) = DelFound(b, c, pos, len, f)
  BY ONLY <1>1 DEF DelMid
<1>8. CASE f.p + len < NLen(b.nodes[f.i])
  <2>1. PICK s, i, q : /\ i = f.i /\ q = f.p + len
                       /\ s = IF Splits(b.nodes[f.i]) THEN SplitNode(b, c, f.i, f.p + len)
                              ELSE [b |-> b, c |-> c, ok |-> TRUE]
    OBVIOUS
  <2>2. SplitFor(b, len, f, s)
    BY ONLY <1>5, <1>8, <2>1, SplitForIs
  <2>3. Content(s.b) = Content(b)
    <3>1. CASE Splits(b.nodes[f.i])
      <4>1. q \in Nat /\ 0 < q /\ q <= NLen(b.nodes[i]) /\ q < NLen(b.nodes[i]) /\ (i = 1 => b.used < q)
            /\ i \in 1 .. Len(b.nodes)
        <5>1. q \in Nat /\ 0 < q /\ f.p <= q /\ q < NLen(b.nodes[i]) /\ i \in 1 .. Len(b.nodes)
              /\ NLen(b.nodes[i]) \in Nat
          BY ONLY <1>2, <1>6, <1>8, <2>1
        <5>2. i = 1 => b.used < q
          BY ONLY <1>2, <1>6, <2>1, <5>1
        <5> QED BY ONLY <5>1, <5>2
      <4>2. MaySplit(b, i, q)
        BY ONLY <1>2, <4>1 DEF MaySplit
      <4>3. Content(SplitNode(b, c, i, q).b) = Content(b)
        BY ONLY <1>2, <4>2, SplitContent
      <4> QED BY ONLY <2>1, <3>1, <4>3
    <3>2. CASE ~Splits(b.nodes[f.i])
      <4>1. s = [b |-> b, c |-> c, ok |-> TRUE]
        BY ONLY <2>1, <3>2
      <4>2. s.b = b
        BY ONLY <4>1
      <4> QED BY ONLY <4>2
    <3> QED BY ONLY <3>1, <3>2
  <2>4. Deleted(b, pos, len, CutInner(s, pos, f, len))
    BY ONLY <1>5, <2>2, <2>3, CutInnerContent
  <2>5. DelFound(b, c, pos, len, f) = CutInner(s, pos, f, len)
    BY ONLY <1>8, <2>1 DEF DelFound
  <2> QED BY ONLY <1>7, <2>4, <2>5
<1>9. CASE ~(f.p + len < NLen(b.nodes[f.i]))
  <2>1. NLen(b.nodes[f.i]) <= f.p + len
    BY ONLY <1>2, <1>6, <1>9
  <2>2. PICK r : r = DelAfter(CutNode(b, f, len), c, pos, f, f.p + len - NLen(b.nodes[f.i]))
    OBVIOUS
  <2>3. Deleted(b, pos, len, r)
    BY ONLY <1>5, <2>1, <2>2, DelAfterContent
  <2>4. DelFound(b, c, pos, len, f) = r
    BY ONLY <1>9, <2>2 DEF DelFound
  <2> QED BY ONLY <1>7, <2>3, <2>4
<1> QED BY ONLY <1>8, <1>9

(* vstr_del() *)
LEMMA DelContent ==
  ASSUME NEW b, NEW c, NEW pos, NEW len, MayDel(b, c, pos, len)
  PROVE  Deleted(b, pos, len, DelOp(b, c, pos, len))
<1>1. PICK r1, r2, r : /\ r1 = [b |-> [IovecDropFront(DropFront(b, 1, len, TRUE), 1, len)
                                         EXCEPT !.len = @ - len, !.pc = NoPos],
                                c |-> c, ok |-> TRUE]
                       /\ r2 = [b |-> [IovecLenAdd(b, b.num, -len) EXCEPT
                                         !.nodes[b.num].data = SubSeq(@, 1, Len(@) - len),
                                         !.len = @ - len, !.pc = NoPos],
                                c |-> c, ok |-> TRUE]
                       /\ r = DelOp(b, c, pos, len)
  OBVIOUS
<1>2. PICK r3, r4, r5 : r3 = DelAll(b, c) /\ r4 = DelBeg(b, c, len) /\ r5 = DelMid(b, c, pos, len)
  OBVIOUS
<1>3. PICK g1 \in BOOLEAN, g2 \in BOOLEAN :
        /\ g1 <=> ~UserCache /\ InlineBeg(b, pos, len)
        /\ g2 <=> ~UserCache /\ ~InlineBeg(b, pos, len) /\ InlineEnd(b, pos, len)
  <2>1. (~UserCache /\ InlineBeg(b, pos, len)) \in BOOLEAN
        /\ (~UserCache /\ ~InlineBeg(b, pos, len) /\ InlineEnd(b, pos, len)) \in BOOLEAN
    OBVIOUS
  <2> QED BY ONLY <2>1, Zenon
<1>4. r = CASE ~UserCache /\ InlineBeg(b, pos, len) -> r1
            [] ~UserCache /\ ~InlineBeg(b, pos, len) /\ InlineEnd(b, pos, len) -> r2
            [] OTHER -> CASE pos = 1 /\ len = b.len -> r3
                          [] pos = 1 /\ len < b.len -> r4
                          [] OTHER -> r5
  BY ONLY <1>1, <1>2 DEF DelOp
<1>5. /\ g1 => r = r1 /\ InlineBeg(b, pos, len)
      /\ g2 => r = r2 /\ InlineEnd(b, pos, len)
      /\ ~g1 /\ ~g2 => r = CASE pos = 1 /\ len = b.len -> r3
                             [] pos = 1 /\ len < b.len -> r4
                             [] OTHER -> r5
  BY ONLY <1>3, <1>4
<1>6. pos \in Nat /\ 0 < pos /\ len \in Nat /\ b.len \in Nat /\ pos + len <= b.len + 1
  BY MayDelIs
<1>7. CASE g1
  <2>1. Deleted(b, pos, len, r1)
    BY ONLY <1>1, <1>5, <1>7, MayDel(b, c, pos, len), InlineBegContent
  <2> QED BY ONLY <1>1, <1>5, <1>7, <2>1
<1>8. CASE g2
  <2>1. Deleted(b, pos, len, r2)
    BY ONLY <1>1, <1>5, <1>8, MayDel(b, c, pos, len), InlineEndContent
  <2> QED BY ONLY <1>1, <1>5, <1>8, <2>1
<1>9. CASE ~g1 /\ ~g2
  <2>0. r = CASE pos = 1 /\ len = b.len -> r3 [] pos = 1 /\ len < b.len -> r4 [] OTHER -> r5
    BY ONLY <1>5, <1>9
  <2>1. CASE pos = 1 /\ len = b.len
    <3>1. Deleted(b, pos, len, r3)
      BY ONLY <1>2, <2>1, MayDel(b, c, pos, len), DelAllContent
    <3>2. ~(len < b.len)
      BY ONLY <1>6, <2>1
    <3>3. r = r3
      BY ONLY <2>0, <2>1, <3>2
    <3> QED BY ONLY <1>1, <3>1, <3>3
  <2>2. CASE pos = 1 /\ len < b.len
    <3>1. Deleted(b, pos, len, r4)
      BY ONLY <1>2, <2>2, MayDel(b, c, pos, len), DelBegContent
    <3>2. ~(len = b.len)
      BY ONLY <1>6, <2>2
    <3>3. r = r4
      BY ONLY <2>0, <2>2, <3>2
    <3> QED BY ONLY <1>1, <3>1, <3>3
  <2>3. CASE pos # 1
    <3>1. 1 < pos
      BY ONLY <1>6, <2>3
    <3>2. Deleted(b, pos, len, r5)
      BY ONLY <1>2, <3>1, MayDel(b, c, pos, len), DelMidContent
    <3>3. r = r5
      BY ONLY <2>0, <2>3
    <3> QED BY ONLY <1>1, <3>2, <3>3
  <2>4. pos = 1 => len = b.len \/ len < b.len
    BY ONLY <1>6
  <2> QED BY ONLY <2>1, <2>2, <2>3, <2>4
<1> QED BY ONLY <1>7, <1>8, <1>9


-----------------------------------------------------------------------------
(* The nodes implement the string: what the operations do to the content   *)
(* is what VstrAbs promises.                                               *)

LEMMA AbsInsertIs ==
  ASSUME NEW b, NEW pos, NEW in \in Inputs
  PROVE  Abs!Insert(Content(b), pos, Abs!BytesOf(in)) = Mixed(Content(b), pos, InPart(in, 0, in.len), pos)
<1>1. in.len \in Nat
  BY NodesAssumption
<1>2. PICK n, t : n = in.len /\ t = InPart(in, 0, in.len)
  OBVIOUS
<1>3. t = [k \in 1 .. n |-> InByte(in, k)]
  <2>1. n - 0 = n /\ \A k \in 1 .. n : 0 + k = k
    BY <1>1, <1>2
  <2>2. t = [k \in 1 .. n - 0 |-> InByte(in, 0 + k)]
    BY ONLY <1>2 DEF InPart
  <2> QED BY ONLY <2>1, <2>2
<1>4. Abs!BytesOf(in) = t
  <2>1. CASE in.type = "BUF"
    <3>1. in.data = [k \in 1 .. n |-> in.data[k]]
      BY <1>2, <2>1, InputsAssumption
    <3>2. \A k \in 1 .. n : InByte(in, k) = in.data[k]
      BY ONLY <2>1 DEF InByte
    <3>3. t = [k \in 1 .. n |-> in.data[k]]
      BY ONLY <1>3, <3>2
    <3>4. Abs!BytesOf(in) = in.data
      BY ONLY <2>1 DEF Abs!BytesOf
    <3> QED BY ONLY <3>1, <3>3, <3>4
  <2>2. CASE in.type # "BUF"
    <3>1. \A k \in 1 .. n : InByte(in, k) = Abs!ByteAt(in.obj, in.off + k - 1)
      BY ONLY <2>2 DEF InByte, ByteAt, Abs!ByteAt
    <3>2. t = [k \in 1 .. n |-> Abs!ByteAt(in.obj, in.off + k - 1)]
      BY ONLY <1>3, <3>1
    <3> QED BY ONLY <1>2, <2>2, <3>2 DEF Abs!BytesOf
  <2> QED BY ONLY <2>1, <2>2
<1> QED BY ONLY <1>2, <1>4 DEF Abs!Insert, Mixed

LEMMA AbsRemoveIs ==
  ASSUME NEW C \in Seq(Byte), NEW pos \in Nat, 0 < pos, NEW len \in Nat, pos + len <= Len(C) + 1
  PROVE  Abs!Remove(C, pos, len) = Without(C, pos - 1, len)
<1>1. PICK p, q : p = pos - 1 /\ q = (pos - 1) + len
  OBVIOUS
<1>2. p \in Nat /\ q \in Nat /\ p <= q /\ q <= Len(C) /\ q + 1 = pos + len
  BY <1>1
<1>3. Mixed(C, p, <<>>, q) = SubSeq(C, 1, p) \o SubSeq(C, q + 1, Len(C))
  BY ONLY <1>2, C \in Seq(Byte), MixedNone
<1> QED BY ONLY <1>1, <1>2, <1>3 DEF Abs!Remove, Without

LEMMA AddStep ==
  ASSUME IInv, ByRefFits, NEW pos \in 0 .. base.len, NEW in \in Inputs, Add(pos, in)
  PROVE  Abs!AbsAdd
<1>1. /\ Right(base) /\ Shape(base) /\ base.len <= MaxLen /\ Fits(base.nodes, conf) /\ LenIs(base)
  BY DEF IInv, InvOf, Right
<1>2. PICK b, c, r : b = base /\ c = conf /\ r = AddOp(base, conf, pos, in)
  OBVIOUS
<1>3. base' = r.b /\ b.len + in.len <= MaxLen
  BY <1>2 DEF Add, Returns
<1>4. call' = [[op |-> "add", pos |-> pos, in |-> in, ok |-> TRUE] EXCEPT !.ok = r.ok]
  BY <1>2 DEF Add, Returns
<1>5. call'.op = "add" /\ call'.pos = pos /\ call'.in = in /\ call'.ok = r.ok
  BY ONLY <1>4
<1>6. Right(b) /\ Fits(b.nodes, c) /\ pos \in 0 .. b.len
  BY ONLY <1>1, <1>2, pos \in 0 .. base.len
<1>7. Added(b, pos, in, AddOp(b, c, pos, in))
  BY ONLY <1>3, <1>6, in \in Inputs, ByRefFits, AddContent
<1>8. Content(r.b) = IF r.ok THEN Abs!Insert(Content(b), pos, Abs!BytesOf(in)) ELSE Content(b)
  <2>1. Content(r.b) = IF r.ok THEN Mixed(Content(b), pos, InPart(in, 0, in.len), pos) ELSE Content(b)
    BY ONLY <1>2, <1>7 DEF Added
  <2>2. Abs!Insert(Content(b), pos, Abs!BytesOf(in)) = Mixed(Content(b), pos, InPart(in, 0, in.len), pos)
    BY ONLY in \in Inputs, AbsInsertIs
  <2> QED BY ONLY <2>1, <2>2
<1>9. Len(Content(base)) = base.len
  <2>1. Len(Content(base)) = LenAs(base)
    BY ONLY <1>1, ContentIs
  <2> QED BY ONLY <1>1, <2>1, LenAsIs
<1>10. Content(base)' = Content(r.b)
  BY ONLY <1>3
<1>11. Content(base)' = IF call'.ok THEN Abs!Insert(Content(base), call'.pos, Abs!BytesOf(call'.in))
                        ELSE Content(base)
  BY ONLY <1>2, <1>5, <1>8, <1>10
<1>12. call'.pos \in 0 .. Len(Content(base))
  BY ONLY <1>5, <1>9, pos \in 0 .. base.len
<1> QED BY ONLY <1>5, <1>11, <1>12 DEF Abs!AbsAdd

LEMMA DelStep ==
  ASSUME IInv, NEW pos \in 1 .. base.len, NEW len \in 1 .. base.len - pos + 1, Del(pos, len)
  PROVE  Abs!AbsDel
<1>1. /\ Right(base) /\ Shape(base) /\ base.len <= MaxLen /\ Fits(base.nodes, conf) /\ LenIs(base)
  BY DEF IInv, InvOf, Right
<1>2. PICK b, c, r : b = base /\ c = conf /\ r = DelOp(base, conf, pos, len)
  OBVIOUS
<1>3. base' = r.b
  BY <1>2 DEF Del, Returns
<1>4. call' = [[op |-> "del", pos |-> pos, len |-> len, ok |-> TRUE] EXCEPT !.ok = r.ok]
  BY <1>2 DEF Del, Returns
<1>5. call'.op = "del" /\ call'.pos = pos /\ call'.len = len /\ call'.ok = r.ok
  BY ONLY <1>4
<1>6. MayDel(b, c, pos, len)
  BY ONLY <1>1, <1>2, pos \in 1 .. base.len, len \in 1 .. base.len - pos + 1 DEF MayDel
<1>7. Deleted(b, pos, len, DelOp(b, c, pos, len))
  BY ONLY <1>6, DelContent
<1>8. Content(b) \in Seq(Byte) /\ Len(Content(b)) = b.len
  <2>1. Shape(b) /\ LenIs(b)
    BY ONLY <1>1, <1>2
  <2>2. Content(b) \in Seq(Byte) /\ Len(Content(b)) = LenAs(b)
    BY ONLY <2>1, ContentIs
  <2> QED BY ONLY <2>1, <2>2, LenAsIs
<1>9. Content(r.b) = IF r.ok THEN Abs!Remove(Content(b), pos, len) ELSE Content(b)
  <2>1. Content(r.b) = IF r.ok THEN Without(Content(b), pos - 1, len) ELSE Content(b)
    BY ONLY <1>2, <1>7 DEF Deleted
  <2>2. PICK C : C = Content(b)
    OBVIOUS
  <2>3. C \in Seq(Byte) /\ pos \in Nat /\ 0 < pos /\ len \in Nat /\ pos + len <= Len(C) + 1
    <3>1. pos \in Nat /\ 0 < pos /\ len \in Nat /\ pos + len <= b.len + 1
      BY ONLY <1>6, MayDelIs
    <3> QED BY ONLY <1>8, <2>2, <3>1
  <2>4. Abs!Remove(C, pos, len) = Without(C, pos - 1, len)
    BY ONLY <2>3, AbsRemoveIs
  <2> QED BY ONLY <2>1, <2>2, <2>4
<1>10. Content(base)' = Content(r.b)
  BY ONLY <1>3
<1>11. Content(base)' = IF call'.ok THEN Abs!Remove(Content(base), call'.pos, call'.len) ELSE Content(base)
  BY ONLY <1>2, <1>5, <1>9, <1>10
<1>12. call'.pos \in 1 .. Len(Content(base))
  BY ONLY <1>2, <1>5, <1>8, pos \in 1 .. base.len
<1> QED BY ONLY <1>5, <1>11, <1>12 DEF Abs!AbsDel

(* A call that only looks, at the string or at spare nodes. *)
LEMMA LookStep ==
  ASSUME NEW ok, Looked(ok), base'.nodes = base.nodes, base'.used = base.used
  PROVE  Abs!AbsLook
<1>1. call'.op = "look"
  <2>1. call' = [op |-> "look", ok |-> ok]
    BY DEF Looked
  <2> QED BY ONLY <2>1
<1>2. Content(base') = Content(base)
  BY ONLY base'.nodes = base.nodes, base'.used = base.used DEF Content
<1>3. Content(base)' = Content(base)
  BY ONLY <1>2
<1> QED BY ONLY <1>1, <1>3 DEF Abs!AbsLook

(* Every step of the list is a step of the string, or none. *)
LEMMA StepImplements ==
  ASSUME IInv, ByRefFits, [Next]_vars
  PROVE  [Abs!AbsNext]_(Abs!absVars)
<1>1. /\ Right(base) /\ IsBase(base)
  BY DEF IInv, InvOf, Right, Shape
<1>2. ASSUME NEW pos \in 0 .. base.len, NEW in \in Inputs, Add(pos, in) PROVE Abs!AbsNext
  <2>1. Abs!AbsAdd
    BY ONLY <1>2, IInv, ByRefFits, AddStep
  <2> QED BY ONLY <2>1 DEF Abs!AbsNext
<1>3. ASSUME NEW pos \in 1 .. base.len, NEW len \in 1 .. base.len - pos + 1, Del(pos, len) PROVE Abs!AbsNext
  <2>1. Abs!AbsDel
    BY ONLY <1>3, IInv, DelStep
  <2> QED BY ONLY <2>1 DEF Abs!AbsNext
<1>4. ASSUME NEW pos \in 1 .. base.len, ExportChr(pos) PROVE Abs!AbsNext
  <2>1. PICK b, f, d : b = base /\ f = BasePos(base, pos) /\ d = CachePos(base, pos, f)
    OBVIOUS
  <2>2. base' = d /\ Looked(TRUE)
    BY <1>4, <2>1 DEF ExportChr
  <2>3. Right(b) /\ pos \in 1 .. b.len /\ pos \in Nat /\ d = CachePos(b, pos, f)
    BY <1>1, <1>4, <2>1
  <2>4. Found(b, pos, BasePos(b, pos))
    BY ONLY <2>3, BasePosIs
  <2>5. Found(b, pos, f)
    BY ONLY <2>1, <2>4
  <2>6. d.nodes = b.nodes /\ d.used = b.used
    BY ONLY <2>3, <2>5, CachePosIs
  <2>7. Abs!AbsLook
    BY ONLY <2>1, <2>2, <2>6, LookStep
  <2> QED BY ONLY <2>7 DEF Abs!AbsNext
<1>5. ASSUME ExportIovec PROVE Abs!AbsNext
  <2>1. /\ base' = IovecFill(IovecAlloc(base, base.num)) \/ base' = [base EXCEPT !.upto = base.vec.sz > 0]
        /\ Looked(TRUE)
    BY <1>5 DEF ExportIovec
  <2>2. /\ Same(base, IovecFill(IovecAlloc(base, base.num)))
        /\ Same(base, [base EXCEPT !.upto = base.vec.sz > 0])
    BY ONLY <1>1, ExportIovecIs
  <2>3. Same(base, base')
    BY ONLY <2>1, <2>2
  <2>4. base'.nodes = base.nodes /\ base'.used = base.used
    BY ONLY <2>3 DEF Same
  <2>5. Abs!AbsLook
    BY ONLY <2>1, <2>4, LookStep
  <2> QED BY ONLY <2>5 DEF Abs!AbsNext
<1>6. ASSUME ExportIovecFails PROVE Abs!AbsNext
  <2>1. /\ base' = base \/ base' = [base EXCEPT !.vec.off = IovecOff(base, base.num)]
        /\ Looked(FALSE)
    BY <1>6 DEF ExportIovecFails
  <2>2. Same(base, base) /\ Same(base, [base EXCEPT !.vec.off = IovecOff(base, base.num)])
    BY ONLY <1>1, SameSelf, ExportIovecIs
  <2>3. Same(base, base')
    BY ONLY <2>1, <2>2
  <2>4. base'.nodes = base.nodes /\ base'.used = base.used
    BY ONLY <2>3 DEF Same
  <2>5. Abs!AbsLook
    BY ONLY <2>1, <2>4, LookStep
  <2> QED BY ONLY <2>5 DEF Abs!AbsNext
<1>7. ASSUME NEW t \in SpareTypes, MakeSpare(t) \/ FreeSpare(t) PROVE Abs!AbsNext
  <2>1. base' = base /\ Looked(TRUE)
    BY <1>7 DEF MakeSpare, FreeSpare
  <2>2. base'.nodes = base.nodes /\ base'.used = base.used
    BY ONLY <2>1
  <2>3. Abs!AbsLook
    BY ONLY <2>1, <2>2, LookStep
  <2> QED BY ONLY <2>3 DEF Abs!AbsNext
<1>8. ASSUME UNCHANGED vars PROVE UNCHANGED Abs!absVars
  <2>1. base' = base /\ call' = call
    BY <1>8 DEF vars
  <2>2. Content(base)' = Content(base)
    BY ONLY <2>1
  <2> QED BY ONLY <2>1, <2>2 DEF Abs!absVars
<1> QED BY <1>2, <1>3, <1>4, <1>5, <1>6, <1>7, <1>8 DEF Next

(* The node list, whatever the size of its nodes, the data that is added,  *)
(* the memory that runs out and the state of the caches, behaves as the    *)
(* plain sequence of bytes of VstrAbs: vstr_add_*() inserts exactly its    *)
(* bytes at its position, vstr_del() removes exactly what it is told to,   *)
(* a call that fails leaves the bytes as they were although it may have    *)
(* split a node, and looking changes nothing.  Data by reference has to    *)
(* fit into a node (ByRefFits), of which add_ptr() and add_ref() compute   *)
(* the second one wrongly.                                                 *)
THEOREM NodesImplement ==
  ASSUME ByRefFits
  PROVE  Spec => RefinesAbs
<1>1. Init => Abs!AbsInit
  <2> SUFFICES ASSUME Init PROVE Abs!AbsInit
    OBVIOUS
  <2>1. base = NewBase /\ call = [op |-> "make", ok |-> TRUE]
    BY DEF Init
  <2>2. Shape(NewBase) /\ NewBase.len = 0 /\ LenIs(NewBase)
    BY NewIs DEF InvOf, Right, NewBase
  <2>3. LenAs(NewBase) = 0
    BY ONLY <2>2, LenAsIs
  <2>4. Content(NewBase) \in Seq(Byte) /\ Len(Content(NewBase)) = 0
    BY ONLY <2>2, <2>3, ContentIs
  <2>5. Content(NewBase) = <<>>
    BY ONLY <2>4
  <2>6. Content(base) = <<>>
    BY ONLY <2>1, <2>5
  <2> QED BY ONLY <2>1, <2>6 DEF Abs!AbsInit
<1>2. IInv /\ [Next]_vars => [Abs!AbsNext]_(Abs!absVars)
  BY ByRefFits, StepImplements
<1> QED BY <1>1, <1>2, IInvHolds, PTL DEF Spec, RefinesAbs, Abs!AbsSpec

=============================================================================
