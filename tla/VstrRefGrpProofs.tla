-------------------------- MODULE VstrRefGrpProofs --------------------------
(***************************************************************************)
(* Proofs about VstrRefGrp, for every number of blocks, every number of    *)
(* slots in a block and every bound on the references to a slot.           *)
(***************************************************************************)
EXTENDS VstrRefGrp, FiniteSetTheorems, WellFoundedInduction, TLAPS

(* What a block that has not been freed looks like: the references agree   *)
(* with the callbacks of the slots, every slot below make_num was written, *)
(* free_num counts the freed ones, and the last slot is in use.            *)
BlockOK(b) ==
  /\ b \in Block
  /\ \A s \in Slots : b.ref[s] > 0 <=> s \in Set(b)
  /\ \A s \in Slots : s < b.make_num => b.func[s] # "uninit"
  /\ b.free_num = Cardinality(Nulls(b))
  /\ b.make_num > 0 => b.make_num - 1 \in Set(b)

(* The inductive invariant: besides the shape of the live blocks, the flag *)
(* tells exactly whether the owner has the block, a block the owner does   *)
(* not have has slots, and no other block than a live one is referred to.  *)
(* It is stated for any heap h, blocks b, parent p and owner o, since the  *)
(* slot that is being released counts as in use (InUse).                   *)
InvOf(h, b, p, o) ==
  /\ h \in [Grp -> {"unused", "live", "freed"}]
  /\ b \in [Grp -> Block]
  /\ p \in Grp \cup {NoGrp}
  /\ o \in BOOLEAN
  /\ \A g \in Grp : h[g] = "live" =>
       /\ BlockOK(b[g])
       /\ b[g].keep = (g = p)
       /\ g # p => b[g].make_num > 0
  /\ \A g \in Grp : h[g] # "live" => \A s \in Slots : b[g].ref[s] = 0
  /\ p # NoGrp => h[p] = "live" /\ o

(* A slot that is being released has no reference any more. *)
RelOK == \/ rel = NoRel
         \/ rel \in [g : Grp, s : Slots, user : BOOLEAN] /\ grp[rel.g].ref[rel.s] = 0

IInv == InvOf(heap, InUse, parent, owner) /\ grp \in [Grp -> Block] /\ RelOK

-----------------------------------------------------------------------------
(* Facts about one block *)

(* The number of slots below n. *)
LEMMA IntervalCard ==
  ASSUME NEW n \in Nat
  PROVE  IsFiniteSet(0 .. n - 1) /\ Cardinality(0 .. n - 1) = n
<1>1. 0 \in Int /\ n - 1 \in Int
  OBVIOUS
<1>2. /\ IsFiniteSet(0 .. n - 1)
      /\ Cardinality(0 .. n - 1) = IF 0 > n - 1 THEN 0 ELSE (n - 1) - 0 + 1
  BY ONLY <1>1, FS_Interval, Zenon
<1> QED
  BY <1>2

(* The freed slots of a block are finitely many, vstr_ref.c:143. *)
LEMMA NullsFinite ==
  ASSUME NEW b \in Block
  PROVE  /\ IsFiniteSet(Nulls(b))
         /\ Cardinality(Nulls(b)) \in 0 .. b.make_num
         /\ Cardinality(Nulls(b)) = b.make_num => Nulls(b) = 0 .. b.make_num - 1
<1>1. b.make_num \in 0 .. MakeSz /\ MakeSz \in Nat
  BY GrpAssumption DEF Block
<1>2. /\ IsFiniteSet(0 .. b.make_num - 1)
      /\ Cardinality(0 .. b.make_num - 1) = b.make_num
  BY <1>1, IntervalCard
<1>3. Nulls(b) \in SUBSET (0 .. b.make_num - 1)
  BY <1>1 DEF Nulls, Slots
<1>4. QED
  BY <1>1, <1>2, <1>3, FS_Subset, FS_CardinalityType

(* A non-empty set of slots has a last one, so the scan of                 *)
(* vstr__ref_cb_free_grp_main() (vstr_ref.c:151-161) ends at it.           *)
LEMMA TopSlot ==
  ASSUME NEW b \in Block, Set(b) # {}
  PROVE  /\ Top(b) \in 1 .. b.make_num
         /\ Top(b) - 1 \in Set(b)
         /\ \A s \in Set(b) : s < Top(b)
<1> DEFINE T == {m \in Nat : \E s \in Set(b) : m = b.make_num - s}
<1>1. b.make_num \in Nat /\ MakeSz \in Nat
  BY GrpAssumption DEF Block
<1>2. \A s \in Set(b) : s \in Nat /\ s < b.make_num
  BY <1>1 DEF Set, Slots
<1>3. T # {} /\ T \subseteq Nat
  BY <1>1, <1>2
<1> DEFINE Less == {ss \in Nat \X Nat : ss[1] < ss[2]}
<1>w. IsWellFoundedOn(Less, Nat)
  BY NatLessThanWellFounded DEF OpToRel
<1>4. PICK m \in T : \A k \in T : ~(<<k, m>> \in Less)
  <2> HIDE DEF T, Less
  <2> QED BY <1>3, <1>w, WFMin
<1>5. \A k \in T : m <= k
  <2> SUFFICES ASSUME NEW k \in T PROVE m <= k
    OBVIOUS
  <2>1. k \in Nat /\ m \in Nat /\ ~(<<k, m>> \in Less)
    BY <1>3, <1>4
  <2> QED BY <2>1
<1>6. PICK s \in Set(b) : m = b.make_num - s
  OBVIOUS
<1>7. \A t \in Set(b) : t <= s
  <2> TAKE t \in Set(b)
  <2>1. b.make_num - t \in T
    BY <1>1, <1>2
  <2> QED
    BY <2>1, <1>1, <1>2, <1>5, <1>6
<1>8. s + 1 \in 1 .. b.make_num /\ (s + 1) - 1 \in Set(b)
      /\ \A t \in Set(b) : t < s + 1
  BY <1>1, <1>2, <1>7
<1> QED
  BY <1>8 DEF Top

(* vstr__ref_grp_make() makes a block in order, without references. *)
LEMMA NewBlockOK ==
  BlockOK(NewBlock) /\ NewBlock.keep = TRUE /\ NewBlock.make_num = 0
<1>1. NewBlock \in Block /\ MakeSz \in Nat
  BY GrpAssumption DEF NewBlock, Block, SlotFunc
<1>2. Set(NewBlock) = {} /\ Nulls(NewBlock) = {}
  BY <1>1 DEF NewBlock, Set, Nulls, Slots
<1>3. Cardinality(Nulls(NewBlock)) = 0
  BY <1>2, FS_EmptySet
<1>4. /\ NewBlock.make_num = 0 /\ NewBlock.free_num = 0 /\ NewBlock.keep = TRUE
      /\ \A s \in Slots : NewBlock.ref[s] = 0 /\ s \in Nat
  BY <1>1 DEF NewBlock, Slots
<1> QED
  BY <1>1, <1>2, <1>3, <1>4 DEF BlockOK

(* vstr__ref_grp_add() of a block with a free slot keeps it in order. *)
LEMMA TakeSlotOK ==
  ASSUME NEW b, BlockOK(b), b.make_num # MakeSz
  PROVE  /\ BlockOK(TakeSlot(b))
         /\ TakeSlot(b).keep = b.keep
         /\ TakeSlot(b).make_num > 0
<1> DEFINE t == TakeSlot(b)
           m == b.make_num
<1>1. b \in Block /\ MakeSz \in Nat /\ MaxRef \in Nat \ {0} /\ m \in 0 .. MakeSz - 1
  BY GrpAssumption DEF BlockOK, Block
<1>2. m \in Slots
  BY <1>1 DEF Slots
<1>3. /\ t.make_num = m + 1 /\ t.free_num = b.free_num /\ t.keep = b.keep
      /\ t.func = [b.func EXCEPT ![m] = "cb"]
      /\ t.ref = [b.ref EXCEPT ![m] = 1]
      /\ t \in Block
  <2>1. [b.func EXCEPT ![m] = "cb"] \in [Slots -> SlotFunc]
    BY <1>1 DEF Block, SlotFunc
  <2>2. [b.ref EXCEPT ![m] = 1] \in [Slots -> 0 .. MaxRef]
    <3>1. b.ref \in [Slots -> 0 .. MaxRef] /\ 1 \in 0 .. MaxRef
      BY <1>1 DEF Block
    <3> QED BY <3>1
  <2>3. m + 1 \in 0 .. MakeSz
    BY <1>1
  <2> QED
    BY <1>1, <2>1, <2>2, <2>3 DEF TakeSlot, Block
<1>4. \A s \in Slots : s \in Nat /\ b.func[s] \in SlotFunc /\ b.ref[s] \in Nat
  BY <1>1 DEF Slots, Block
<1>5. Set(t) = Set(b) \cup {m}
  BY <1>1, <1>2, <1>3, <1>4 DEF Set, Block
<1>6. Nulls(t) = Nulls(b)
  BY <1>1, <1>2, <1>3, <1>4 DEF Nulls, Block
<1>7. \A s \in Slots : t.ref[s] > 0 <=> s \in Set(t)
  BY <1>1, <1>2, <1>3, <1>4, <1>5 DEF BlockOK, Block
<1>8. \A s \in Slots : s < t.make_num => t.func[s] # "uninit"
  BY <1>1, <1>2, <1>3, <1>4 DEF BlockOK, Block
<1> QED
  BY <1>1, <1>3, <1>5, <1>6, <1>7, <1>8 DEF BlockOK

(* A slot whose last reference goes is counted as freed (vstr_ref.c:133-   *)
(* 140), and the two counts meet exactly when no slot is in use any more.  *)
LEMMA NullSlotOK ==
  ASSUME NEW b, BlockOK(b), NEW s \in Set(b)
  PROVE  LET b1 == NullSlot(b, s) IN
         /\ b1 \in Block
         /\ b1.make_num = b.make_num /\ b1.keep = b.keep
         /\ b1.free_num = b.free_num + 1
         /\ b1.free_num = Cardinality(Nulls(b1))
         /\ Set(b1) = Set(b) \ {s}
         /\ \A r \in Slots : b1.ref[r] > 0 <=> r \in Set(b1)
         /\ \A r \in Slots : r < b1.make_num => b1.func[r] # "uninit"
         /\ b1.free_num = b1.make_num <=> Set(b1) = {}
<1> DEFINE b1 == NullSlot(b, s)
<1>1. b \in Block /\ MakeSz \in Nat /\ MaxRef \in Nat \ {0}
      /\ b.make_num \in 0 .. MakeSz /\ b.free_num \in 0 .. MakeSz
  BY GrpAssumption DEF BlockOK, Block
<1>2. s \in Slots /\ s < b.make_num /\ b.func[s] = "cb"
  BY DEF Set
<1>3. \A r \in Slots : r \in Nat /\ b.func[r] \in SlotFunc /\ b.ref[r] \in 0 .. MaxRef
  BY <1>1 DEF Slots, Block
<1>4. /\ b1.make_num = b.make_num /\ b1.keep = b.keep
      /\ b1.free_num = b.free_num + 1
      /\ b1.func = [b.func EXCEPT ![s] = "null"]
      /\ b1.ref = [b.ref EXCEPT ![s] = 0]
  BY <1>1 DEF NullSlot, Block
<1>5. Nulls(b1) = Nulls(b) \cup {s} /\ s \notin Nulls(b)
  BY <1>1, <1>2, <1>3, <1>4 DEF Nulls, Block
<1>6. b1.free_num = Cardinality(Nulls(b1))
  BY <1>1, <1>4, <1>5, NullsFinite, FS_AddElement DEF BlockOK
<1>7. /\ b1.free_num \in 0 .. b.make_num
      /\ b1.free_num = b.make_num => Nulls(b1) = 0 .. b.make_num - 1
  <2>1. IsFiniteSet(0 .. b.make_num - 1) /\ Cardinality(0 .. b.make_num - 1) = b.make_num
    BY <1>1, IntervalCard
  <2>2. Nulls(b1) \in SUBSET (0 .. b.make_num - 1)
    BY <1>1, <1>4 DEF Nulls, Slots
  <2> QED
    BY <2>1, <2>2, <1>1, <1>6, FS_Subset, FS_CardinalityType
<1>8. b1 \in Block
  <2>1. [b.func EXCEPT ![s] = "null"] \in [Slots -> SlotFunc]
    BY <1>1 DEF Block, SlotFunc
  <2>2. [b.ref EXCEPT ![s] = 0] \in [Slots -> 0 .. MaxRef]
    <3>1. b.ref \in [Slots -> 0 .. MaxRef] /\ 0 \in 0 .. MaxRef
      BY <1>1 DEF Block
    <3> QED BY <3>1
  <2>3. b.free_num + 1 \in 0 .. MakeSz
    BY <1>1, <1>4, <1>7
  <2> QED
    BY <1>1, <2>1, <2>2, <2>3 DEF NullSlot, Block
<1>9. Set(b1) = Set(b) \ {s}
  BY <1>1, <1>2, <1>3, <1>4 DEF Set, Block
<1>10. \A r \in Slots : b1.ref[r] > 0 <=> r \in Set(b1)
  BY <1>1, <1>2, <1>3, <1>4, <1>9 DEF BlockOK, Block
<1>11. \A r \in Slots : r < b1.make_num => b1.func[r] # "uninit"
  BY <1>1, <1>2, <1>3, <1>4 DEF BlockOK, Block
<1>12. b1.free_num = b1.make_num => Set(b1) = {}
  BY <1>1, <1>4, <1>7 DEF Set, Nulls, Slots
<1>13. Set(b1) = {} => b1.free_num = b1.make_num
  <2> SUFFICES ASSUME Set(b1) = {} PROVE b1.free_num = b1.make_num
    OBVIOUS
  <2>1. \A r \in Slots : r < b1.make_num => b1.func[r] = "null"
    BY <1>8, <1>11 DEF Set, Block, SlotFunc
  <2>2. Nulls(b1) = 0 .. b.make_num - 1
    BY <2>1, <1>1, <1>4 DEF Nulls, Slots
  <2>3. Cardinality(0 .. b.make_num - 1) = b.make_num
    BY <1>1, IntervalCard
  <2> QED
    BY <2>2, <2>3, <1>4, <1>6
<1> QED
  BY <1>4, <1>6, <1>8, <1>9, <1>10, <1>11, <1>12, <1>13

(* Giving the trailing freed slots back (vstr_ref.c:151-164) leaves a      *)
(* block with slots in use in order.                                       *)
LEMMA ShrinkOK ==
  ASSUME NEW b \in Block, Set(b) # {},
         b.free_num = Cardinality(Nulls(b)),
         \A r \in Slots : b.ref[r] > 0 <=> r \in Set(b),
         \A r \in Slots : r < b.make_num => b.func[r] # "uninit"
  PROVE  /\ BlockOK(Shrink(b))
         /\ Shrink(b).keep = b.keep
         /\ Shrink(b).make_num > 0
<1> DEFINE c == Shrink(b)
           t == Top(b)
           m == b.make_num
<1>1. m \in 0 .. MakeSz /\ b.free_num \in 0 .. MakeSz /\ MakeSz \in Nat
  BY GrpAssumption DEF Block
<1>2. t \in 1 .. m /\ t - 1 \in Set(b) /\ \A s \in Set(b) : s < t
  BY TopSlot
<1>3. /\ c.make_num = t /\ c.free_num = b.free_num - (m - t) /\ c.keep = b.keep
      /\ c.func = b.func /\ c.ref = b.ref
  BY DEF Shrink, Block
<1>4. Set(c) = Set(b)
  BY <1>1, <1>2, <1>3 DEF Set, Slots
<1>5. Nulls(b) = Nulls(c) \cup (t .. m - 1) /\ Nulls(c) \cap (t .. m - 1) = {}
  <2>1. \A s \in t .. m - 1 : s \in Slots /\ s < m /\ s \notin Set(b)
    BY <1>1, <1>2 DEF Slots
  <2>2. \A s \in t .. m - 1 : s \in Nulls(b)
    BY <2>1 DEF Nulls, Set, Block, SlotFunc
  <2> QED
    BY <2>2, <1>1, <1>2, <1>3 DEF Nulls, Slots
<1>6. IsFiniteSet(Nulls(b)) /\ IsFiniteSet(Nulls(c))
  BY <1>5, NullsFinite, FS_Subset
<1>7. IsFiniteSet(t .. m - 1) /\ Cardinality(t .. m - 1) = m - t
  <2>1. t \in Int /\ m - 1 \in Int
    BY <1>1, <1>2
  <2>2. /\ IsFiniteSet(t .. m - 1)
        /\ Cardinality(t .. m - 1) = IF t > m - 1 THEN 0 ELSE (m - 1) - t + 1
    <3> HIDE DEF t, m
    <3> QED BY ONLY <2>1, FS_Interval, Zenon
  <2> QED
    BY <1>1, <1>2, <2>2
<1>8. Cardinality(Nulls(b)) = Cardinality(Nulls(c)) + (m - t) - 0
  <2> DEFINE rest == t .. m - 1
  <2>1. Cardinality(Nulls(c) \cup rest)
          = Cardinality(Nulls(c)) + Cardinality(rest) - Cardinality(Nulls(c) \cap rest)
    <3> HIDE DEF rest
    <3> QED BY <1>6, <1>7, FS_Union DEF rest
  <2> QED
    BY <2>1, <1>5, <1>7, FS_EmptySet
<1>9. c.free_num = Cardinality(Nulls(c)) /\ c.free_num \in 0 .. MakeSz
  BY <1>1, <1>2, <1>3, <1>6, <1>8, FS_CardinalityType
<1>10. c \in Block
  <2>1. t \in 0 .. MakeSz /\ b.free_num - (m - t) \in 0 .. MakeSz
    BY <1>1, <1>2, <1>3, <1>9
  <2> QED
    BY <2>1 DEF Shrink, Block
<1>11. \A r \in Slots : r < c.make_num => c.func[r] # "uninit"
  BY <1>1, <1>2, <1>3 DEF Slots
<1>12. c.make_num > 0 /\ c.make_num - 1 \in Set(c)
  BY <1>1, <1>2, <1>3, <1>4
<1>13. \A r \in Slots : c.ref[r] > 0 <=> r \in Set(c)
  BY <1>3, <1>4
<1> HIDE DEF c
<1>14. BlockOK(c)
  BY <1>9, <1>10, <1>11, <1>12, <1>13 DEF BlockOK
<1> QED
  BY <1>3, <1>12, <1>14 DEF c

(* What vstr__ref_cb_free_grp_main() makes of a block: either it frees it, *)
(* and then nobody refers to it, or it leaves it in order.                 *)
LEMMA FreedSlotOK ==
  ASSUME NEW b, BlockOK(b), NEW s \in Set(b)
  PROVE  /\ FreedSlot(b, s) \in Block
         /\ FreedSlot(b, s).keep = b.keep
         /\ FreesBlock(b) => \A r \in Slots : FreedSlot(b, s).ref[r] = 0
         /\ ~FreesBlock(b) => BlockOK(FreedSlot(b, s))
         /\ ~FreesBlock(b) /\ ~b.keep => FreedSlot(b, s).make_num > 0
<1> DEFINE b1 == NullSlot(b, s)
           f == FreedSlot(b, s)
<1>1. b \in Block /\ b.keep \in BOOLEAN /\ b.free_num \in Nat /\ b.make_num \in Nat
      /\ MakeSz \in Nat
  BY GrpAssumption DEF BlockOK, Block
<1>2. /\ b1 \in Block
      /\ b1.make_num = b.make_num /\ b1.keep = b.keep
      /\ b1.free_num = b.free_num + 1
      /\ b1.free_num = Cardinality(Nulls(b1))
      /\ \A r \in Slots : b1.ref[r] > 0 <=> r \in Set(b1)
      /\ \A r \in Slots : r < b1.make_num => b1.func[r] # "uninit"
      /\ b1.free_num = b1.make_num <=> Set(b1) = {}
  BY NullSlotOK
<1>3. \A r \in Slots : b1.ref[r] \in Nat
  BY <1>2, GrpAssumption DEF Block
<1> HIDE DEF b1
<1>4. CASE b1.free_num # b1.make_num
  <2>1. f = Shrink(b1)
    BY <1>4 DEF FreedSlot, b1
  <2>2. BlockOK(f) /\ f.keep = b1.keep /\ f.make_num > 0
    BY <1>2, <1>4, <2>1, ShrinkOK
  <2>3. ~FreesBlock(b)
    BY <1>2, <1>4 DEF FreesBlock
  <2> QED
    BY <1>2, <2>2, <2>3 DEF BlockOK
<1>5. CASE b1.free_num = b1.make_num /\ b1.keep
  <2>1. f = [b1 EXCEPT !.make_num = 0, !.free_num = 0]
    BY <1>5 DEF FreedSlot, b1
  <2> HIDE DEF f
  <2>z. 0 \in 0 .. MakeSz
    BY <1>1
  <2>2. /\ f \in Block /\ f.keep = b.keep /\ f.make_num = 0 /\ f.free_num = 0
        /\ f.ref = b1.ref
    BY <1>2, <2>1, <2>z DEF Block
  <2>3. Set(f) = {} /\ Nulls(f) = {}
    BY <2>2, <1>1 DEF Set, Nulls, Slots
  <2>4. Cardinality(Nulls(f)) = 0
    BY <2>3, FS_EmptySet
  <2>5. \A r \in Slots : f.ref[r] = 0
    BY <1>2, <1>3, <1>5, <2>2
  <2>6. ~FreesBlock(b) /\ b.keep
    BY <1>2, <1>5 DEF FreesBlock
  <2>7. \A r \in Slots : ~(r < 0)
    BY <1>1 DEF Slots
  <2>8. BlockOK(f)
    BY <2>2, <2>3, <2>4, <2>5, <2>7 DEF BlockOK
  <2> QED
    BY <2>2, <2>6, <2>8 DEF f
<1>6. CASE b1.free_num = b1.make_num /\ ~b1.keep
  <2>1. f = b1
    BY <1>6 DEF FreedSlot, b1
  <2>2. FreesBlock(b)
    BY <1>2, <1>6 DEF FreesBlock
  <2>3. \A r \in Slots : f.ref[r] = 0
    BY <1>2, <1>3, <1>6, <2>1
  <2> QED
    BY <1>2, <2>1, <2>2, <2>3
<1> QED
  BY <1>4, <1>5, <1>6

-----------------------------------------------------------------------------
(* Facts about the operations *)

(* Changing the count of a slot in use, vstr_ref_add() or vstr_ref_del(),  *)
(* leaves the block in order.                                              *)
LEMMA CountOK ==
  ASSUME NEW b, BlockOK(b), NEW s \in Slots, b.ref[s] > 0, NEW n \in 1 .. MaxRef
  PROVE  /\ BlockOK([b EXCEPT !.ref[s] = n])
         /\ [b EXCEPT !.ref[s] = n] \in Block
         /\ [b EXCEPT !.ref[s] = n].keep = b.keep
         /\ [b EXCEPT !.ref[s] = n].make_num = b.make_num
<1> DEFINE c == [b EXCEPT !.ref[s] = n]
<1>1. b \in Block /\ MaxRef \in Nat
  BY GrpAssumption DEF BlockOK
<1>2. [b.ref EXCEPT ![s] = n] \in [Slots -> 0 .. MaxRef]
  <2>1. b.ref \in [Slots -> 0 .. MaxRef] /\ n \in 0 .. MaxRef
    BY <1>1 DEF Block
  <2> QED BY <2>1
<1>3. /\ c \in Block /\ c.keep = b.keep /\ c.make_num = b.make_num
      /\ c.free_num = b.free_num /\ c.func = b.func
      /\ c.ref = [b.ref EXCEPT ![s] = n]
  BY <1>1, <1>2 DEF Block
<1>4. Set(c) = Set(b) /\ Nulls(c) = Nulls(b)
  BY <1>3 DEF Set, Nulls
<1>5. \A r \in Slots : c.ref[r] > 0 <=> r \in Set(c)
  BY <1>1, <1>3, <1>4 DEF BlockOK, Block
<1> HIDE DEF c
<1>6. BlockOK(c)
  BY <1>3, <1>4, <1>5 DEF BlockOK
<1> QED
  BY <1>3, <1>6 DEF c

(* vstr__ref_grp_free() of the owner's block: nothing that is referred to  *)
(* is freed, and what stays belongs to its slots.                          *)
LEMMA GiveUpOK ==
  ASSUME NEW h, NEW b, NEW p, NEW o, NEW o2 \in BOOLEAN, InvOf(h, b, p, o)
  PROVE  /\ InvOf(RefGrpFreeHeap(h, b, p), RefGrpFreeBlock(b, p), NoGrp, o2)
         /\ \A g \in Grp : RefGrpFreeBlock(b, p)[g].ref = b[g].ref
<1> DEFINE h1 == RefGrpFreeHeap(h, b, p)
           b1 == RefGrpFreeBlock(b, p)
<1>0. NoGrp \notin Grp
  BY GrpAssumption
<1>1. CASE p = NoGrp
  <2>1. h1 = h /\ b1 = b
    BY <1>1 DEF RefGrpFreeHeap, RefGrpFreeBlock
  <2> QED
    BY <1>0, <1>1, <2>1 DEF InvOf
<1>2. CASE p # NoGrp /\ b[p].make_num = 0
  <2>1. h1 = [h EXCEPT ![p] = "freed"] /\ b1 = b
    BY <1>2 DEF RefGrpFreeHeap, RefGrpFreeBlock
  <2>2. p \in Grp /\ BlockOK(b[p])
    BY <1>2 DEF InvOf
  <2>3. \A s \in Slots : b[p].ref[s] = 0
    <3>1. Set(b[p]) = {}
      BY <1>2, GrpAssumption DEF Set, Slots
    <3>2. \A s \in Slots : b[p].ref[s] \in Nat
      BY <2>2, GrpAssumption DEF InvOf, Block
    <3> QED
      BY <3>1, <3>2, <2>2 DEF BlockOK
  <2>4. \A g \in Grp : h1[g] = IF g = p THEN "freed" ELSE h[g]
    BY <2>1, <2>2 DEF InvOf
  <2>5. h1 \in [Grp -> {"unused", "live", "freed"}]
    BY <2>1, <2>2 DEF InvOf
  <2> HIDE DEF h1, b1
  <2>6. \A g \in Grp : h1[g] = "live" =>
          BlockOK(b1[g]) /\ b1[g].keep = (g = NoGrp) /\ (g # NoGrp => b1[g].make_num > 0)
    BY <1>0, <2>1, <2>4 DEF InvOf
  <2>7. \A g \in Grp : h1[g] # "live" => \A s \in Slots : b1[g].ref[s] = 0
    BY <2>1, <2>3, <2>4 DEF InvOf
  <2>8. InvOf(h1, b1, NoGrp, o2)
    BY <2>1, <2>5, <2>6, <2>7 DEF InvOf
  <2> QED
    BY <2>1, <2>8 DEF h1, b1
<1>3. CASE p # NoGrp /\ b[p].make_num # 0
  <2>1. h1 = h /\ b1 = [b EXCEPT ![p].keep = FALSE]
    BY <1>3 DEF RefGrpFreeHeap, RefGrpFreeBlock
  <2>2. p \in Grp /\ BlockOK(b[p]) /\ b \in [Grp -> Block]
    BY <1>3 DEF InvOf
  <2> DEFINE c == [b[p] EXCEPT !.keep = FALSE]
  <2>3. /\ c \in Block /\ c.make_num = b[p].make_num /\ c.free_num = b[p].free_num
        /\ c.func = b[p].func /\ c.ref = b[p].ref /\ c.keep = FALSE
    BY <2>2 DEF Block
  <2>4. \A g \in Grp : b1[g] = IF g = p THEN c ELSE b[g]
    BY <2>1, <2>2
  <2>5. b1 \in [Grp -> Block]
    BY <2>1, <2>2, <2>3
  <2> HIDE DEF h1, b1, c
  <2>6. BlockOK(c) /\ c.make_num > 0
    <3>1. Set(c) = Set(b[p]) /\ Nulls(c) = Nulls(b[p])
      BY <2>3 DEF Set, Nulls
    <3>2. b[p].make_num \in Nat
      BY <2>2, GrpAssumption DEF Block
    <3> QED
      BY <1>3, <2>2, <2>3, <3>1, <3>2 DEF BlockOK
  <2>7. \A g \in Grp : h1[g] = "live" =>
          BlockOK(b1[g]) /\ b1[g].keep = (g = NoGrp) /\ (g # NoGrp => b1[g].make_num > 0)
    BY <1>0, <2>1, <2>3, <2>4, <2>6 DEF InvOf
  <2>8. \A g \in Grp : b1[g].ref = b[g].ref
    BY <2>3, <2>4
  <2>r. \A g \in Grp : h1[g] # "live" => \A s \in Slots : b1[g].ref[s] = 0
    BY <2>1, <2>8 DEF InvOf
  <2>t. h1 \in [Grp -> {"unused", "live", "freed"}]
    BY <2>1 DEF InvOf
  <2>9. InvOf(h1, b1, NoGrp, o2)
    BY ONLY <2>t, <2>5, <2>7, <2>r, o2 \in BOOLEAN DEF InvOf
  <2> QED
    BY <2>8, <2>9 DEF h1, b1
<1> QED
  BY <1>1, <1>2, <1>3

(* The rest of vstr__ref_cb_free_grp_main(), whatever its callback did. *)
LEMMA FreeSlotOK ==
  ASSUME NEW h, NEW b, NEW p, NEW o, InvOf(h, b, p, o),
         NEW g \in Grp, NEW s \in Slots, b[g].ref[s] = 1
  PROVE  InvOf(IF FreesBlock(b[g]) THEN [h EXCEPT ![g] = "freed"] ELSE h,
               [b EXCEPT ![g] = FreedSlot(@, s)], p, o)
<1> DEFINE h1 == IF FreesBlock(b[g]) THEN [h EXCEPT ![g] = "freed"] ELSE h
           c  == FreedSlot(b[g], s)
           b1 == [b EXCEPT ![g] = c]
<1>1. h[g] = "live" /\ BlockOK(b[g]) /\ s \in Set(b[g])
  BY DEF InvOf, BlockOK
<1>2. /\ c \in Block
      /\ c.keep = b[g].keep
      /\ FreesBlock(b[g]) => \A r \in Slots : c.ref[r] = 0
      /\ ~FreesBlock(b[g]) => BlockOK(c)
      /\ ~FreesBlock(b[g]) /\ ~b[g].keep => c.make_num > 0
  BY <1>1, FreedSlotOK
<1>3. FreesBlock(b[g]) => ~b[g].keep
  BY DEF FreesBlock
<1>4. b[g].keep = (g = p) /\ p \in Grp \cup {NoGrp} /\ o \in BOOLEAN
  BY <1>1 DEF InvOf
<1> HIDE DEF c
<1>5. /\ h1 \in [Grp -> {"unused", "live", "freed"}]
      /\ b1 \in [Grp -> Block]
      /\ \A k \in Grp : b1[k] = IF k = g THEN c ELSE b[k]
      /\ \A k \in Grp : h1[k] = IF k = g /\ FreesBlock(b[g]) THEN "freed" ELSE h[k]
  BY <1>2 DEF InvOf
<1> HIDE DEF h1, b1
<1>6. \A k \in Grp : h1[k] = "live" =>
        BlockOK(b1[k]) /\ b1[k].keep = (k = p) /\ (k # p => b1[k].make_num > 0)
  <2> SUFFICES ASSUME NEW k \in Grp, h1[k] = "live"
      PROVE BlockOK(b1[k]) /\ b1[k].keep = (k = p) /\ (k # p => b1[k].make_num > 0)
    OBVIOUS
  <2>1. CASE k # g
    BY <1>5, <2>1 DEF InvOf
  <2>2. CASE k = g
    <3>1. ~FreesBlock(b[g]) /\ b1[g] = c
      BY <1>5, <2>2
    <3> QED
      BY <1>2, <1>4, <2>2, <3>1
  <2> QED
    BY <2>1, <2>2
<1>7. \A k \in Grp : h1[k] # "live" => \A r \in Slots : b1[k].ref[r] = 0
  <2> SUFFICES ASSUME NEW k \in Grp, h1[k] # "live", NEW r \in Slots
      PROVE b1[k].ref[r] = 0
    OBVIOUS
  <2>1. CASE k # g
    BY <1>5, <2>1 DEF InvOf
  <2>2. CASE k = g
    <3>1. FreesBlock(b[g]) /\ b1[g] = c
      BY <1>1, <1>5, <2>2
    <3> QED
      BY <1>2, <2>2, <3>1
  <2> QED
    BY <2>1, <2>2
<1>8. p # NoGrp => h1[p] = "live" /\ o
  <2>1. FreesBlock(b[g]) => g # p
    BY <1>3, <1>4
  <2> QED
    BY <1>4, <1>5, <2>1 DEF InvOf
<1>9. InvOf(h1, b1, p, o)
  BY <1>4, <1>5, <1>6, <1>7, <1>8 DEF InvOf
<1> QED
  BY <1>9 DEF h1, b1, c

-----------------------------------------------------------------------------
(* The slot that is being released *)

Held(b, s) == [b EXCEPT !.ref[s] = 1]

LEMMA HeldIs ==
  ASSUME NEW b \in Block, NEW s \in Slots
  PROVE  /\ Held(b, s) \in Block
         /\ Held(b, s).make_num = b.make_num /\ Held(b, s).free_num = b.free_num
         /\ Held(b, s).keep = b.keep /\ Held(b, s).func = b.func
         /\ Held(b, s).ref = [b.ref EXCEPT ![s] = 1]
         /\ \A r \in Slots : Held(b, s).ref[r] = IF r = s THEN 1 ELSE b.ref[r]
<1>1. MaxRef \in Nat \ {0}
  BY GrpAssumption
<1>2. [b.ref EXCEPT ![s] = 1] \in [Slots -> 0 .. MaxRef]
  <2>1. b.ref \in [Slots -> 0 .. MaxRef] /\ 1 \in 0 .. MaxRef
    BY <1>1 DEF Block
  <2> QED BY <2>1
<1>3. \A r \in Slots : [b.ref EXCEPT ![s] = 1][r] = IF r = s THEN 1 ELSE b.ref[r]
  BY DEF Block
<1>4. Held(b, s).ref = [b.ref EXCEPT ![s] = 1]
  BY DEF Block, Held
<1> QED BY <1>2, <1>3, <1>4 DEF Block, Held

(* What is in use, one block after the other. *)
LEMMA InUseIs ==
  ASSUME grp \in [Grp -> Block], RelOK
  PROVE  /\ NoRel.g \notin Grp
         /\ rel = NoRel => InUse = grp
         /\ rel # NoRel => /\ rel.g \in Grp /\ rel.s \in Slots
                           /\ InUse = [grp EXCEPT ![rel.g] = Held(grp[rel.g], rel.s)]
         /\ InUse \in [Grp -> Block]
<1>1. NoRel.g \notin Grp
  BY GrpAssumption DEF NoRel
<1>2. rel = NoRel => InUse = grp
  BY DEF InUse
<1>3. ASSUME rel # NoRel
      PROVE  /\ rel.g \in Grp /\ rel.s \in Slots
             /\ InUse = [grp EXCEPT ![rel.g] = Held(grp[rel.g], rel.s)]
             /\ InUse \in [Grp -> Block]
  <2>1. rel.g \in Grp /\ rel.s \in Slots
    BY <1>3 DEF RelOK
  <2>2. InUse = [grp EXCEPT ![rel.g] = Held(grp[rel.g], rel.s)]
    BY <1>3 DEF InUse, Held
  <2>3. Held(grp[rel.g], rel.s) \in Block
    BY <2>1, HeldIs
  <2> QED BY <2>1, <2>2, <2>3
<1> QED BY <1>1, <1>2, <1>3

(* The accounting does not look at the counts. *)
LEMMA FreedHeld ==
  ASSUME NEW b \in Block, NEW s \in Slots, NEW t \in Slots
  PROVE  /\ FreesBlock(Held(b, t)) = FreesBlock(b)
         /\ FreedSlot(Held(b, s), s) = FreedSlot(b, s)
         /\ t # s => FreedSlot(Held(b, t), s) = Held(FreedSlot(b, s), t)
<1> DEFINE n == NullSlot(b, s)
           h == NullSlot(Held(b, t), s)
           w == NullSlot(Held(b, s), s)
<1>1. /\ Held(b, t) = [b EXCEPT !.ref = [b.ref EXCEPT ![t] = 1]]
      /\ Held(b, s) = [b EXCEPT !.ref = [b.ref EXCEPT ![s] = 1]]
      /\ b.func \in [Slots -> SlotFunc] /\ b.ref \in [Slots -> 0 .. MaxRef]
  BY DEF Held, Block
<1>2. FreesBlock(Held(b, t)) = FreesBlock(b)
  <2>1. /\ Held(b, t).free_num = b.free_num /\ Held(b, t).make_num = b.make_num
        /\ Held(b, t).keep = b.keep
    BY HeldIs
  <2> QED BY ONLY <2>1, Zenon DEF FreesBlock
<1>3. n = [b EXCEPT !.func = [b.func EXCEPT ![s] = "null"], !.ref = [b.ref EXCEPT ![s] = 0],
                    !.free_num = b.free_num + 1]
  BY DEF NullSlot
<1>4. /\ w = n
      /\ t # s => h = Held(n, t)
  <2>1. w = n
    <3>1. [[b.ref EXCEPT ![s] = 1] EXCEPT ![s] = 0] = [b.ref EXCEPT ![s] = 0]
      BY <1>1
    <3> QED BY <1>1, <3>1 DEF NullSlot, Block
  <2>2. ASSUME t # s PROVE h = Held(n, t)
    <3>1. [[b.ref EXCEPT ![t] = 1] EXCEPT ![s] = 0] = [[b.ref EXCEPT ![s] = 0] EXCEPT ![t] = 1]
      BY <1>1, <2>2
    <3> QED BY <1>1, <3>1 DEF NullSlot, Block, Held
  <2> QED BY <2>1, <2>2
<1>5. /\ n.make_num = b.make_num /\ n.free_num = b.free_num + 1 /\ n.keep = b.keep
      /\ n.func = [b.func EXCEPT ![s] = "null"] /\ n.ref = [b.ref EXCEPT ![s] = 0]
      /\ DOMAIN n = {"make_num", "free_num", "keep", "func", "ref"}
  BY <1>3 DEF Block
<1>6. ASSUME t # s PROVE FreedSlot(Held(b, t), s) = Held(FreedSlot(b, s), t)
  <2>1. /\ h.make_num = n.make_num /\ h.free_num = n.free_num /\ h.keep = n.keep
        /\ h.func = n.func
    BY <1>4, <1>5, <1>6 DEF Held
  <2>2. Top(h) = Top(n)
    BY <2>1 DEF Top, Set
  <2>4. ASSUME NEW m, NEW c
        PROVE  [h EXCEPT !.make_num = m, !.free_num = c] = Held([n EXCEPT !.make_num = m, !.free_num = c], t)
    <3> HIDE DEF n, h
    <3> QED BY <1>4, <1>5, <1>6 DEF Held
  <2>3. Shrink(h) = Held(Shrink(n), t)
    <3>1. PICK a, c : a = Top(n) /\ c = n.free_num - (n.make_num - Top(n))
      OBVIOUS
    <3>2. Shrink(h) = [h EXCEPT !.make_num = a, !.free_num = c]
      BY <2>1, <2>2, <3>1 DEF Shrink
    <3>3. Shrink(n) = [n EXCEPT !.make_num = a, !.free_num = c]
      BY <3>1 DEF Shrink
    <3> HIDE DEF n, h
    <3>4. [h EXCEPT !.make_num = a, !.free_num = c] = Held([n EXCEPT !.make_num = a, !.free_num = c], t)
      BY ONLY <2>4, Zenon
    <3> QED BY ONLY <3>2, <3>3, <3>4, Zenon
  <2>5. /\ FreedSlot(Held(b, t), s) = CASE h.free_num # h.make_num -> Shrink(h)
             [] h.free_num = h.make_num /\ h.keep -> [h EXCEPT !.make_num = 0, !.free_num = 0]
             [] OTHER -> h
        /\ FreedSlot(b, s) = CASE n.free_num # n.make_num -> Shrink(n)
             [] n.free_num = n.make_num /\ n.keep -> [n EXCEPT !.make_num = 0, !.free_num = 0]
             [] OTHER -> n
    BY DEF FreedSlot
  <2>6. h = Held(n, t)
    BY <1>4, <1>6
  <2> HIDE DEF n, h
  <2>7. CASE n.free_num # n.make_num
    BY <2>1, <2>3, <2>5, <2>7
  <2>8. CASE n.free_num = n.make_num /\ n.keep
    <3>1. [h EXCEPT !.make_num = 0, !.free_num = 0] = Held([n EXCEPT !.make_num = 0, !.free_num = 0], t)
      BY ONLY <2>4, Zenon
    <3> QED BY <2>1, <2>5, <2>8, <3>1
  <2>9. CASE n.free_num = n.make_num /\ ~n.keep
    BY <2>1, <2>5, <2>6, <2>9
  <2> QED BY <2>7, <2>8, <2>9
<1>7. FreedSlot(Held(b, s), s) = FreedSlot(b, s)
  BY <1>4 DEF FreedSlot
<1> QED BY <1>2, <1>6, <1>7

(* What it makes of the block and of the counts of the other slots. *)
LEMMA FreedRef ==
  ASSUME NEW b \in Block, NEW s \in Slots, NEW t \in Slots, t # s
  PROVE  FreedSlot(b, s).ref[t] = b.ref[t]
<1>1. PICK n : n = NullSlot(b, s)
  OBVIOUS
<1>2. n.ref[t] = b.ref[t]
  BY <1>1 DEF NullSlot, Block
<1>3. Shrink(n).ref = n.ref /\ [n EXCEPT !.make_num = 0, !.free_num = 0].ref = n.ref
  BY <1>1 DEF Shrink, NullSlot, Block
<1>4. FreedSlot(b, s) \in {n, Shrink(n), [n EXCEPT !.make_num = 0, !.free_num = 0]}
  BY <1>1 DEF FreedSlot
<1> QED BY <1>2, <1>3, <1>4

LEMMA FreedType ==
  ASSUME NEW b \in Block, NEW s \in Slots, NEW t \in Slots, t # s,
         FreedSlot(Held(b, t), s) \in Block
  PROVE  FreedSlot(b, s) \in Block
<1>1. PICK f : f = FreedSlot(b, s)
  OBVIOUS
<1>2. Held(f, t) \in Block
  BY <1>1, FreedHeld
<1>3. PICK u, x : u = [b.func EXCEPT ![s] = "null"] /\ x = [b.ref EXCEPT ![s] = 0]
  OBVIOUS
<1>4. x \in [Slots -> 0 .. MaxRef] /\ u \in [Slots -> SlotFunc]
  <2>1. b.ref \in [Slots -> 0 .. MaxRef] /\ 0 \in 0 .. MaxRef
    BY GrpAssumption DEF Block
  <2>2. b.func \in [Slots -> SlotFunc] /\ "null" \in SlotFunc
    BY DEF Block, SlotFunc
  <2> QED BY <1>3, <2>1, <2>2
<1>5. PICK m, c : f = [b EXCEPT !.make_num = m, !.free_num = c, !.func = u, !.ref = x]
  <2>1. PICK n, z : n = NullSlot(b, s) /\ z = b.free_num + 1
    OBVIOUS
  <2>2. n = [b EXCEPT !.make_num = b.make_num, !.free_num = z, !.func = u, !.ref = x]
    BY <1>3, <2>1 DEF NullSlot, Block
  <2>4. f \in {n, Shrink(n), [n EXCEPT !.make_num = 0, !.free_num = 0]}
    BY <1>1, <2>1 DEF FreedSlot
  <2>5. PICK a, d : a = Top(n) /\ d = n.free_num - (n.make_num - Top(n))
    OBVIOUS
  <2>6. Shrink(n) = [n EXCEPT !.make_num = a, !.free_num = d]
    BY <2>5 DEF Shrink
  <2>7. [n EXCEPT !.make_num = a, !.free_num = d]
        = [b EXCEPT !.make_num = a, !.free_num = d, !.func = u, !.ref = x]
    BY <2>2 DEF Block
  <2>8. [n EXCEPT !.make_num = 0, !.free_num = 0]
        = [b EXCEPT !.make_num = 0, !.free_num = 0, !.func = u, !.ref = x]
    BY <2>2 DEF Block
  <2>9. CASE f = n
    BY <2>2, <2>9
  <2>10. CASE f = Shrink(n)
    BY ONLY <2>6, <2>7, <2>10, Zenon
  <2>11. CASE f = [n EXCEPT !.make_num = 0, !.free_num = 0]
    BY ONLY <2>8, <2>11, Zenon
  <2> QED BY ONLY <2>4, <2>9, <2>10, <2>11, Zenon
<1>6. m \in 0 .. MakeSz /\ c \in 0 .. MakeSz
  <2>1. Held(f, t).make_num = m /\ Held(f, t).free_num = c
    BY <1>5 DEF Held, Block
  <2> QED BY <1>2, <2>1 DEF Block
<1> QED BY ONLY <1>1, <1>4, <1>5, <1>6, b \in Block DEF Block

-----------------------------------------------------------------------------
(* The invariant *)

(* A conf starts without a block and without references (vstr_make_conf(),  *)
(* vstr.c:436-525), which satisfies the inductive invariant.                *)
LEMMA InitInv == Init => IInv
<1> SUFFICES ASSUME Init PROVE IInv
  OBVIOUS
<1>1. NewBlock \in Block /\ \A s \in Slots : NewBlock.ref[s] = 0
  <2>1. NewBlock \in Block
    BY NewBlockOK DEF BlockOK
  <2> QED
    BY <2>1 DEF NewBlock
<1> QED
  BY <1>1 DEF Init, IInv, InvOf, RelOK, InUse

(* Taking a slot (vstr_ref.c:220-251). *)
LEMMA AddInv ==
  ASSUME InvOf(heap, grp, parent, owner), RefGrpAdd
  PROVE  InvOf(heap', grp', parent', owner') /\ grp' \in [Grp -> Block]
<1>1. /\ parent \in Grp /\ heap[parent] = "live" /\ BlockOK(grp[parent])
      /\ grp[parent].make_num # MakeSz /\ grp[parent].keep = TRUE /\ grp \in [Grp -> Block]
  BY GrpAssumption DEF RefGrpAdd, NeedsBlock, InvOf
<1> DEFINE c == TakeSlot(grp[parent])
<1>2. BlockOK(c) /\ c.keep = TRUE /\ c.make_num > 0 /\ c \in Block
  BY <1>1, TakeSlotOK DEF BlockOK
<1> HIDE DEF c
<1>3. grp' = [grp EXCEPT ![parent] = c] /\ UNCHANGED <<heap, parent, owner>>
  BY DEF RefGrpAdd, c
<1>4. grp' \in [Grp -> Block] /\ \A k \in Grp : grp'[k] = IF k = parent THEN c ELSE grp[k]
  BY <1>1, <1>2, <1>3
<1> QED
  BY <1>1, <1>2, <1>3, <1>4 DEF InvOf

(* Taking the first one of a new block. *)
LEMMA AddBlockInv ==
  ASSUME InvOf(heap, grp, parent, owner), NEW g \in Grp, RefGrpAddBlock(g)
  PROVE  InvOf(heap', grp', parent', owner') /\ grp' \in [Grp -> Block]
<1> DEFINE h1 == RefGrpFreeHeap(heap, grp, parent)
           b1 == RefGrpFreeBlock(grp, parent)
           c  == TakeSlot(NewBlock)
<1>0. NoGrp \notin Grp /\ heap \in [Grp -> {"unused", "live", "freed"}]
  BY GrpAssumption DEF InvOf
<1>1. InvOf(h1, b1, NoGrp, owner)
  <2>1. owner \in BOOLEAN
    BY DEF InvOf
  <2> HIDE DEF h1, b1
  <2> QED BY <2>1, GiveUpOK, Zenon DEF h1, b1
<1>2. BlockOK(c) /\ c.keep = TRUE /\ c.make_num > 0 /\ c \in Block
  BY NewBlockOK, TakeSlotOK, GrpAssumption DEF BlockOK
<1>3. heap[g] = "unused" /\ g # parent /\ g # NoGrp /\ owner
  BY <1>0 DEF RefGrpAddBlock, InvOf
<1>4. /\ heap' = [h1 EXCEPT ![g] = "live"]
      /\ \A k \in Grp : heap'[k] = IF k = g THEN "live" ELSE h1[k]
  BY <1>0, <1>1, <1>3 DEF RefGrpAddBlock, RefGrpFreeHeap, InvOf
<1>5. grp' = [b1 EXCEPT ![g] = c] /\ parent' = g /\ owner' = owner
  BY DEF RefGrpAddBlock
<1> HIDE DEF h1, b1, c
<1>6. /\ heap' \in [Grp -> {"unused", "live", "freed"}]
      /\ grp' \in [Grp -> Block]
      /\ \A k \in Grp : grp'[k] = IF k = g THEN c ELSE b1[k]
  BY <1>1, <1>2, <1>4, <1>5 DEF InvOf
<1>7. \A k \in Grp : heap'[k] = "live" =>
        BlockOK(grp'[k]) /\ grp'[k].keep = (k = g) /\ (k # g => grp'[k].make_num > 0)
  BY <1>0, <1>1, <1>2, <1>4, <1>6, ZenonT(40) DEF InvOf
<1>8. \A k \in Grp : heap'[k] # "live" => \A s \in Slots : grp'[k].ref[s] = 0
  BY <1>1, <1>4, <1>6 DEF InvOf
<1>9. heap'[g] = "live" /\ owner \in BOOLEAN
  BY <1>1, <1>4 DEF InvOf
<1> QED
  BY <1>3, <1>5, <1>6, <1>7, <1>8, <1>9 DEF InvOf

(* Another count of a slot in use, while b are in use. *)
LEMMA CountInv ==
  ASSUME NEW h, NEW b, NEW p, NEW o, InvOf(h, b, p, o),
         NEW g \in Grp, NEW s \in Slots, NEW n \in 1 .. MaxRef, b[g].ref[s] > 0
  PROVE  InvOf(h, [b EXCEPT ![g] = [b[g] EXCEPT !.ref[s] = n]], p, o)
<1>0. /\ b \in [Grp -> Block] /\ MaxRef \in Nat
      /\ \A k \in Grp, r \in Slots : b[k].ref[r] \in 0 .. MaxRef
  BY GrpAssumption DEF InvOf, Block
<1>1. h[g] = "live" /\ BlockOK(b[g])
  BY <1>0 DEF InvOf
<1>2. PICK c : c = [b[g] EXCEPT !.ref[s] = n]
  OBVIOUS
<1>3. BlockOK(c) /\ c \in Block /\ c.keep = b[g].keep /\ c.make_num = b[g].make_num
  BY <1>1, <1>2, CountOK
<1>4. PICK d : d = [b EXCEPT ![g] = c]
  OBVIOUS
<1>5. d \in [Grp -> Block] /\ \A k \in Grp : d[k] = IF k = g THEN c ELSE b[k]
  BY <1>0, <1>3, <1>4
<1>6. InvOf(h, d, p, o)
  BY <1>1, <1>3, <1>5 DEF InvOf
<1> QED BY <1>2, <1>4, <1>6

(* vstr_ref_add() and vstr_ref_del(), also by the user's functions while   *)
(* another slot is being released.                                         *)
LEMMA RefCountInv ==
  ASSUME IInv, NEW g \in Grp, NEW s \in Slots, NEW n \in 1 .. MaxRef, grp[g].ref[s] > 0,
         grp' = [grp EXCEPT ![g] = [grp[g] EXCEPT !.ref[s] = n]],
         UNCHANGED <<heap, parent, owner, rel>>
  PROVE  IInv'
<1>1. PICK c : c = [grp[g] EXCEPT !.ref[s] = n]
  OBVIOUS
<1>2. /\ grp \in [Grp -> Block] /\ RelOK /\ InvOf(heap, InUse, parent, owner)
      /\ grp[g] \in Block /\ MaxRef \in Nat
  BY GrpAssumption DEF IInv
<1>3. c \in Block /\ c.ref = [grp[g].ref EXCEPT ![s] = n]
  <2>1. [grp[g].ref EXCEPT ![s] = n] \in [Slots -> 0 .. MaxRef]
    <3>1. grp[g].ref \in [Slots -> 0 .. MaxRef] /\ n \in 0 .. MaxRef
      BY <1>2 DEF Block
    <3> QED BY <3>1
  <2> QED BY <1>1, <1>2, <2>1 DEF Block
<1>4. grp' = [grp EXCEPT ![g] = c] /\ grp' \in [Grp -> Block]
  BY <1>1, <1>2, <1>3
<1>5. RelOK'
  <2>1. CASE rel = NoRel
    BY <2>1 DEF RelOK
  <2>2. CASE rel # NoRel
    <3>1. rel \in [g : Grp, s : Slots, user : BOOLEAN] /\ grp[rel.g].ref[rel.s] = 0
      BY <1>2, <2>2 DEF RelOK
    <3>2. ~(rel.g = g /\ rel.s = s) /\ rel.g \in Grp /\ rel.s \in Slots
      BY <3>1
    <3>3. grp'[rel.g].ref[rel.s] = grp[rel.g].ref[rel.s]
      <4>1. CASE rel.g # g
        BY <1>2, <1>4, <3>2, <4>1
      <4>2. CASE rel.g = g
        <5>1. rel.s # s /\ grp'[g] = c
          BY <1>2, <1>4, <3>2, <4>2
        <5> QED BY <1>3, <3>2, <4>2, <5>1
      <4> QED BY <4>1, <4>2
    <3> QED BY <3>1, <3>3 DEF RelOK
  <2> QED BY <2>1, <2>2
<1>6. InUse[g].ref[s] > 0 /\ InUse' = [InUse EXCEPT ![g] = [InUse[g] EXCEPT !.ref[s] = n]]
  <2>1. CASE rel = NoRel
    <3>1. InUse = grp
      BY <1>2, <2>1, InUseIs
    <3>2. InUse' = grp'
      BY <2>1 DEF InUse
    <3> QED BY <1>1, <1>4, <3>1, <3>2
  <2>2. CASE rel # NoRel
    <3>1. PICK k, t : k = rel.g /\ t = rel.s
      OBVIOUS
    <3>2. k \in Grp /\ t \in Slots /\ grp[k].ref[t] = 0 /\ ~(k = g /\ t = s)
      BY <1>2, <2>2, <3>1 DEF RelOK
    <3>3. InUse = [grp EXCEPT ![k] = Held(grp[k], t)] /\ InUse' = [grp' EXCEPT ![k] = Held(grp'[k], t)]
      BY <2>2, <3>1 DEF InUse, Held
    <3>4. CASE k # g
      BY ONLY <1>1, <1>2, <1>4, <3>2, <3>3, <3>4, grp[g].ref[s] > 0
    <3>5. CASE k = g
      <4>1. t # s
        BY <3>2, <3>5
      <4>2. PICK u : u = Held(grp[g], t)
        OBVIOUS
      <4>3. u \in Block /\ u.ref = [grp[g].ref EXCEPT ![t] = 1] /\ u = [grp[g] EXCEPT !.ref[t] = 1]
        BY <1>2, <3>2, <4>2, HeldIs DEF Held
      <4>4. InUse[g] = u /\ u.ref[s] = grp[g].ref[s]
        BY <1>2, <3>3, <3>5, <4>1, <4>2, <4>3 DEF Block
      <4>5. Held(c, t) = [u EXCEPT !.ref[s] = n]
        <5>1. [[grp[g].ref EXCEPT ![s] = n] EXCEPT ![t] = 1] = [[grp[g].ref EXCEPT ![t] = 1] EXCEPT ![s] = n]
          BY <1>2, <4>1 DEF Block
        <5> QED BY <1>1, <1>2, <1>3, <4>3, <5>1 DEF Held, Block
      <4>6. InUse' = [grp EXCEPT ![g] = Held(c, t)] /\ InUse = [grp EXCEPT ![g] = u]
        BY <1>2, <1>4, <3>3, <3>5, <4>2
      <4> QED BY <1>2, <4>4, <4>5, <4>6
    <3> QED BY <3>4, <3>5
  <2> QED BY <2>1, <2>2
<1>7. InvOf(heap, InUse', parent, owner)
  BY <1>2, <1>6, CountInv
<1> QED BY <1>4, <1>5, <1>7 DEF IInv

(* A release begins: for its block the slot stays in use. *)
LEMMA RefDelLastInv ==
  ASSUME IInv, NEW g \in Grp, NEW s \in Slots, RefDelLast(g, s)
  PROVE  IInv'
<1>1. /\ grp \in [Grp -> Block] /\ RelOK /\ InvOf(heap, InUse, parent, owner)
      /\ grp[g] \in Block /\ rel = NoRel /\ InUse = grp /\ NoRel.g \notin Grp
      /\ MaxRef \in Nat /\ grp[g].ref[s] = 1
  BY GrpAssumption, InUseIs DEF IInv, RefDelLast
<1>2. PICK c : c = [grp[g] EXCEPT !.ref[s] = 0]
  OBVIOUS
<1>3. /\ grp' = [grp EXCEPT ![g] = c] /\ rel' = [g |-> g, s |-> s, user |-> FALSE]
      /\ UNCHANGED <<heap, parent, owner>>
  BY <1>2 DEF RefDelLast
<1>4. c \in Block /\ c.ref = [grp[g].ref EXCEPT ![s] = 0]
  <2>1. [grp[g].ref EXCEPT ![s] = 0] \in [Slots -> 0 .. MaxRef]
    <3>1. grp[g].ref \in [Slots -> 0 .. MaxRef] /\ 0 \in 0 .. MaxRef
      BY <1>1 DEF Block
    <3> QED BY <3>1
  <2> QED BY <1>1, <1>2, <2>1 DEF Block
<1>5. /\ grp' \in [Grp -> Block] /\ grp'[g] = c /\ c.ref[s] = 0
      /\ rel' \in [g : Grp, s : Slots, user : BOOLEAN] /\ rel'.g = g /\ rel'.s = s
      /\ rel' # NoRel
  BY <1>1, <1>3, <1>4 DEF Block
<1>6. Held(c, s) = grp[g]
  <2>1. [[grp[g].ref EXCEPT ![s] = 0] EXCEPT ![s] = 1] = grp[g].ref
    BY <1>1 DEF Block
  <2> QED BY <1>1, <1>2, <1>4, <2>1 DEF Held, Block
<1>7. InUse' = [grp' EXCEPT ![g] = Held(c, s)]
  BY <1>5 DEF InUse, Held
<1>8. InUse' = grp
  BY <1>1, <1>3, <1>6, <1>7
<1> QED BY <1>1, <1>3, <1>5, <1>8 DEF IInv, RelOK

(* The conf is freed, by its user or by the callback of a slot. *)
LEMMA GiveUpInv ==
  ASSUME IInv, GiveUp, rel'.g = rel.g, rel'.s = rel.s,
         rel = NoRel => rel' = NoRel,
         rel # NoRel => rel' \in [g : Grp, s : Slots, user : BOOLEAN] /\ rel' # NoRel
  PROVE  IInv'
<1>1. /\ grp \in [Grp -> Block] /\ RelOK /\ InvOf(heap, InUse, parent, owner) /\ NoGrp \notin Grp
      /\ parent \in Grp \cup {NoGrp}
  BY GrpAssumption DEF IInv, InvOf
<1>2. /\ heap' = RefGrpFreeHeap(heap, grp, parent) /\ grp' = RefGrpFreeBlock(grp, parent)
      /\ parent' = NoGrp /\ owner' = FALSE
  BY DEF GiveUp
<1>3. /\ grp' \in [Grp -> Block] /\ \A g \in Grp : grp'[g].ref = grp[g].ref
  BY <1>1, <1>2 DEF RefGrpFreeBlock, Block
<1>4. /\ RefGrpFreeHeap(heap, InUse, parent) = heap'
      /\ RefGrpFreeBlock(InUse, parent) = InUse'
  <2>1. CASE rel = NoRel
    <3>1. InUse = grp /\ InUse' = grp'
      BY <2>1 DEF InUse
    <3> QED BY <1>2, <3>1
  <2>2. CASE rel # NoRel
    <3>1. PICK k, t : k = rel.g /\ t = rel.s
      OBVIOUS
    <3>2. PICK u : u = Held(grp[k], t)
      OBVIOUS
    <3>3. /\ k \in Grp /\ t \in Slots /\ InUse = [grp EXCEPT ![k] = u]
          /\ InUse' = [grp' EXCEPT ![k] = Held(grp'[k], t)]
      BY <1>1, <2>2, <3>1, <3>2 DEF InUse, Held, RelOK
    <3>4. u \in Block /\ u.make_num = grp[k].make_num
      BY <1>1, <3>2, <3>3, HeldIs
    <3>5. \A g \in Grp : InUse[g].make_num = grp[g].make_num
      BY <1>1, <3>3, <3>4
    <3>6. RefGrpFreeHeap(heap, InUse, parent) = heap'
      BY <1>1, <1>2, <3>5 DEF RefGrpFreeHeap
    <3>7. CASE parent # NoGrp /\ grp[parent].make_num # 0
      <4>1. /\ RefGrpFreeBlock(InUse, parent) = [InUse EXCEPT ![parent] = [InUse[parent] EXCEPT !.keep = FALSE]]
            /\ grp' = [grp EXCEPT ![parent] = [grp[parent] EXCEPT !.keep = FALSE]]
        BY <1>1, <1>2, <3>5, <3>7 DEF RefGrpFreeBlock
      <4>2. CASE k # parent
        <5>1. PICK c : c = [grp[parent] EXCEPT !.keep = FALSE]
          OBVIOUS
        <5>2. /\ parent \in Grp /\ InUse[parent] = grp[parent] /\ grp'[k] = grp[k]
              /\ grp' = [grp EXCEPT ![parent] = c]
          BY <1>1, <3>3, <3>7, <4>1, <4>2, <5>1
        <5>3. /\ RefGrpFreeBlock(InUse, parent) = [[grp EXCEPT ![k] = u] EXCEPT ![parent] = c]
              /\ InUse' = [[grp EXCEPT ![parent] = c] EXCEPT ![k] = u]
          BY <3>2, <3>3, <4>1, <5>1, <5>2
        <5>4. [[grp EXCEPT ![k] = u] EXCEPT ![parent] = c] = [[grp EXCEPT ![parent] = c] EXCEPT ![k] = u]
          BY <1>1, <3>3, <4>2, <5>2
        <5> QED BY <3>6, <5>3, <5>4
      <4>3. CASE k = parent
        <5>1. PICK c, d : c = [grp[k] EXCEPT !.keep = FALSE] /\ d = [u EXCEPT !.keep = FALSE]
          OBVIOUS
        <5>2. Held(c, t) = d
          BY <1>1, <3>2, <3>3, <5>1 DEF Held, Block
        <5>3. InUse[k] = u /\ grp' = [grp EXCEPT ![k] = c] /\ grp'[k] = c
          BY <1>1, <3>3, <4>1, <4>3, <5>1
        <5>4. /\ RefGrpFreeBlock(InUse, parent) = [[grp EXCEPT ![k] = u] EXCEPT ![k] = d]
              /\ InUse' = [[grp EXCEPT ![k] = c] EXCEPT ![k] = d]
          BY ONLY ZenonT(30), <3>3, <4>1, <4>3, <5>1, <5>2, <5>3
        <5>5. [[grp EXCEPT ![k] = u] EXCEPT ![k] = d] = [[grp EXCEPT ![k] = c] EXCEPT ![k] = d]
          BY <1>1, <3>3
        <5> QED BY <3>6, <5>4, <5>5
      <4> QED BY <3>6, <4>2, <4>3
    <3>8. CASE ~(parent # NoGrp /\ grp[parent].make_num # 0)
      <4>1. RefGrpFreeBlock(InUse, parent) = InUse /\ grp' = grp
        BY <1>1, <1>2, <3>5, <3>8 DEF RefGrpFreeBlock
      <4> QED BY <3>2, <3>3, <3>6, <4>1
    <3> QED BY <3>6, <3>7, <3>8
  <2> QED BY <2>1, <2>2
<1>5. InvOf(heap', InUse', NoGrp, FALSE)
  <2>1. PICK b : b = InUse
    OBVIOUS
  <2>2. ASSUME NEW o2 \in BOOLEAN
        PROVE  InvOf(RefGrpFreeHeap(heap, b, parent), RefGrpFreeBlock(b, parent), NoGrp, o2)
    BY <1>1, <2>1, GiveUpOK, Zenon
  <2>3. InvOf(RefGrpFreeHeap(heap, b, parent), RefGrpFreeBlock(b, parent), NoGrp, FALSE)
    BY <2>2
  <2> QED BY <1>4, <2>1, <2>3
<1>6. RelOK'
  <2>1. CASE rel = NoRel
    BY <2>1 DEF RelOK
  <2>2. CASE rel # NoRel
    BY <1>1, <1>3, <2>2 DEF RelOK
  <2> QED BY <2>1, <2>2
<1> QED BY <1>2, <1>3, <1>5, <1>6 DEF IInv

(* Its callback has returned, and the slot is accounted for. *)
LEMMA RefDelEndInv ==
  ASSUME IInv, RefDelEnd
  PROVE  IInv'
<1>1. /\ grp \in [Grp -> Block] /\ RelOK /\ InvOf(heap, InUse, parent, owner) /\ rel # NoRel
  BY DEF IInv, RefDelEnd
<1>2. PICK g, s : g = rel.g /\ s = rel.s
  OBVIOUS
<1>3. /\ g \in Grp /\ s \in Slots /\ grp[g] \in Block
      /\ InUse = [grp EXCEPT ![g] = Held(grp[g], s)]
  BY <1>1, <1>2, InUseIs
<1>4. /\ grp' = [grp EXCEPT ![g] = FreedSlot(grp[g], s)] /\ parent' = parent /\ owner' = owner
      /\ heap' = IF FreesBlock(grp[g]) THEN [heap EXCEPT ![g] = "freed"] ELSE heap
      /\ rel' = NoRel
  BY <1>2 DEF RefDelEnd, FreeSlot
<1>5. PICK u, b : u = Held(grp[g], s) /\ b = InUse
  OBVIOUS
<1>6. b[g] = u /\ b[g].ref[s] = 1 /\ InvOf(heap, b, parent, owner)
  <2>1. u.ref[s] = 1
    BY <1>3, <1>5, HeldIs
  <2> QED BY <1>1, <1>3, <1>5, <2>1
<1>7. FreesBlock(u) = FreesBlock(grp[g]) /\ FreedSlot(u, s) = FreedSlot(grp[g], s)
  BY <1>3, <1>5, FreedHeld
<1>8. [b EXCEPT ![g] = FreedSlot(@, s)] = grp'
  BY <1>1, <1>3, <1>4, <1>5, <1>6, <1>7
<1>9. InvOf(IF FreesBlock(b[g]) THEN [heap EXCEPT ![g] = "freed"] ELSE heap,
            [b EXCEPT ![g] = FreedSlot(@, s)], parent, owner)
  BY <1>3, <1>6, FreeSlotOK
<1>10. InvOf(heap', grp', parent', owner')
  BY <1>4, <1>6, <1>7, <1>8, <1>9
<1>11. InUse' = grp' /\ RelOK' /\ grp' \in [Grp -> Block]
  BY <1>4, <1>10 DEF InUse, RelOK, InvOf
<1> QED BY <1>10, <1>11 DEF IInv

(* A release of another slot in between. *)
LEMMA RefDelNestedInv ==
  ASSUME IInv, NEW g \in Grp, NEW s \in Slots, RefDelNested(g, s)
  PROVE  IInv'
<1>1. /\ grp \in [Grp -> Block] /\ RelOK /\ InvOf(heap, InUse, parent, owner)
      /\ rel.user /\ rel # NoRel /\ grp[g].ref[s] = 1 /\ grp[g] \in Block
  BY DEF IInv, RefDelNested, NoRel
<1>2. PICK k, t : k = rel.g /\ t = rel.s
  OBVIOUS
<1>3. /\ k \in Grp /\ t \in Slots /\ grp[k].ref[t] = 0 /\ ~(k = g /\ t = s)
      /\ InUse = [grp EXCEPT ![k] = Held(grp[k], t)] /\ InUse \in [Grp -> Block]
  BY <1>1, <1>2, InUseIs DEF RelOK
<1>4. /\ grp' = [grp EXCEPT ![g] = FreedSlot(grp[g], s)] /\ UNCHANGED <<parent, owner, rel>>
      /\ heap' = IF FreesBlock(grp[g]) THEN [heap EXCEPT ![g] = "freed"] ELSE heap
  BY DEF RefDelNested, FreeSlot
<1>5. InUse' = [grp' EXCEPT ![k] = Held(grp'[k], t)]
  BY <1>1, <1>2, <1>4 DEF InUse, Held
<1>6. PICK b : b = InUse
  OBVIOUS
<1>7. /\ b[g].ref[s] = 1 /\ FreesBlock(b[g]) = FreesBlock(grp[g])
      /\ [b EXCEPT ![g] = FreedSlot(b[g], s)] = InUse'
  <2>1. CASE k # g
    BY ONLY <1>1, <1>3, <1>4, <1>5, <1>6, <2>1
  <2>2. CASE k = g
    <3>1. t # s /\ b[g] = Held(grp[g], t) /\ grp'[g] = FreedSlot(grp[g], s)
      BY <1>1, <1>3, <1>4, <1>6, <2>2
    <3>2. /\ FreesBlock(b[g]) = FreesBlock(grp[g])
          /\ FreedSlot(b[g], s) = Held(FreedSlot(grp[g], s), t)
      BY <1>1, <1>3, <3>1, FreedHeld
    <3>3. b[g].ref[s] = 1
      <4>1. PICK a : a = grp[g]
        OBVIOUS
      <4>2. a \in Block /\ t \in Slots /\ s \in Slots
        BY <1>1, <1>3, <4>1
      <4>3. Held(a, t).ref[s] = IF s = t THEN 1 ELSE a.ref[s]
        BY ONLY ZenonT(30), <4>2, HeldIs
      <4> QED BY <1>1, <3>1, <4>1, <4>3
    <3>4. PICK x, y : x = FreedSlot(grp[g], s) /\ y = Held(x, t)
      OBVIOUS
    <3>5. /\ grp' = [grp EXCEPT ![g] = x] /\ InUse' = [grp' EXCEPT ![g] = y]
          /\ b = [grp EXCEPT ![g] = Held(grp[g], t)] /\ FreedSlot(b[g], s) = y
      BY <1>3, <1>4, <1>5, <1>6, <2>2, <3>1, <3>2, <3>4
    <3>6. [b EXCEPT ![g] = y] = InUse'
      BY ONLY <1>1, <3>5
    <3> QED BY <3>2, <3>3, <3>5, <3>6
  <2> QED BY <2>1, <2>2
<1>8. InvOf(IF FreesBlock(b[g]) THEN [heap EXCEPT ![g] = "freed"] ELSE heap,
            [b EXCEPT ![g] = FreedSlot(@, s)], parent, owner)
  BY <1>1, <1>6, <1>7, FreeSlotOK
<1>9. InvOf(heap', InUse', parent', owner')
  BY <1>4, <1>7, <1>8
<1>10. FreedSlot(grp[g], s) \in Block
  <2>1. /\ b \in [Grp -> Block] /\ heap[g] = "live" /\ BlockOK(b[g]) /\ s \in Set(b[g])
    BY <1>1, <1>3, <1>6, <1>7 DEF InvOf, BlockOK
  <2>2. FreedSlot(b[g], s) \in Block
    BY <2>1, FreedSlotOK
  <2>3. CASE k # g
    BY <1>1, <1>3, <1>6, <2>2, <2>3
  <2>4. CASE k = g
    <3>1. FreedSlot(b[g], s) = Held(FreedSlot(grp[g], s), t) /\ t # s
      BY <1>1, <1>3, <1>6, <2>4, FreedHeld
    <3>2. FreedSlot(Held(grp[g], t), s) \in Block
      BY <1>1, <1>3, <1>6, <2>2, <2>4
    <3> QED BY <1>1, <1>3, <3>1, <3>2, FreedType
  <2> QED BY <2>3, <2>4
<1>11. grp' \in [Grp -> Block]
  BY <1>1, <1>4, <1>10
<1>12. grp'[k].ref[t] = 0
  <2>1. CASE k # g
    BY <1>1, <1>3, <1>4, <2>1
  <2>2. CASE k = g
    <3>1. t # s /\ grp'[k] = FreedSlot(grp[g], s)
      BY <1>1, <1>3, <1>4, <2>2
    <3> QED BY <1>1, <1>3, <2>2, <3>1, FreedRef
  <2> QED BY <2>1, <2>2
<1> QED BY <1>1, <1>2, <1>4, <1>9, <1>11, <1>12 DEF IInv, RelOK

(* Every operation on the groups, taking a slot, dropping one, re-entrantly *)
(* or not, and giving the group up (vstr_ref.c:128-251), keeps it.          *)
LEMMA NextInv == IInv /\ [Next]_vars => IInv'
<1> SUFFICES ASSUME IInv, [Next]_vars PROVE IInv'
  OBVIOUS
<1>0. /\ grp \in [Grp -> Block] /\ RelOK /\ InvOf(heap, InUse, parent, owner) /\ MaxRef \in Nat
      /\ \A g \in Grp, s \in Slots : grp[g].ref[s] \in 0 .. MaxRef
  BY GrpAssumption DEF IInv, Block
<1>1. ASSUME rel = NoRel, rel' = NoRel, InvOf(heap', grp', parent', owner'), grp' \in [Grp -> Block]
      PROVE  IInv'
  BY <1>1 DEF IInv, RelOK, InUse
<1>2. CASE RefGrpAdd
  <2>1. rel = NoRel /\ rel' = NoRel /\ InUse = grp
    BY <1>2 DEF RefGrpAdd, InUse
  <2> QED BY <1>0, <1>1, <1>2, <2>1, AddInv
<1>3. ASSUME NEW g \in Grp, RefGrpAddBlock(g) PROVE IInv'
  <2>1. rel = NoRel /\ rel' = NoRel /\ InUse = grp
    BY <1>3 DEF RefGrpAddBlock, InUse
  <2> QED BY <1>0, <1>1, <1>3, <2>1, AddBlockInv
<1>4. ASSUME NEW g \in Grp, NEW s \in Slots, RefAdd(g, s) PROVE IInv'
  <2>1. /\ grp[g].ref[s] > 0 /\ grp[g].ref[s] + 1 \in 1 .. MaxRef
        /\ grp' = [grp EXCEPT ![g] = [grp[g] EXCEPT !.ref[s] = grp[g].ref[s] + 1]]
        /\ UNCHANGED <<heap, parent, owner, rel>>
    BY <1>0, <1>4 DEF RefAdd
  <2> QED
    BY <2>1, RefCountInv
<1>5. ASSUME NEW g \in Grp, NEW s \in Slots, RefDel(g, s) PROVE IInv'
  <2>1. /\ grp[g].ref[s] > 0 /\ grp[g].ref[s] - 1 \in 1 .. MaxRef
        /\ grp' = [grp EXCEPT ![g] = [grp[g] EXCEPT !.ref[s] = grp[g].ref[s] - 1]]
        /\ UNCHANGED <<heap, parent, owner, rel>>
    BY <1>0, <1>5 DEF RefDel
  <2> QED
    BY <2>1, RefCountInv
<1>6. CASE OwnerFree
  <2>1. rel' = rel /\ GiveUp /\ rel = NoRel
    BY <1>6 DEF OwnerFree
  <2> QED BY <2>1, GiveUpInv
<1>7. CASE CbDelConf
  <2>1. GiveUp /\ rel # NoRel /\ rel' = [rel EXCEPT !.user = TRUE]
    BY <1>7 DEF CbDelConf
  <2>2. rel \in [g : Grp, s : Slots, user : BOOLEAN] /\ NoGrp \notin Grp
    BY <1>0, <2>1, GrpAssumption DEF RelOK
  <2>3. /\ rel'.g = rel.g /\ rel'.s = rel.s /\ rel' \in [g : Grp, s : Slots, user : BOOLEAN]
        /\ rel' # NoRel
    BY <2>1, <2>2 DEF NoRel
  <2> QED BY <2>1, <2>3, GiveUpInv
<1>8. CASE UNCHANGED vars
  BY <1>8 DEF vars, InvOf, IInv, RelOK, InUse
<1> QED
  BY <1>2, <1>3, <1>4, <1>5, <1>6, <1>7, <1>8, RefDelLastInv, RefDelEndInv, RefDelNestedInv DEF Next

(* Every behaviour keeps the inductive invariant. *)
THEOREM Invariance == Spec => []IInv
<1>1. Init => IInv
  BY InitInv
<1>2. IInv /\ [Next]_vars => IInv'
  BY NextInv
<1> QED
  BY <1>1, <1>2, PTL DEF Spec

(* The state of the reference groups keeps its type; in particular no      *)
(* count of slots (vstr_ref.c:128-165) leaves the block.                   *)
THEOREM TypeCorrect == Spec => []TypeOK
<1>1. IInv => TypeOK
  BY DEF IInv, InvOf, TypeOK, RelOK
<1> QED
  BY <1>1, Invariance, PTL

(* A reference somebody holds never points into a freed block, however the *)
(* owner's and the holders' releases interleave (vstr_ref.c:128-218).      *)
THEOREM NoDangling == Spec => []NoDanglingRef
<1>1. IInv => NoDanglingRef
  BY DEF IInv, InvOf, NoDanglingRef
<1> QED
  BY <1>1, Invariance, PTL

(* No block is leaked: the owner has it, or one of its slots is in use     *)
(* and will free it (vstr_ref.c:142-147, 202-218).                         *)
THEOREM Leakless == Spec => []NoLeak
<1>1. IInv => NoLeak
  <2> SUFFICES ASSUME IInv, NEW g \in Grp, heap[g] = "live", g # parent
               PROVE  \E s \in Slots : InUse[g].ref[s] > 0
    BY DEF NoLeak
  <2>1. BlockOK(InUse[g]) /\ InUse[g].make_num > 0
    BY DEF IInv, InvOf
  <2>2. InUse[g].make_num - 1 \in Set(InUse[g])
    BY <2>1 DEF BlockOK
  <2> QED
    BY <2>1, <2>2 DEF BlockOK, Set
<1> QED
  BY <1>1, Invariance, PTL

(* The counts of a block agree with its slots, and the scan for trailing   *)
(* freed slots always meets one in use (vstr_ref.c:149-164).               *)
THEOREM AccountingHolds == Spec => []Accounting
<1>1. IInv => Accounting
  BY DEF IInv, InvOf, BlockOK, Accounting
<1> QED
  BY <1>1, Invariance, PTL

(* A block that was freed is not written again, by the accounting after    *)
(* parent->func() (vstr_ref.c:137-164) or by anybody else: each write is   *)
(* to a block that has a reference or that the owner has, which is live.   *)
THEOREM FreedUntouched == Spec => FreedNeverWritten
<1> DEFINE Kept(g) == heap'[g] = "freed" /\ grp'[g] = grp[g]
<1>1. ASSUME IInv, Next, NEW g \in Grp, heap[g] = "freed" PROVE Kept(g)
  <2>1. /\ heap \in [Grp -> {"unused", "live", "freed"}]
        /\ grp \in [Grp -> Block] /\ NoGrp \notin Grp
        /\ g # parent /\ parent \in Grp \cup {NoGrp}
        /\ \A s \in Slots : InUse[g].ref[s] = 0
        /\ RelOK
    BY <1>1, GrpAssumption DEF IInv, InvOf
  <2>2. /\ \A s \in Slots : grp[g].ref[s] = 0
        /\ rel # NoRel => rel.g # g
    <3>1. CASE rel = NoRel
      BY <2>1, <3>1 DEF InUse
    <3>2. CASE rel # NoRel
      <4>1. rel.g \in Grp /\ rel.s \in Slots /\ InUse = [grp EXCEPT ![rel.g] = Held(grp[rel.g], rel.s)]
        BY <2>1, <3>2, InUseIs
      <4>2. Held(grp[rel.g], rel.s).ref[rel.s] = 1
        <5>1. PICK a, t : a = grp[rel.g] /\ t = rel.s
          OBVIOUS
        <5>2. a \in Block /\ t \in Slots
          BY <2>1, <4>1, <5>1
        <5>3. Held(a, t).ref[t] = IF t = t THEN 1 ELSE a.ref[t]
          BY <5>2, HeldIs
        <5> QED BY <5>1, <5>3
      <4>3. rel.g # g
        BY <2>1, <4>1, <4>2
      <4> QED BY <2>1, <4>1, <4>3
    <3> QED BY <3>1, <3>2
  <2>3. /\ RefGrpFreeHeap(heap, grp, parent)[g] = heap[g]
        /\ RefGrpFreeHeap(heap, grp, parent) \in [Grp -> {"unused", "live", "freed"}]
        /\ RefGrpFreeBlock(grp, parent)[g] = grp[g]
        /\ DOMAIN RefGrpFreeBlock(grp, parent) = Grp
    BY <2>1 DEF RefGrpFreeHeap, RefGrpFreeBlock
  <2>4. CASE RefGrpAdd
    BY <1>1, <2>1, <2>4 DEF RefGrpAdd
  <2>5. ASSUME NEW k \in Grp, RefGrpAddBlock(k) PROVE Kept(g)
    <3>1. k # g
      BY <1>1, <2>5 DEF RefGrpAddBlock
    <3>2. heap'[g] = "freed"
      BY <1>1, <2>1, <2>5, <3>1 DEF RefGrpAddBlock, RefGrpFreeHeap
    <3>3. grp'[g] = grp[g]
      BY <2>1, <2>3, <2>5, <3>1 DEF RefGrpAddBlock
    <3> QED
      BY <3>2, <3>3
  <2>6. ASSUME NEW k \in Grp, NEW s \in Slots, RefAdd(k, s) \/ RefDel(k, s) \/ RefDelLast(k, s)
        PROVE  Kept(g)
    <3>1. k # g
      BY <2>2, <2>6 DEF RefAdd, RefDel, RefDelLast
    <3> QED
      BY <1>1, <2>1, <2>6, <3>1 DEF RefAdd, RefDel, RefDelLast
  <2>7. ASSUME NEW k, NEW s, k # g, FreeSlot(k, s) PROVE Kept(g)
    BY <1>1, <2>1, <2>7 DEF FreeSlot
  <2>8. CASE RefDelEnd
    BY <2>2, <2>7, <2>8 DEF RefDelEnd
  <2>9. ASSUME NEW k \in Grp, NEW s \in Slots, RefDelNested(k, s) PROVE Kept(g)
    BY <2>2, <2>7, <2>9 DEF RefDelNested
  <2>10. CASE OwnerFree \/ CbDelConf
    BY <1>1, <2>3, <2>10 DEF OwnerFree, CbDelConf, GiveUp
  <2> QED
    BY <1>1, <2>4, <2>5, <2>6, <2>8, <2>9, <2>10 DEF Next
<1>2. IInv /\ [Next]_vars =>
        [\A g \in Grp : heap[g] = "freed" =>
           heap'[g] = "freed" /\ grp'[g] = grp[g]]_vars
  BY <1>1
<1> QED
  BY <1>2, Invariance, PTL DEF Spec, FreedNeverWritten

=============================================================================
