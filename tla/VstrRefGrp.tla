----------------------------- MODULE VstrRefGrp -----------------------------
(***************************************************************************)
(* Groups of references (src/vstr_ref.c).  vstr__ref_grp_make() allocates  *)
(* one block that holds VSTR__REF_GRP_MAKE_SZ Vstr_ref slots; the owner (a *)
(* Vstr_conf, through conf->ref_grp_ptr or conf->ref_grp_buf2ref) hands    *)
(* the slots out one after the other.  A block has no count of its own:    *)
(* make_num, free_num and the flag VSTR__FLAG_REF_GRP_REF together decide  *)
(* when the slot that is freed last, or the owner, frees the block.        *)
(*                                                                         *)
(* A slot's callback runs the group's own function first, and for the      *)
(* buf2ref group that function may drop the last reference to the conf,    *)
(* which gives up the very group whose slot is being freed (re-entrancy).  *)
(***************************************************************************)
EXTENDS Integers, FiniteSets

CONSTANTS Grp,      \* the blocks malloc() can return; a freed one is not reused
          NoGrp,    \* the NULL pointer
          MakeSz,   \* VSTR__REF_GRP_MAKE_SZ (42 in the code)
          MaxRef    \* bound: references held to one slot

ASSUME GrpAssumption ==
  /\ NoGrp \notin Grp
  /\ MakeSz \in Nat \ {0}
  /\ MaxRef \in Nat \ {0}

VARIABLES heap,     \* state of each block: "unused", "live" or "freed"
          grp,      \* contents of each block
          parent,   \* conf->ref_grp_ptr / conf->ref_grp_buf2ref
          owner,    \* is the conf alive?
          rel       \* the slot whose callback runs, and may it run user code?

vars == <<heap, grp, parent, owner, rel>>

Slots == 0 .. MakeSz - 1

(* A slot's func: never written, the group callback, or NULL once freed. *)
SlotFunc == {"uninit", "cb", "null"}

Block == [make_num : 0 .. MakeSz, free_num : 0 .. MakeSz, keep : BOOLEAN,
          func : [Slots -> SlotFunc], ref : [Slots -> 0 .. MaxRef]]

(* vstr__ref_grp_make(): keep is VSTR__FLAG_REF_GRP_REF. *)
NewBlock == [make_num |-> 0, free_num |-> 0, keep |-> TRUE,
             func |-> [s \in Slots |-> "uninit"], ref |-> [s \in Slots |-> 0]]

(* No callback is running. *)
NoRel == [g |-> NoGrp, s |-> 0, user |-> FALSE]

Init ==
  /\ heap = [g \in Grp |-> "unused"]
  /\ grp = [g \in Grp |-> NewBlock]
  /\ parent = NoGrp
  /\ owner = TRUE
  /\ rel = NoRel

-----------------------------------------------------------------------------
(* Mutant: the owner's block is freed although slots of it are in use. *)
RefGrpFreeHeapMutant(h, b, g) ==
  IF g # NoGrp THEN [h EXCEPT ![g] = "freed"] ELSE h

(* Mutant: it is freed when no slot of it has a reference any more. *)
RefGrpFreeHeapByRef(h, b, g) ==
  IF g # NoGrp /\ \A s \in Slots : b[g].ref[s] = 0 THEN [h EXCEPT ![g] = "freed"] ELSE h

(* Mutant: a block that is given up keeps the flag. *)
RefGrpFreeBlockMutant(b, g) == b

(* vstr__ref_grp_free(): what giving up block g does to g and to the heap. *)
RefGrpFreeHeap(h, b, g) ==
  IF g # NoGrp /\ b[g].make_num = 0 THEN [h EXCEPT ![g] = "freed"] ELSE h

RefGrpFreeBlock(b, g) ==
  IF g # NoGrp /\ b[g].make_num # 0 THEN [b EXCEPT ![g].keep = FALSE] ELSE b

(* A new reference to the next slot of a block. *)
TakeSlot(b) ==
  [b EXCEPT !.make_num = @ + 1,
            !.func[b.make_num] = "cb",
            !.ref[b.make_num] = 1]

(* Mutant: an off by one in the test that the current block is full. *)
NeedsBlockMutant == parent \in Grp => grp[parent].make_num > MakeSz

NeedsBlock == parent \in Grp => grp[parent].make_num = MakeSz

(* vstr__ref_grp_add() when the current block has a free slot. *)
RefGrpAdd ==
  /\ owner /\ rel = NoRel
  /\ ~NeedsBlock
  /\ grp' = [grp EXCEPT ![parent] = TakeSlot(@)]
  /\ UNCHANGED <<heap, parent, owner, rel>>

(* vstr__ref_grp_add() when there is none: the callers make the first      *)
(* block, vstr__ref_grp_add() the following ones, giving up the full one.  *)
(* When malloc() fails nothing changes.                                    *)
RefGrpAddBlock(g) ==
  /\ owner /\ rel = NoRel
  /\ NeedsBlock
  /\ heap[g] = "unused"
  /\ heap' = RefGrpFreeHeap([heap EXCEPT ![g] = "live"], grp, parent)
  /\ grp' = [RefGrpFreeBlock(grp, parent) EXCEPT ![g] = TakeSlot(NewBlock)]
  /\ parent' = g
  /\ UNCHANGED <<owner, rel>>

(* References are used between the calls of the library, and by the user's *)
(* functions that vstr__del_conf() calls.                                  *)
UserRuns == rel = NoRel \/ rel.user

(* vstr_ref_add() on a reference somebody holds. *)
RefAdd(g, s) ==
  /\ UserRuns
  /\ grp[g].ref[s] \in 1 .. MaxRef - 1
  /\ grp' = [grp EXCEPT ![g].ref[s] = @ + 1]
  /\ UNCHANGED <<heap, parent, owner, rel>>

(* vstr_ref_del() that is not the last one. *)
RefDel(g, s) ==
  /\ UserRuns
  /\ grp[g].ref[s] > 1
  /\ grp' = [grp EXCEPT ![g].ref[s] = @ - 1]
  /\ UNCHANGED <<heap, parent, owner, rel>>

(* The last vstr_ref_del() of a slot: its count is 0 before its callback,  *)
(* vstr__ref_cb_free_grp_main(), calls parent->func().                     *)
RefDelLast(g, s) ==
  /\ rel = NoRel
  /\ grp[g].ref[s] = 1
  /\ grp' = [grp EXCEPT ![g].ref[s] = 0]
  /\ rel' = [g |-> g, s |-> s, user |-> FALSE]
  /\ UNCHANGED <<heap, parent, owner>>

(* The slots below make_num whose func is still set. *)
Set(b) == {s \in Slots : s < b.make_num /\ b.func[s] = "cb"}

(* Those that were freed. *)
Nulls(b) == {s \in Slots : s < b.make_num /\ b.func[s] = "null"}

(* The end of the slots in use. *)
Top(b) == CHOOSE n \in 1 .. b.make_num :
            n - 1 \in Set(b) /\ \A s \in Set(b) : s < n

(* Mutant: trailing freed slots are given back, and still counted. *)
ShrinkMutant(b) == [b EXCEPT !.make_num = Top(b)]

(* The scan that ends vstr__ref_cb_free_grp_main(): trailing freed slots   *)
(* are given back to the block, so that make_num ends at a slot in use.    *)
Shrink(b) ==
  [b EXCEPT !.make_num = Top(b), !.free_num = @ - (b.make_num - Top(b))]

(* The block after slot s of it was freed. *)
NullSlot(b, s) ==
  [b EXCEPT !.func[s] = "null", !.ref[s] = 0, !.free_num = @ + 1]

FreedSlot(b, s) ==
  LET b1 == NullSlot(b, s)
  IN  CASE b1.free_num # b1.make_num -> Shrink(b1)
        [] b1.free_num = b1.make_num /\ b1.keep ->
             [b1 EXCEPT !.make_num = 0, !.free_num = 0]
        [] OTHER -> b1

(* Is the block itself freed with slot s? *)
FreesBlock(b) == b.free_num + 1 = b.make_num /\ ~b.keep

(* The accounting of vstr__ref_cb_free_grp_main() for slot s of block g. *)
FreeSlot(g, s) ==
  /\ grp' = [grp EXCEPT ![g] = FreedSlot(@, s)]
  /\ heap' = IF FreesBlock(grp[g]) THEN [heap EXCEPT ![g] = "freed"] ELSE heap
  /\ UNCHANGED <<parent, owner>>

(* vstr__del_conf() gives the group up. *)
GiveUp ==
  /\ owner
  /\ owner' = FALSE
  /\ parent' = NoGrp
  /\ heap' = RefGrpFreeHeap(heap, grp, parent)
  /\ grp' = RefGrpFreeBlock(grp, parent)

(* parent->func() drops the last reference to the conf; after the group it *)
(* frees what the user stored in the conf, with the user's functions.      *)
CbDelConf ==
  /\ rel # NoRel
  /\ GiveUp
  /\ rel' = [rel EXCEPT !.user = TRUE]

(* parent->func() has returned. *)
RefDelEnd ==
  /\ rel # NoRel
  /\ FreeSlot(rel.g, rel.s)
  /\ rel' = NoRel

(* A whole release by one of the user's functions: the conf is gone, and   *)
(* parent->func() calls nobody any more.                                   *)
RefDelNested(g, s) ==
  /\ rel.user
  /\ grp[g].ref[s] = 1
  /\ FreeSlot(g, s)
  /\ UNCHANGED rel

(* The user frees the conf, or the last string that uses it. *)
OwnerFree ==
  /\ rel = NoRel
  /\ GiveUp
  /\ UNCHANGED rel

Next ==
  \/ RefGrpAdd
  \/ \E g \in Grp : RefGrpAddBlock(g)
  \/ \E g \in Grp, s \in Slots : RefAdd(g, s)
  \/ \E g \in Grp, s \in Slots : RefDel(g, s)
  \/ \E g \in Grp, s \in Slots : RefDelLast(g, s)
  \/ CbDelConf
  \/ RefDelEnd
  \/ \E g \in Grp, s \in Slots : RefDelNested(g, s)
  \/ OwnerFree

Spec == Init /\ [][Next]_vars

-----------------------------------------------------------------------------
(* The type of the state. *)
TypeOK ==
  /\ heap \in [Grp -> {"unused", "live", "freed"}]
  /\ grp \in [Grp -> Block]
  /\ parent \in Grp \cup {NoGrp}
  /\ owner \in BOOLEAN
  /\ rel = NoRel \/ rel \in [g : Grp, s : Slots, user : BOOLEAN]

(* The blocks, with the slot that is being released still in use: the      *)
(* release has yet to look at its block.                                   *)
InUse == IF rel = NoRel THEN grp ELSE [grp EXCEPT ![rel.g].ref[rel.s] = 1]

(* A reference somebody holds, or is releasing, never points into a block  *)
(* that was freed, whichever way and in whichever order the owner gave its *)
(* blocks up and the references were released.                             *)
NoDanglingRef ==
  \A g \in Grp, s \in Slots : InUse[g].ref[s] > 0 => heap[g] = "live"

(* The converse: a block is never leaked; it is the owner's current one or *)
(* one of its slots is held or being released.                             *)
NoLeak ==
  \A g \in Grp : heap[g] = "live" =>
    g = parent \/ \E s \in Slots : InUse[g].ref[s] > 0

(* What the assertions of vstr__ref_cb_free_grp_main() rely on: free_num   *)
(* counts the freed slots below make_num, there is a used one if there is  *)
(* any slot, and the last one is in use so that the scan stops.            *)
Accounting ==
  \A g \in Grp : heap[g] = "live" =>
    LET b == InUse[g] IN
      /\ b.free_num = Cardinality(Nulls(b))
      /\ b.make_num > 0 => b.make_num - 1 \in Set(b)
      /\ \A s \in Slots : b.ref[s] > 0 <=> s \in Set(b)

(* A block that was freed is never written again: the accounting, which is *)
(* a step of its own after parent->func(), works on a block that is still  *)
(* there, although its slot has no reference any more when parent->func()  *)
(* gives the block up and the user's functions release other slots of it.  *)
FreedNeverWritten ==
  [][\A g \in Grp : heap[g] = "freed" =>
       heap'[g] = "freed" /\ grp'[g] = grp[g]]_vars

=============================================================================
