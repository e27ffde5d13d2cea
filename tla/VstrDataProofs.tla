--------------------------- MODULE VstrDataProofs ---------------------------
(***************************************************************************)
(* Proofs about VstrData, for every set of names and of objects and every  *)
(* bound on the size of the table.                                         *)
(***************************************************************************)
EXTENDS VstrData, VstrFacts

Ent == [name : Names \cup {Null}, data : Objs \cup {Null}]

(* The entries that store an object. *)
Storing(es, o) == {i \in 1 .. Len(es) : es[i].data = o}

(* What a search has seen so far: no entry it has passed has the name, and *)
(* the one it has found has.                                               *)
SrchInv ==
  /\ srch # Idle => srch.name # Null
  /\ srch.pos <= Len(ents)
  /\ srch.found = 0 => \A i \in 1 .. srch.pos : ents[i].name # srch.name
  /\ srch.found # 0 => srch.found \in Used(ents) /\ ents[srch.found].name = srch.name

(* The inductive invariant: what a search has seen is what makes its       *)
(* answer right.                                                           *)
IInv == TypeOK /\ TableShape /\ RefsExact /\ SrchInv

-----------------------------------------------------------------------------
(* The table *)

(* The entries of the table have their type. *)
LEMMA EntryType ==
  ASSUME NEW es \in Seq(Ent)
  PROVE  /\ Len(es) \in Nat
         /\ DOMAIN es = 1 .. Len(es)
         /\ \A i \in 1 .. Len(es) :
              es[i].name \in Names \cup {Null} /\ es[i].data \in Objs \cup {Null}
         /\ Used(es) \subseteq 1 .. Len(es)
         /\ IsFiniteSet(Used(es)) /\ Cardinality(Used(es)) \in Nat
         /\ \A o \in Objs : IsFiniteSet(Storing(es, o))
                            /\ Cardinality(Storing(es, o)) \in Nat
<1>1. Len(es) \in Nat /\ DOMAIN es = 1 .. Len(es)
  OBVIOUS
<1>2. IsFiniteSet(1 .. Len(es))
  BY <1>1, FiniteUpto
<1>3. \A i \in 1 .. Len(es) : es[i] \in Ent
  OBVIOUS
<1>4. \A i \in 1 .. Len(es) :
        es[i].name \in Names \cup {Null} /\ es[i].data \in Objs \cup {Null}
  BY <1>3 DEF Ent
<1>5. Used(es) \in SUBSET (1 .. Len(es))
  BY DEF Used
<1>6. \A o \in Objs : Storing(es, o) \in SUBSET (1 .. Len(es))
  BY DEF Storing
<1> QED
  BY <1>1, <1>2, <1>4, <1>5, <1>6, FS_Subset, FS_CardinalityType

(* Where vstr_data_add() puts an entry: after the last one, or into the    *)
(* first hole (vstr_data.c, the loop that looks for a NULL name).          *)
LEMMA AddSlotRight ==
  ASSUME NEW es \in Seq(Ent), NEW size \in Nat
  PROVE  \/ AddSlot(es, size) = Len(es) + 1
         \/ /\ AddSlot(es, size) \in 1 .. Len(es)
            /\ es[AddSlot(es, size)].name = Null
            /\ Len(es) >= size
<1>1. CASE Len(es) < size \/ Used(es) = 1 .. Len(es)
  BY <1>1 DEF AddSlot
<1>2. CASE ~(Len(es) < size \/ Used(es) = 1 .. Len(es))
  <2> DEFINE H == {i \in 1 .. Len(es) : es[i].name = Null}
  <2>1. H # {} /\ H \in SUBSET Nat
    BY <1>2 DEF Used
  <2>2. PICK i \in H : \A j \in H : i <= j
    <3> HIDE DEF H
    <3> QED BY <2>1, LeastNat
  <2>3. /\ i \in 1 .. Len(es) /\ es[i].name = Null
        /\ \A j \in 1 .. i - 1 : es[j].name # Null
    BY <2>2
  <2>4. AddSlot(es, size) = CHOOSE k \in 1 .. Len(es) :
          es[k].name = Null /\ \A j \in 1 .. k - 1 : es[j].name # Null
    BY <1>2 DEF AddSlot
  <2>5. AddSlot(es, size) \in 1 .. Len(es) /\ es[AddSlot(es, size)].name = Null
    BY <2>3, <2>4
  <2> QED
    BY <1>2, <2>5
<1> QED BY <1>1, <1>2

(* Deleting the last entry takes the holes before it along, and nothing    *)
(* else.                                                                   *)
LEMMA TrimRight ==
  ASSUME NEW es \in Seq(Ent)
  PROVE  \E n \in 0 .. Len(es) :
           /\ Trim(es) = SubSeq(es, 1, n)
           /\ Trim(es) \in Seq(Ent) /\ Len(Trim(es)) = n
           /\ \A i \in 1 .. n : Trim(es)[i] = es[i]
           /\ n > 0 => n \in Used(es)
           /\ \A i \in Used(es) : i <= n
<1> DEFINE Good(n) == (n > 0 => n \in Used(es)) /\ \A i \in Used(es) : i <= n
           last == CHOOSE n \in 0 .. Len(es) : Good(n)
<1>1. Len(es) \in Nat /\ Used(es) \subseteq 1 .. Len(es)
  BY EntryType
<1>2. \E n \in 0 .. Len(es) : Good(n)
  <2>1. CASE Used(es) = {}
    BY <2>1, <1>1
  <2>2. CASE Used(es) # {}
    <3>1. Used(es) \in SUBSET (0 .. Len(es))
      BY <1>1
    <3>2. PICK m \in Used(es) : \A k \in Used(es) : k <= m
      BY <1>1, <2>2, <3>1, GreatestNat
    <3> QED BY <3>1, <3>2
  <2> QED BY <2>1, <2>2
<1>3. last \in 0 .. Len(es) /\ Good(last)
  <2> HIDE DEF Good
  <2> QED BY <1>2
<1>4. Trim(es) = SubSeq(es, 1, last)
  BY DEF Trim
<1> HIDE DEF last
<1>5. \A i \in 1 .. last : es[i] \in Ent
  BY <1>1, <1>3
<1>6. /\ Trim(es) \in Seq(Ent) /\ Len(Trim(es)) = last
      /\ \A i \in 1 .. last : Trim(es)[i] = es[i]
  BY <1>1, <1>3, <1>4, <1>5, SubSeqProperties
<1> QED
  BY <1>3, <1>4, <1>6

(* Writing one entry: a new one, or over one that stores `old`.            *)
Put(es, i, e) == IF i > Len(es) THEN Append(es, e) ELSE [es EXCEPT ![i] = e]

(* An entry put into the table is found where it was put, and the others   *)
(* stay.                                                                   *)
LEMMA PutRight ==
  ASSUME NEW es \in Seq(Ent), NEW i \in 1 .. Len(es) + 1, NEW e \in Ent
  PROVE  /\ Put(es, i, e) \in Seq(Ent)
         /\ Len(Put(es, i, e)) = IF i > Len(es) THEN Len(es) + 1 ELSE Len(es)
         /\ Put(es, i, e)[i] = e
         /\ \A j \in 1 .. Len(es) : j # i => Put(es, i, e)[j] = es[j]
BY DEF Put

(* The entries that store an object, after one was written. *)
LEMMA PutStoring ==
  ASSUME NEW es \in Seq(Ent), NEW i \in 1 .. Len(es) + 1, NEW e \in Ent,
         NEW old \in Objs \cup {Null},
         i <= Len(es) => old = es[i].data,
         i > Len(es) => old = Null,
         NEW o \in Objs
  PROVE  Cardinality(Storing(Put(es, i, e), o))
           = Cardinality(Storing(es, o)) - (IF o = old THEN 1 ELSE 0)
                                         + (IF o = e.data THEN 1 ELSE 0)
<1> DEFINE fs == Put(es, i, e)
<1>1. /\ fs \in Seq(Ent)
      /\ Len(fs) = IF i > Len(es) THEN Len(es) + 1 ELSE Len(es)
      /\ fs[i] = e
      /\ \A j \in 1 .. Len(es) : j # i => fs[j] = es[j]
  BY PutRight
<1> HIDE DEF fs
<1>2. Null \notin Objs /\ Len(es) \in Nat
  BY DataAssumption
<1>3. IsFiniteSet(Storing(es, o)) /\ Cardinality(Storing(es, o)) \in Nat
  BY EntryType
<1>4. o = old <=> i \in Storing(es, o)
  BY <1>2 DEF Storing
<1>5. CASE o = e.data
  <2>1. Storing(fs, o) = Storing(es, o) \cup {i}
    BY <1>1, <1>2, <1>5 DEF Storing
  <2>2. Cardinality(Storing(es, o) \cup {i})
          = IF i \in Storing(es, o) THEN Cardinality(Storing(es, o))
            ELSE Cardinality(Storing(es, o)) + 1
    BY <1>3, FS_AddElement
  <2>3. Cardinality(Storing(fs, o))
          = Cardinality(Storing(es, o)) - (IF o = old THEN 1 ELSE 0) + 1
    BY <1>3, <1>4, <2>1, <2>2
  <2> QED
    BY <1>5, <2>3 DEF fs
<1>6. CASE o # e.data
  <2>1. Storing(fs, o) = Storing(es, o) \ {i}
    BY <1>1, <1>2, <1>6 DEF Storing
  <2>2. Cardinality(Storing(es, o) \ {i})
          = IF i \in Storing(es, o) THEN Cardinality(Storing(es, o)) - 1
            ELSE Cardinality(Storing(es, o))
    BY <1>3, FS_RemoveElement
  <2>3. Cardinality(Storing(fs, o))
          = Cardinality(Storing(es, o)) - (IF o = old THEN 1 ELSE 0) + 0
    BY <1>3, <1>4, <2>1, <2>2
  <2> QED
    BY <1>6, <2>3 DEF fs
<1> QED BY <1>5, <1>6

(* What is trimmed stores nothing. *)
LEMMA TrimStoring ==
  ASSUME NEW es \in Seq(Ent), NEW o \in Objs,
         \A i \in 1 .. Len(es) : es[i].name = Null => es[i].data = Null
  PROVE  Storing(Trim(es), o) = Storing(es, o)
<1>1. PICK n \in 0 .. Len(es) :
           /\ Len(Trim(es)) = n
           /\ \A i \in 1 .. n : Trim(es)[i] = es[i]
           /\ \A i \in Used(es) : i <= n
  BY TrimRight
<1>2. \A i \in 1 .. Len(es) : es[i].data = o => i \in Used(es)
  BY DataAssumption DEF Used
<1> QED
  BY <1>1, <1>2 DEF Storing, Used

(* Shortening the table drops no entry that is used. *)
LEMMA TrimUsed ==
  ASSUME NEW es \in Seq(Ent)
  PROVE  Used(Trim(es)) = Used(es)
<1>1. PICK n \in 0 .. Len(es) :
           /\ Len(Trim(es)) = n
           /\ \A i \in 1 .. n : Trim(es)[i] = es[i]
           /\ \A i \in Used(es) : i <= n
  BY TrimRight
<1> QED
  BY <1>1 DEF Used

-----------------------------------------------------------------------------
(* The invariant *)

(* What the invariant says of the types, in the form the steps use. *)
LEMMA TypeFacts ==
  ASSUME IInv
  PROVE  /\ ents \in Seq(Ent) /\ Len(ents) \in Nat
         /\ sz \in 1 .. MaxSz /\ MaxSz \in Nat /\ Len(ents) <= sz
         /\ \A o \in Objs : refs[o] \in Nat
         /\ \A o \in Objs : refs[o] = (IF o \in held THEN 1 ELSE 0)
                                      + Cardinality(Storing(ents, o))
         /\ Null \notin Objs /\ Null \notin Names
BY DataAssumption DEF IInv, TypeOK, RefsExact, Storing, Ent

(* An empty table satisfies the invariant. *)
LEMMA InitInv == Init => IInv
<1> SUFFICES ASSUME Init PROVE IInv
  OBVIOUS
<1>1. ents = <<>> /\ Len(ents) = 0 /\ Used(ents) = {}
  BY DEF Init, Used
<1>2. TypeOK
  <2>1. ents \in Seq([name : Names \cup {Null}, data : Objs \cup {Null}])
    BY <1>1
  <2>2. srch \in [name : Names \cup {Null}, pos : 0 .. MaxSz, found : 0 .. MaxSz,
                 turn : 0 .. 1]
    BY DataAssumption DEF Init, Idle
  <2>3. sz \in 1 .. MaxSz /\ Len(ents) <= sz
    BY <1>1, DataAssumption DEF Init
  <2> QED
    BY <2>1, <2>2, <2>3 DEF Init, TypeOK
<1>3. RefsExact
  <2>1. \A o \in Objs : {i \in 1 .. Len(ents) : ents[i].data = o} = {}
    BY <1>1
  <2> QED
    BY <2>1, FS_EmptySet DEF Init, RefsExact
<1>4. TableShape /\ SrchInv
  BY <1>1 DEF Init, TableShape, SrchInv, Idle
<1> QED BY <1>2, <1>3, <1>4 DEF IInv

(* A change of the table while no search runs keeps the invariant if the   *)
(* new table is in shape and the counts follow.                            *)
LEMMA TableChange ==
  ASSUME IInv, srch = Idle, UNCHANGED srch,
         ents' \in Seq(Ent), sz' \in 1 .. MaxSz, Len(ents') <= sz',
         held' \subseteq Objs, freed' \in BOOLEAN,
         refs' \in [Objs -> Int],
         \A o \in Objs : refs'[o] = (IF o \in held' THEN 1 ELSE 0)
                                    + Cardinality(Storing(ents', o)),
         TableShape'
  PROVE  IInv'
<1>1. \A o \in Objs : Cardinality(Storing(ents', o)) \in Nat
  BY EntryType
<1>2. refs' \in [Objs -> Nat]
  BY <1>1
<1>3. TypeOK'
  BY <1>2 DEF TypeOK, IInv, Ent
<1>4. RefsExact'
  BY DEF RefsExact, Storing
<1>5. SrchInv'
  <2>1. srch' = Idle /\ Len(ents') \in Nat
    BY EntryType
  <2> QED
    BY <2>1 DEF SrchInv, Idle
<1> QED BY <1>3, <1>4, <1>5 DEF IInv

(* vstr_cntl_conf() adding data keeps the invariant, when the table grows  *)
(* too.                                                                    *)
LEMMA DataAddInv ==
  ASSUME IInv, NEW n \in Names, NEW o \in Objs \cup {Null}, DataAdd(n, o)
  PROVE  IInv'
<1> DEFINE slot == AddSlot(ents, sz)
           ent == [name |-> n, data |-> o]
<1>1. /\ ents \in Seq(Ent) /\ Len(ents) \in Nat
      /\ sz \in 1 .. MaxSz /\ MaxSz \in Nat /\ Len(ents) <= sz
      /\ Null \notin Objs /\ Null \notin Names
  BY TypeFacts
<1>2. /\ srch = Idle /\ UNCHANGED <<held, srch, freed>>
      /\ sz' = GrownSz(slot, sz) /\ sz' <= MaxSz
      /\ \A i \in 1 .. Len(ents) : ents[i].name # n
      /\ refs' = RefMove(refs, Null, o)
      /\ ents' = Put(ents, slot, ent)
  BY DEF DataAdd, Ready, Put
<1>3. \/ slot = Len(ents) + 1
      \/ slot \in 1 .. Len(ents) /\ ents[slot].name = Null /\ Len(ents) >= sz
  BY <1>1, AddSlotRight
<1>4. ent \in Ent /\ slot \in 1 .. Len(ents) + 1 /\ slot \notin Used(ents)
      /\ ent.name = n /\ ent.data = o
  BY <1>1, <1>3 DEF Ent, Used
<1> HIDE DEF slot, ent
<1>5. /\ ents' \in Seq(Ent)
      /\ Len(ents') = IF slot > Len(ents) THEN Len(ents) + 1 ELSE Len(ents)
      /\ ents'[slot] = ent
      /\ \A j \in 1 .. Len(ents) : j # slot => ents'[j] = ents[j]
  <2>1. /\ Put(ents, slot, ent) \in Seq(Ent)
        /\ Len(Put(ents, slot, ent)) = IF slot > Len(ents) THEN Len(ents) + 1
                                      ELSE Len(ents)
        /\ Put(ents, slot, ent)[slot] = ent
        /\ \A j \in 1 .. Len(ents) : j # slot => Put(ents, slot, ent)[j] = ents[j]
    BY <1>1, <1>4, PutRight
  <2> QED BY <1>2, <2>1
<1>6. sz' \in 1 .. MaxSz /\ Len(ents') <= sz'
  BY <1>1, <1>2, <1>3, <1>5 DEF GrownSz
<1>7. slot <= Len(ents) => ents[slot].data = Null
  BY <1>1, <1>3 DEF IInv, TableShape
<1>8. \A x \in Objs : refs'[x] = (IF x \in held' THEN 1 ELSE 0)
                                 + Cardinality(Storing(ents', x))
  <2> TAKE x \in Objs
  <2>1. Cardinality(Storing(ents', x))
          = Cardinality(Storing(ents, x)) - (IF x = Null THEN 1 ELSE 0)
                                          + (IF x = o THEN 1 ELSE 0)
    BY <1>1, <1>2, <1>4, <1>7, PutStoring
  <2>2. refs[x] = (IF x \in held THEN 1 ELSE 0) + Cardinality(Storing(ents, x))
    BY TypeFacts
  <2>3. Cardinality(Storing(ents, x)) \in Nat
    BY <1>1, EntryType
  <2>4. refs'[x] = refs[x] - 0 + (IF x = o THEN 1 ELSE 0)
    BY <1>1, <1>2 DEF RefMove
  <2> QED
    BY <1>1, <1>2, <2>1, <2>2, <2>3, <2>4
<1>9. TableShape'
  <2>1. Used(ents') = Used(ents) \cup {slot}
    BY <1>1, <1>4, <1>5 DEF Used
  <2>2. \A i, j \in Used(ents') : ents'[i].name = ents'[j].name => i = j
    BY <1>1, <1>2, <1>4, <1>5, <2>1 DEF IInv, TableShape, Used
  <2>3. \A i \in 1 .. Len(ents') : ents'[i].name = Null => ents'[i].data = Null
    BY <1>1, <1>4, <1>5 DEF IInv, TableShape
  <2>4. Len(ents') \in Used(ents')
    BY <1>1, <1>3, <1>4, <1>5, <2>1 DEF IInv, TableShape
  <2> QED BY <2>2, <2>3, <2>4 DEF TableShape
<1>10. refs' \in [Objs -> Int]
  BY <1>2 DEF RefMove, IInv, TypeOK
<1> QED
  BY <1>2, <1>5, <1>6, <1>8, <1>9, <1>10, TableChange DEF IInv, TypeOK

(* What writing an entry in the middle does to the shape and the counts,   *)
(* for vstr_data_del() (a hole) and vstr_data_set().                       *)
LEMMA PutInv ==
  ASSUME IInv, NEW pos \in Used(ents), NEW e \in Ent,
         \/ e = Hole
         \/ e.name = ents[pos].name
  PROVE  LET fs == Put(ents, pos, e) IN
         /\ fs \in Seq(Ent) /\ Len(fs) = Len(ents)
         /\ \A i, j \in Used(fs) : fs[i].name = fs[j].name => i = j
         /\ \A i \in 1 .. Len(fs) : fs[i].name = Null => fs[i].data = Null
         /\ Used(fs) = IF e = Hole THEN Used(ents) \ {pos} ELSE Used(ents)
         /\ \A i \in Used(fs) : fs[i].name = ents[i].name
         /\ fs = [ents EXCEPT ![pos] = e]
         /\ \A o \in Objs : Cardinality(Storing(fs, o))
              = Cardinality(Storing(ents, o)) - (IF o = ents[pos].data THEN 1 ELSE 0)
                                              + (IF o = e.data THEN 1 ELSE 0)
<1> DEFINE fs == Put(ents, pos, e)
<1>1. /\ ents \in Seq(Ent) /\ Len(ents) \in Nat
      /\ Null \notin Objs /\ Null \notin Names
      /\ pos \in 1 .. Len(ents) /\ ents[pos].name # Null
      /\ pos \in 1 .. Len(ents) + 1
  BY TypeFacts DEF Used
<1>2. /\ fs \in Seq(Ent)
      /\ Len(fs) = IF pos > Len(ents) THEN Len(ents) + 1 ELSE Len(ents)
      /\ fs[pos] = e
      /\ \A j \in 1 .. Len(ents) : j # pos => fs[j] = ents[j]
  BY <1>1, PutRight
<1>3. fs = [ents EXCEPT ![pos] = e]
  BY <1>1 DEF Put
<1>4. Len(fs) = Len(ents)
  BY <1>1, <1>2
<1>5. \A o \in Objs : Cardinality(Storing(fs, o))
        = Cardinality(Storing(ents, o)) - (IF o = ents[pos].data THEN 1 ELSE 0)
                                        + (IF o = e.data THEN 1 ELSE 0)
  BY <1>1, EntryType, PutStoring
<1> HIDE DEF fs
<1>6. Used(fs) = IF e = Hole THEN Used(ents) \ {pos} ELSE Used(ents)
  BY <1>1, <1>2, <1>4 DEF Used, Hole
<1>7. \A i \in Used(fs) : fs[i].name = ents[i].name
  BY <1>1, <1>2, <1>4, <1>6 DEF Used, Hole
<1>8. \A i, j \in Used(fs) : fs[i].name = fs[j].name => i = j
  BY <1>6, <1>7 DEF IInv, TableShape
<1>9. \A i \in 1 .. Len(fs) : fs[i].name = Null => fs[i].data = Null
  BY <1>1, <1>2, <1>4 DEF IInv, TableShape, Hole
<1> QED
  BY <1>2, <1>3, <1>4, <1>5, <1>6, <1>7, <1>8, <1>9 DEF fs

(* Deleting an entry keeps the invariant, and removes that entry alone. *)
LEMMA DataDelInv ==
  ASSUME IInv, NEW pos \in 1 .. MaxSz, DataDel(pos)
  PROVE  /\ IInv'
         /\ Used(ents') = Used(ents) \ {pos}
         /\ \A i \in Used(ents') : ents'[i].name = ents[i].name
<1> DEFINE fs == Put(ents, pos, Hole)
<1>1. /\ ents \in Seq(Ent) /\ Len(ents) \in Nat
      /\ sz \in 1 .. MaxSz /\ MaxSz \in Nat /\ Len(ents) <= sz
      /\ Null \notin Objs /\ Null \notin Names
  BY TypeFacts
<1>2. /\ srch = Idle /\ UNCHANGED <<sz, held, srch, freed>> /\ pos \in Used(ents)
      /\ refs' = RefMove(refs, ents[pos].data, Null)
      /\ ents' = IF pos = Len(ents) THEN Trim([ents EXCEPT ![pos] = Hole])
                                    ELSE [ents EXCEPT ![pos] = Hole]
  BY DEF DataDel, Ready
<1>3. Hole \in Ent /\ Hole.data = Null
  BY DEF Ent, Hole
<1>4. /\ fs \in Seq(Ent) /\ Len(fs) = Len(ents)
      /\ \A i, j \in Used(fs) : fs[i].name = fs[j].name => i = j
      /\ \A i \in 1 .. Len(fs) : fs[i].name = Null => fs[i].data = Null
      /\ Used(fs) = Used(ents) \ {pos}
      /\ \A i \in Used(fs) : fs[i].name = ents[i].name
      /\ fs = [ents EXCEPT ![pos] = Hole]
      /\ \A o \in Objs : Cardinality(Storing(fs, o))
            = Cardinality(Storing(ents, o)) - (IF o = ents[pos].data THEN 1 ELSE 0)
                                            + (IF o = Hole.data THEN 1 ELSE 0)
  BY <1>2, <1>3, PutInv
<1> HIDE DEF fs
<1>5. PICK n \in 0 .. Len(fs) :
           /\ Trim(fs) \in Seq(Ent) /\ Len(Trim(fs)) = n
           /\ \A i \in 1 .. n : Trim(fs)[i] = fs[i]
           /\ n > 0 => n \in Used(fs)
           /\ \A i \in Used(fs) : i <= n
  BY <1>4, TrimRight
<1>6. \A o \in Objs : Storing(Trim(fs), o) = Storing(fs, o)
  BY <1>4, TrimStoring
<1>7. Used(Trim(fs)) = Used(fs)
  BY <1>4, TrimUsed
<1>8. ents' = IF pos = Len(ents) THEN Trim(fs) ELSE fs
  BY <1>2, <1>4
<1>9. /\ ents' \in Seq(Ent) /\ Len(ents') <= Len(ents)
      /\ \A i \in 1 .. Len(ents') : ents'[i] = fs[i]
      /\ Used(ents') = Used(fs)
      /\ \A o \in Objs : Storing(ents', o) = Storing(fs, o)
  <2>1. CASE pos = Len(ents)
    <3>1. ents' = Trim(fs)
      BY <1>8, <2>1
    <3>2. n <= Len(ents)
      BY <1>1, <1>4
    <3> QED BY <1>5, <1>6, <1>7, <3>1, <3>2
  <2>2. CASE pos # Len(ents)
    <3>1. ents' = fs
      BY <1>8, <2>2
    <3>2. ents' \in Seq(Ent) /\ Len(ents') <= Len(ents)
      BY <1>1, <1>4, <3>1
    <3>3. Used(ents') = Used(fs)
      BY <3>1
    <3>4. \A i \in 1 .. Len(ents') : ents'[i] = fs[i]
      BY <3>1
    <3>5. \A o \in Objs : Storing(ents', o) = Storing(fs, o)
      BY <3>1
    <3> QED BY <3>2, <3>3, <3>4, <3>5
  <2> QED BY <2>1, <2>2
<1>10. TableShape'
  <2>1. \A i, j \in Used(ents') : ents'[i].name = ents'[j].name => i = j
    BY <1>4, <1>9 DEF Used
  <2>2. \A i \in 1 .. Len(ents') : ents'[i].name = Null => ents'[i].data = Null
    BY <1>1, <1>4, <1>9
  <2>3. ents' # <<>> => Len(ents') \in Used(ents')
    <3>1. CASE pos = Len(ents)
      BY <1>5, <1>7, <1>8, <3>1
    <3>2. CASE pos # Len(ents)
      <4>1. Len(ents) \in Used(ents)
        BY <1>1, <1>2 DEF IInv, TableShape, Used
      <4> QED
        BY <1>4, <1>8, <1>9, <3>2, <4>1
    <3> QED BY <3>1, <3>2
  <2> QED BY <2>1, <2>2, <2>3 DEF TableShape
<1>11. \A x \in Objs : refs'[x] = (IF x \in held' THEN 1 ELSE 0)
                                  + Cardinality(Storing(ents', x))
  <2> TAKE x \in Objs
  <2>1. Cardinality(Storing(ents', x))
          = Cardinality(Storing(ents, x)) - (IF x = ents[pos].data THEN 1 ELSE 0) + 0
    <3>1. Storing(ents', x) = Storing(fs, x) /\ x # Hole.data
      BY <1>1, <1>3, <1>9
    <3> QED BY <1>4, <3>1
  <2>2. refs[x] = (IF x \in held THEN 1 ELSE 0) + Cardinality(Storing(ents, x))
    BY TypeFacts
  <2>3. Cardinality(Storing(ents, x)) \in Nat
    BY <1>1, EntryType
  <2>4. refs'[x] = refs[x] - (IF x = ents[pos].data THEN 1 ELSE 0) + 0
    BY <1>1, <1>2 DEF RefMove
  <2> QED
    BY <1>2, <2>1, <2>2, <2>3, <2>4
<1>12. refs' \in [Objs -> Int]
  BY <1>2 DEF RefMove, IInv, TypeOK
<1>13. sz' \in 1 .. MaxSz /\ Len(ents') <= sz'
  BY <1>1, <1>2, <1>9, EntryType
<1>14. IInv'
  BY <1>2, <1>9, <1>10, <1>11, <1>12, <1>13, TableChange DEF IInv, TypeOK
<1> QED
  BY <1>4, <1>9, <1>14 DEF Used

(* Setting an entry keeps the invariant and every name. *)
LEMMA DataSetInv ==
  ASSUME IInv, NEW pos \in 1 .. MaxSz, NEW o \in Objs \cup {Null}, DataSet(pos, o)
  PROVE  /\ IInv' /\ Used(ents') = Used(ents) /\ Len(ents') = Len(ents)
         /\ \A i \in Used(ents) : ents'[i].name = ents[i].name
<1> DEFINE e == [name |-> ents[pos].name, data |-> o]
           fs == Put(ents, pos, e)
<1>1. /\ ents \in Seq(Ent) /\ Len(ents) \in Nat
      /\ sz \in 1 .. MaxSz /\ MaxSz \in Nat /\ Len(ents) <= sz
      /\ Null \notin Objs /\ Null \notin Names
  BY TypeFacts
<1>2. /\ srch = Idle /\ UNCHANGED <<sz, held, srch, freed>> /\ pos \in Used(ents)
      /\ refs' = RefMove(refs, ents[pos].data, o)
      /\ ents' = [ents EXCEPT ![pos].data = o]
  BY DEF DataSet, Ready
<1>3. e \in Ent /\ e # Hole /\ e.name = ents[pos].name /\ e.data = o
      /\ pos \in 1 .. Len(ents)
  <2>1. pos \in 1 .. Len(ents) /\ ents[pos].name # Null
    BY <1>2 DEF Used
  <2>2. ents[pos].name \in Names \cup {Null}
    BY <1>1, <2>1, EntryType
  <2>3. Hole.name = Null
    BY DEF Hole
  <2> QED
    BY <2>1, <2>2, <2>3 DEF Ent
<1>4. [ents[pos] EXCEPT !.data = o] = e
  <2>1. ents[pos] \in Ent
    BY <1>1, <1>3
  <2> QED BY <2>1 DEF Ent
<1> HIDE DEF e
<1>5. /\ fs \in Seq(Ent) /\ Len(fs) = Len(ents)
      /\ \A i, j \in Used(fs) : fs[i].name = fs[j].name => i = j
      /\ \A i \in 1 .. Len(fs) : fs[i].name = Null => fs[i].data = Null
      /\ Used(fs) = Used(ents)
      /\ \A i \in Used(fs) : fs[i].name = ents[i].name
      /\ fs = [ents EXCEPT ![pos] = e]
      /\ \A x \in Objs : Cardinality(Storing(fs, x))
            = Cardinality(Storing(ents, x)) - (IF x = ents[pos].data THEN 1 ELSE 0)
                                            + (IF x = o THEN 1 ELSE 0)
  <2>1. \/ e = Hole
        \/ e.name = ents[pos].name
    BY <1>3
  <2> QED
    BY <1>2, <1>3, <2>1, PutInv
<1> HIDE DEF fs
<1>6. ents' = fs
  <2>1. [ents EXCEPT ![pos].data = o] = [ents EXCEPT ![pos] = [ents[pos] EXCEPT !.data = o]]
    OBVIOUS
  <2> QED
    BY <1>2, <1>4, <1>5, <2>1
<1>7. TableShape'
  <2>1. ents' # <<>> => Len(ents') \in Used(ents')
    BY <1>1, <1>5, <1>6 DEF TableShape, IInv
  <2>2. \A i, j \in Used(ents') : ents'[i].name = ents'[j].name => i = j
    BY <1>5, <1>6
  <2>3. \A i \in 1 .. Len(ents') : ents'[i].name = Null => ents'[i].data = Null
    BY <1>5, <1>6
  <2> QED
    BY <2>1, <2>2, <2>3 DEF TableShape
<1>8. \A x \in Objs : refs'[x] = (IF x \in held' THEN 1 ELSE 0)
                                 + Cardinality(Storing(ents', x))
  <2> TAKE x \in Objs
  <2>1. Cardinality(Storing(ents', x))
          = Cardinality(Storing(ents, x)) - (IF x = ents[pos].data THEN 1 ELSE 0)
                                          + (IF x = o THEN 1 ELSE 0)
    BY <1>5, <1>6
  <2>2. refs[x] = (IF x \in held THEN 1 ELSE 0) + Cardinality(Storing(ents, x))
    BY TypeFacts
  <2>3. Cardinality(Storing(ents, x)) \in Nat
    BY <1>1, EntryType
  <2>4. refs'[x] = refs[x] - (IF x = ents[pos].data THEN 1 ELSE 0)
                           + (IF x = o THEN 1 ELSE 0)
    BY <1>2 DEF RefMove
  <2> QED
    BY <1>2, <2>1, <2>2, <2>3, <2>4
<1>9. refs' \in [Objs -> Int]
  BY <1>2 DEF RefMove, IInv, TypeOK
<1>10. IInv'
  BY <1>1, <1>2, <1>5, <1>6, <1>7, <1>8, <1>9, TableChange DEF IInv, TypeOK
<1> QED
  BY <1>5, <1>6, <1>10

(* A search that begins keeps the invariant. *)
LEMMA SrchCallInv ==
  ASSUME IInv, NEW n \in Names, SrchCall(n)
  PROVE  IInv'
<1>1. /\ srch' = [name |-> n, pos |-> 0, found |-> 0, turn |-> 0]
      /\ UNCHANGED <<ents, sz, refs, held, freed>>
  BY DEF SrchCall, Idle
<1>2. n # Null /\ Len(ents) \in Nat /\ MaxSz \in Nat
  BY TypeFacts
<1>3. TypeOK'
  BY <1>1, <1>2 DEF IInv, TypeOK
<1>4. TableShape' /\ RefsExact'
  BY <1>1 DEF IInv, TableShape, RefsExact
<1>5. SrchInv'
  BY <1>1, <1>2 DEF SrchInv
<1> QED BY <1>3, <1>4, <1>5 DEF IInv

(* A turn of vstr_data_srch() passes an entry that is used and has another *)
(* name, stays at a hole, or ends at the entry with the name.              *)
LEMMA SrchTurnInv ==
  ASSUME IInv, SrchTurn
  PROVE  IInv'
<1> DEFINE ent == ents[srch.pos + 1]
           pos == Passed(ent, srch.pos)
<1>1. /\ ents \in Seq(Ent) /\ Len(ents) \in Nat /\ MaxSz \in Nat
      /\ Len(ents) <= MaxSz /\ Null \notin Names
  BY TypeFacts
<1>2. /\ srch \in [name : Names \cup {Null}, pos : 0 .. MaxSz, found : 0 .. MaxSz,
                   turn : 0 .. 1]
      /\ srch.name # Null
      /\ \A i \in 1 .. srch.pos : ents[i].name # srch.name
      /\ srch.found = 0 /\ srch.pos < Len(ents)
  BY DEF IInv, TypeOK, SrchInv, SrchTurn
<1>3. /\ srch' = [srch EXCEPT !.pos = pos, !.turn = 1 - @, !.found = Found(ent, pos)]
      /\ UNCHANGED <<ents, sz, refs, held, freed>>
  BY DEF SrchTurn
<1>4. /\ srch'.name = srch.name /\ srch'.pos = pos /\ srch'.found = Found(ent, pos)
      /\ srch'.turn = 1 - srch.turn
      /\ srch' = [name |-> srch.name, pos |-> pos, found |-> Found(ent, pos),
                  turn |-> 1 - srch.turn]
  BY <1>2, <1>3
<1>5. /\ pos \in 0 .. Len(ents)
      /\ pos = (IF ent.name = Null THEN srch.pos ELSE srch.pos + 1)
      /\ Found(ent, pos) = IF ent.name = srch.name THEN pos ELSE 0
  BY <1>1, <1>2 DEF Passed, Found
<1> HIDE DEF pos
<1>6. TypeOK'
  <2>1. pos \in 0 .. MaxSz /\ Found(ent, pos) \in 0 .. MaxSz
        /\ 1 - srch.turn \in 0 .. 1 /\ srch.name \in Names \cup {Null}
    BY <1>1, <1>2, <1>5
  <2>2. srch' \in [name : Names \cup {Null}, pos : 0 .. MaxSz, found : 0 .. MaxSz,
                   turn : 0 .. 1]
    BY <1>4, <2>1
  <2> QED
    BY <1>3, <2>2 DEF IInv, TypeOK
<1>7. TableShape' /\ RefsExact'
  BY <1>3 DEF IInv, TableShape, RefsExact
<1>8. SrchInv'
  <2>1. srch'.found = 0 => \A i \in 1 .. srch'.pos : ents'[i].name # srch'.name
    <3> SUFFICES ASSUME srch'.found = 0, NEW i \in 1 .. pos
                 PROVE  ents[i].name # srch.name
      BY <1>3, <1>4
    <3>1. ent.name # srch.name
      BY <1>2, <1>4, <1>5
    <3>2. i \in 1 .. srch.pos \/ i = srch.pos + 1
      BY <1>2, <1>5
    <3> QED
      BY <1>2, <3>1, <3>2
  <2>2. srch'.found # 0 => srch'.found \in Used(ents') /\ ents'[srch'.found].name = srch'.name
    <3> SUFFICES ASSUME srch'.found # 0
                 PROVE  pos \in Used(ents) /\ ents[pos].name = srch.name /\ srch'.found = pos
      BY <1>3, <1>4
    <3>1. ent.name = srch.name /\ srch'.found = pos
      BY <1>4, <1>5
    <3>2. pos = srch.pos + 1
      BY <1>2, <1>5, <3>1
    <3> QED
      BY <1>1, <1>2, <3>1, <3>2 DEF Used
  <2> QED
    BY <1>1, <1>2, <1>3, <1>4, <1>5, <2>1, <2>2 DEF SrchInv
<1> QED BY <1>6, <1>7, <1>8 DEF IInv

(* A search that returns keeps the invariant. *)
LEMMA SrchRetInv ==
  ASSUME IInv, SrchRet
  PROVE  IInv'
<1>1. srch' = Idle /\ UNCHANGED <<ents, sz, refs, held, freed>>
  BY DEF SrchRet
<1>2. Len(ents) \in Nat /\ MaxSz \in Nat
  BY TypeFacts
<1>3. TypeOK'
  BY <1>1, <1>2 DEF IInv, TypeOK, Idle
<1>4. TableShape' /\ RefsExact'
  BY <1>1 DEF IInv, TableShape, RefsExact
<1>5. SrchInv'
  BY <1>1, <1>2 DEF SrchInv, Idle
<1> QED BY <1>3, <1>4, <1>5 DEF IInv

(* The user giving up a reference keeps the invariant. *)
LEMMA UserDropInv ==
  ASSUME IInv, NEW o \in Objs, UserDrop(o)
  PROVE  IInv'
<1>1. /\ ents \in Seq(Ent) /\ sz \in 1 .. MaxSz /\ Len(ents) <= sz
      /\ Null \notin Objs
  BY TypeFacts
<1>2. /\ srch = Idle /\ o \in held /\ held' = held \ {o}
      /\ refs' = RefMove(refs, o, Null)
      /\ UNCHANGED <<ents, sz, srch, freed>>
  BY DEF UserDrop
<1>3. \A x \in Objs : refs'[x] = (IF x \in held' THEN 1 ELSE 0)
                                 + Cardinality(Storing(ents', x))
  <2> TAKE x \in Objs
  <2>1. refs[x] = (IF x \in held THEN 1 ELSE 0) + Cardinality(Storing(ents, x))
    BY TypeFacts
  <2>2. Cardinality(Storing(ents, x)) \in Nat
    BY <1>1, EntryType
  <2>3. refs'[x] = refs[x] - (IF x = o THEN 1 ELSE 0) + 0
    BY <1>1, <1>2 DEF RefMove
  <2>4. Cardinality(Storing(ents', x)) = Cardinality(Storing(ents, x))
    BY <1>2
  <2> QED
    BY <1>2, <2>1, <2>2, <2>3, <2>4
<1>4. refs' \in [Objs -> Int]
  BY <1>2 DEF RefMove, IInv, TypeOK
<1>5. TableShape' /\ held' \subseteq Objs /\ freed' \in BOOLEAN
  BY <1>2 DEF IInv, TypeOK, TableShape
<1> QED
  BY <1>1, <1>2, <1>3, <1>4, <1>5, TableChange

(* vstr__data_conf_free() drops the references of the used entries, and    *)
(* only those store anything.                                              *)
LEMMA ConfFreeInv ==
  ASSUME IInv, ConfFree
  PROVE  IInv'
<1>1. /\ ents \in Seq(Ent) /\ sz \in 1 .. MaxSz
      /\ Null \notin Objs
  BY TypeFacts
<1>2. /\ srch = Idle /\ freed' = TRUE /\ ents' = <<>>
      /\ refs' = [o \in Objs |->
                    refs[o] - Cardinality({i \in Used(ents) : ents[i].data = o})]
      /\ UNCHANGED <<sz, held, srch>>
  BY DEF ConfFree, Ready
<1>3. \A o \in Objs : {i \in Used(ents) : ents[i].data = o} = Storing(ents, o)
  BY <1>1 DEF Used, Storing, IInv, TableShape
<1>4. \A o \in Objs : Storing(ents', o) = {}
  BY <1>2 DEF Storing
<1>5. \A x \in Objs : refs'[x] = (IF x \in held' THEN 1 ELSE 0)
                                 + Cardinality(Storing(ents', x))
  <2> TAKE x \in Objs
  <2>1. refs[x] = (IF x \in held THEN 1 ELSE 0) + Cardinality(Storing(ents, x))
    BY TypeFacts
  <2>2. Cardinality(Storing(ents, x)) \in Nat
    BY <1>1, EntryType
  <2>3. refs'[x] = refs[x] - Cardinality(Storing(ents, x))
    BY <1>2, <1>3
  <2>4. Cardinality(Storing(ents', x)) = 0
    BY <1>4, FS_EmptySet
  <2> QED
    BY <1>2, <2>1, <2>2, <2>3, <2>4
<1>6. refs' \in [Objs -> Int]
  <2>1. \A o \in Objs : Cardinality(Storing(ents, o)) \in Nat
    BY <1>1, EntryType
  <2> QED
    BY <1>2, <1>3, <2>1 DEF IInv, TypeOK
<1>7. ents' \in Seq(Ent) /\ Len(ents') <= sz'
  BY <1>1, <1>2
<1>8. TableShape'
  BY <1>2 DEF TableShape, Used
<1>9. held' \subseteq Objs /\ freed' \in BOOLEAN /\ sz' \in 1 .. MaxSz
  BY <1>1, <1>2 DEF IInv, TypeOK
<1> QED
  BY <1>2, <1>5, <1>6, <1>7, <1>8, <1>9, TableChange

(* Every step keeps the invariant. *)
LEMMA NextInv == IInv /\ [Next]_vars => IInv'
<1> SUFFICES ASSUME IInv, [Next]_vars PROVE IInv'
  OBVIOUS
<1>1. ASSUME NEW n \in Names, NEW o \in Objs \cup {Null}, DataAdd(n, o) PROVE IInv'
  BY <1>1, DataAddInv
<1>2. ASSUME NEW p \in 1 .. MaxSz, DataDel(p) PROVE IInv'
  BY <1>2, DataDelInv
<1>3. ASSUME NEW p \in 1 .. MaxSz, NEW o \in Objs \cup {Null}, DataSet(p, o) PROVE IInv'
  BY <1>3, DataSetInv
<1>4. ASSUME NEW n \in Names, SrchCall(n) PROVE IInv'
  BY <1>4, SrchCallInv
<1>5. CASE SrchTurn
  BY <1>5, SrchTurnInv
<1>6. CASE SrchRet
  BY <1>6, SrchRetInv
<1>7. ASSUME NEW o \in Objs, UserDrop(o) PROVE IInv'
  BY <1>7, UserDropInv
<1>8. CASE ConfFree
  BY <1>8, ConfFreeInv
<1>9. CASE UNCHANGED vars
  BY <1>9 DEF vars, IInv, TypeOK, TableShape, RefsExact, SrchInv, Used
<1> QED
  BY <1>1, <1>2, <1>3, <1>4, <1>5, <1>6, <1>7, <1>8, <1>9 DEF Next

(* What a search has seen makes its answer right. *)
LEMMA SrchAnswers == IInv => DataInv
<1> SUFFICES ASSUME IInv PROVE SrchRight
  BY DEF IInv, DataInv
<1>1. Used(ents) \subseteq 1 .. Len(ents)
  BY DEF Used
<1> QED
  BY <1>1 DEF IInv, SrchInv, SrchRight

(* The table of user data is consistent after every call of                *)
(* src/vstr_data.c, in any order, and whatever the names and the objects:  *)
(* a name has one entry, every reference is counted, and a search that     *)
(* ends has the right answer.                                              *)
THEOREM TableConsistent == Spec => []DataInv
<1>1. Init => IInv
  BY InitInv
<1>2. IInv /\ [Next]_vars => IInv'
  BY NextInv
<1>3. IInv => DataInv
  BY SrchAnswers
<1> QED
  BY <1>1, <1>2, <1>3, PTL DEF Spec

-----------------------------------------------------------------------------
(* Cookies *)

(* The entries a step takes away or renames. *)
Lost == {i \in Used(ents) : i > Len(ents') \/ ents'[i].name # ents[i].name}

CookieStep ==
  ~freed' => /\ Cardinality(Lost) <= 1
             /\ Cardinality(Used(ents')) >= Cardinality(Used(ents)) =>
                  \A i \in Used(ents) : ents'[i].name = ents[i].name

(* A step that loses no entry. *)
LEMMA NothingLost ==
  ASSUME \A i \in Used(ents) : i <= Len(ents') /\ ents'[i].name = ents[i].name,
         ents \in Seq(Ent), ents' \in Seq(Ent)
  PROVE  CookieStep
<1>1. Len(ents') \in Nat /\ Used(ents) \subseteq Nat
  BY DEF Used
<1>2. Lost = {}
  BY <1>1 DEF Lost
<1> QED
  BY <1>2, FS_EmptySet DEF CookieStep

(* Adding an entry leaves the number of every other entry as it was. *)
LEMMA DataAddCookies ==
  ASSUME IInv, IInv', NEW n \in Names, NEW o \in Objs \cup {Null}, DataAdd(n, o)
  PROVE  CookieStep
<1> DEFINE slot == AddSlot(ents, sz)
           ent == [name |-> n, data |-> o]
<1>1. /\ ents \in Seq(Ent) /\ Len(ents) \in Nat /\ sz \in Nat /\ ent \in Ent
  BY TypeFacts DEF Ent
<1>2. ents' = Put(ents, slot, ent)
  BY DEF DataAdd, Put
<1>3. slot \in 1 .. Len(ents) + 1 /\ slot \notin Used(ents)
  BY <1>1, AddSlotRight DEF Used
<1> HIDE DEF slot, ent
<1>4. /\ Put(ents, slot, ent) \in Seq(Ent)
      /\ Len(Put(ents, slot, ent)) = IF slot > Len(ents) THEN Len(ents) + 1
                                     ELSE Len(ents)
      /\ \A j \in 1 .. Len(ents) : j # slot => Put(ents, slot, ent)[j] = ents[j]
  BY <1>1, <1>3, PutRight
<1>5. /\ ents' \in Seq(Ent) /\ Len(ents') >= Len(ents)
      /\ \A j \in 1 .. Len(ents) : j # slot => ents'[j] = ents[j]
  BY <1>1, <1>2, <1>4
<1>6. \A i \in Used(ents) : i <= Len(ents') /\ ents'[i].name = ents[i].name
  BY <1>1, <1>3, <1>5 DEF Used
<1> QED
  BY <1>1, <1>5, <1>6, NothingLost

(* vstr_data_del() loses the entry it deletes, and no other. *)
LEMMA DataDelCookies ==
  ASSUME IInv, NEW p \in 1 .. MaxSz, DataDel(p)
  PROVE  CookieStep
<1>1. p \in Used(ents) /\ ents \in Seq(Ent) /\ ents' \in Seq(Ent)
  BY DataDelInv, TypeFacts DEF DataDel, IInv, TypeOK, Ent
<1>2. /\ \A i \in Used(ents') : ents'[i].name = ents[i].name
      /\ Used(ents') = Used(ents) \ {p}
  BY DataDelInv
<1>3. Used(ents') \subseteq 1 .. Len(ents') /\ Len(ents') \in Nat
  BY <1>1 DEF Used
<1>4. Lost \in SUBSET {p}
  BY <1>2, <1>3 DEF Lost
<1>5. Cardinality(Lost) <= 1
  <2>1. IsFiniteSet({p}) /\ Cardinality({p}) = 1
    BY FS_Singleton
  <2> QED
    BY <1>4, <2>1, FS_Subset
<1>6. Cardinality(Used(ents')) = Cardinality(Used(ents)) - 1
  <2>1. IsFiniteSet(Used(ents))
    BY <1>1, EntryType
  <2> QED
    BY <1>1, <1>2, <2>1, CardDel
<1>7. Cardinality(Used(ents)) \in Nat
  BY <1>1, EntryType
<1> QED
  BY <1>5, <1>6, <1>7 DEF CookieStep

(* A cookie stays valid until its entry is deleted: no call of             *)
(* src/vstr_data.c moves or renames another entry, in a table of any size. *)
THEOREM CookiesStay == Spec => CookiesStable
<1>1. IInv /\ [Next]_vars => [CookieStep]_vars
  <2> SUFFICES ASSUME IInv, Next PROVE CookieStep
    OBVIOUS
  <2>1. IInv'
    BY NextInv
  <2>2. ents \in Seq(Ent) /\ ents' \in Seq(Ent)
    BY <2>1, TypeFacts DEF IInv, TypeOK, Ent
  <2>3. ASSUME UNCHANGED ents PROVE CookieStep
    <3>1. \A i \in Used(ents) : i <= Len(ents') /\ ents'[i].name = ents[i].name
      BY <2>2, <2>3 DEF Used
    <3> QED BY <2>2, <3>1, NothingLost
  <2>4. ASSUME NEW n \in Names, NEW o \in Objs \cup {Null}, DataAdd(n, o)
        PROVE  CookieStep
    BY <2>1, <2>4, DataAddCookies
  <2>5. ASSUME NEW p \in 1 .. MaxSz, DataDel(p) PROVE CookieStep
    BY <2>5, DataDelCookies
  <2>6. ASSUME NEW p \in 1 .. MaxSz, NEW o \in Objs \cup {Null}, DataSet(p, o)
        PROVE  CookieStep
    <3>1. /\ Len(ents') = Len(ents)
          /\ \A i \in Used(ents) : ents'[i].name = ents[i].name
      BY <2>6, DataSetInv
    <3>2. \A i \in Used(ents) : i <= Len(ents') /\ ents'[i].name = ents[i].name
      BY <2>2, <3>1 DEF Used
    <3> QED BY <2>2, <3>2, NothingLost
  <2>7. ASSUME NEW n \in Names, SrchCall(n) PROVE CookieStep
    BY <2>3, <2>7 DEF SrchCall
  <2>8. CASE SrchTurn
    BY <2>3, <2>8 DEF SrchTurn
  <2>9. CASE SrchRet
    BY <2>3, <2>9 DEF SrchRet
  <2>10. ASSUME NEW o \in Objs, UserDrop(o) PROVE CookieStep
    BY <2>3, <2>10 DEF UserDrop
  <2>11. CASE ConfFree
    BY <2>11 DEF ConfFree, CookieStep
  <2> QED
    BY <2>4, <2>5, <2>6, <2>7, <2>8, <2>9, <2>10, <2>11 DEF Next
<1>2. Init => IInv
  BY InitInv
<1>3. IInv /\ [Next]_vars => IInv'
  BY NextInv
<1> QED
  BY <1>1, <1>2, <1>3, PTL DEF Spec, CookiesStable, CookieStep, Lost

=============================================================================
