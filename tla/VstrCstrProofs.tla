--------------------------- MODULE VstrCstrProofs ---------------------------
(***************************************************************************)
(* Proofs about VstrCstr, for every number of strings, buffers and         *)
(* references, every alphabet and every bound on the length of a string.   *)
(***************************************************************************)
EXTENDS VstrCstr, VstrFacts

Byte == Char \cup {Nul}

CacheRec == [made : BOOLEAN, ref : Buf \cup {NoBuf}, off : Nat, pos : Nat,
             len : Nat, sz : Nat]

BufRec == [data : Seq(Byte), ref : Nat]

HeldRec == [kind : {"none", "cstr", "ref"}, ref : Buf \cup {NoBuf}, off : Nat,
            want : Seq(Byte)]

-----------------------------------------------------------------------------
(* Operations on bytes, byte by byte *)

(* A string with another one put into it. *)
LEMMA InsertIs ==
  ASSUME NEW A, NEW t \in Seq(A), NEW s \in Seq(A), NEW pos \in 0 .. Len(t)
  PROVE  /\ Insert(t, pos, s) \in Seq(A)
         /\ Len(Insert(t, pos, s)) = Len(t) + Len(s)
         /\ \A i \in 1 .. Len(t) + Len(s) :
              Insert(t, pos, s)[i] = IF i <= pos THEN t[i]
                                     ELSE IF i <= pos + Len(s) THEN s[i - pos]
                                     ELSE t[i - Len(s)]
<1>1. Insert(t, pos, s) = Spliced(t, pos, s)
  BY DEF Insert, Spliced
<1>2. /\ Spliced(t, pos, s) \in Seq(A)
      /\ Len(Spliced(t, pos, s)) = Len(t) + Len(s)
      /\ \A i \in 1 .. Len(t) + Len(s) :
           Spliced(t, pos, s)[i] = IF i <= pos THEN t[i]
                                   ELSE IF i <= pos + Len(s) THEN s[i - pos]
                                   ELSE t[i - Len(s)]
  BY SplicedIs
<1> QED BY ONLY <1>1, <1>2

(* A string without some of its bytes. *)
LEMMA RemoveIs ==
  ASSUME NEW A, NEW t \in Seq(A), NEW pos \in 1 .. Len(t), NEW len \in Nat,
         pos + len - 1 <= Len(t)
  PROVE  /\ Remove(t, pos, len) \in Seq(A)
         /\ Len(Remove(t, pos, len)) = Len(t) - len
         /\ \A i \in 1 .. Len(t) - len :
              Remove(t, pos, len)[i] = IF i < pos THEN t[i] ELSE t[i + len]
<1>1. Remove(t, pos, len) = Cut(t, pos, len)
  BY DEF Remove, Cut
<1>2. /\ Cut(t, pos, len) \in Seq(A)
      /\ Len(Cut(t, pos, len)) = Len(t) - len
      /\ \A i \in 1 .. Len(t) - len : Cut(t, pos, len)[i] = IF i < pos THEN t[i] ELSE t[i + len]
  BY CutIs
<1> QED BY ONLY <1>1, <1>2

(* A string with some of its bytes replaced. *)
LEMMA ReplaceIs ==
  ASSUME NEW A, NEW t \in Seq(A), NEW s \in Seq(A), NEW pos \in Nat, 1 <= pos,
         pos + Len(s) - 1 <= Len(t)
  PROVE  /\ Replace(t, pos, s) \in Seq(A)
         /\ Len(Replace(t, pos, s)) = Len(t)
         /\ \A i \in 1 .. Len(t) :
              Replace(t, pos, s)[i] = IF pos <= i /\ i <= pos + Len(s) - 1
                                      THEN s[i - pos + 1] ELSE t[i]
<1>1. Len(t) \in Nat /\ Len(s) \in Nat
  OBVIOUS
<1>2. \A i \in 1 .. Len(t) : (IF i \in pos .. PosLast(pos, Len(s))
                              THEN s[i - pos + 1] ELSE t[i]) \in A
  <2> SUFFICES ASSUME NEW i \in 1 .. Len(t), i \in pos .. PosLast(pos, Len(s))
               PROVE  s[i - pos + 1] \in A
    OBVIOUS
  <2>1. i - pos + 1 \in 1 .. Len(s)
    BY <1>1 DEF PosLast
  <2> QED BY <2>1
<1>3. Replace(t, pos, s) \in [1 .. Len(t) -> A]
  BY <1>2 DEF Replace
<1>4. Replace(t, pos, s) \in Seq(A) /\ Len(Replace(t, pos, s)) = Len(t)
  BY <1>1, <1>3
<1>5. \A i \in 1 .. Len(t) : i \in pos .. PosLast(pos, Len(s))
                             <=> pos <= i /\ i <= pos + Len(s) - 1
  BY <1>1 DEF PosLast
<1>6. \A i \in 1 .. Len(t) :
              Replace(t, pos, s)[i] = IF pos <= i /\ i <= pos + Len(s) - 1
                                      THEN s[i - pos + 1] ELSE t[i]
  BY <1>5 DEF Replace
<1> QED BY <1>4, <1>6

-----------------------------------------------------------------------------
(* The inductive invariant *)

One(p) == IF p THEN 1 ELSE 0

Owners(cs, r) == {b \in Base : cs[b].ref = r}

Holders(hd, r) == {h \in Handle : hd[h].ref = r}

(* Buffer data d holds s at off. *)
ReadsIn(d, off, s) ==
  /\ off + Len(s) <= Len(d)
  /\ \A i \in 1 .. Len(s) : d[off + i] = s[i]

(* The len bytes of t from pos on, and a NUL, are in d at off. *)
Matches(t, pos, len, d, off) ==
  /\ 1 <= pos /\ pos + len - 1 <= Len(t)
  /\ off + len + 1 <= Len(d)
  /\ \A i \in 1 .. len : d[off + i] = t[pos + i - 1]
  /\ d[off + len + 1] = Nul

(* What cache c of a string with bytes t remembers is in d. *)
Covers(t, c, d) ==
  c.made /\ c.len < c.sz /\ Matches(t, c.pos, c.len, d, c.off)

Types(st, cs, bf, hd) ==
  /\ st \in [Base -> Seq(Char)]
  /\ \A b \in Base : Len(st[b]) <= MaxLen[b]
  /\ cs \in [Base -> CacheRec]
  /\ bf \in [Buf -> BufRec]
  /\ hd \in [Handle -> HeldRec]

Counts(cs, bf, hd) ==
  \A r \in Buf : bf[r].ref = Cardinality(Owners(cs, r)) + Cardinality(Holders(hd, r))

(* The size a cache remembers is that of its buffer: what makes the next   *)
(* export that overwrites the buffer stay within it.                       *)
Sizes(cs, bf) == \A b \in Base : cs[b].ref # NoBuf => cs[b].sz = Len(bf[cs[b].ref].data)

Rights(st, cs, bf) ==
  \A b \in Base : InUse(cs[b]) => Covers(st[b], cs[b], bf[cs[b].ref].data)

HeldOK(bf, hd) ==
  \A h \in Handle : hd[h].kind = "cstr" =>
    hd[h].ref \in Buf /\ ReadsIn(bf[hd[h].ref].data, hd[h].off, hd[h].want)

InvOf(st, cs, bf, hd) ==
  /\ Types(st, cs, bf, hd)
  /\ Counts(cs, bf, hd)
  /\ Sizes(cs, bf)
  /\ Rights(st, cs, bf)
  /\ HeldOK(bf, hd)

IInv == InvOf(str, cache, buf, held)

(* The caches and the users that refer to a buffer are finitely many. *)
LEMMA RefersFinite ==
  ASSUME NEW cs, NEW hd, NEW r
  PROVE  /\ IsFiniteSet(Owners(cs, r)) /\ Cardinality(Owners(cs, r)) \in Nat
         /\ IsFiniteSet(Holders(hd, r)) /\ Cardinality(Holders(hd, r)) \in Nat
<1>1. Owners(cs, r) \subseteq Base /\ Holders(hd, r) \subseteq Handle
  BY DEF Owners, Holders
<1>2. IsFiniteSet(Base) /\ IsFiniteSet(Handle)
  BY CstrAssumption
<1>3. IsFiniteSet(Owners(cs, r)) /\ IsFiniteSet(Holders(hd, r))
  BY <1>1, <1>2, FS_Subset
<1> QED BY <1>3, FS_CardinalityType

(* A set with no more than e in it by its size has nothing but e in it. *)
LEMMA OnlyOne ==
  ASSUME NEW S, IsFiniteSet(S), NEW e, Cardinality(S) = One(e \in S)
  PROVE  \A x \in S : x = e
<1>1. CASE e \in S
  <2>1. IsFiniteSet(S \ {e}) /\ Cardinality(S \ {e}) = Cardinality(S) - 1
    BY <1>1, CardDel
  <2>2. Cardinality(S \ {e}) = 0
    BY <1>1, <2>1 DEF One
  <2>3. S \ {e} = {}
    BY <2>1, <2>2, FS_EmptySet
  <2> QED BY <2>3
<1>2. CASE e \notin S
  <2>1. Cardinality(S) = 0
    BY <1>2 DEF One
  <2>2. S = {}
    BY <2>1, FS_EmptySet
  <2> QED BY <2>2
<1> QED BY <1>1, <1>2

(* Nobody but the cache of b refers to a buffer whose count it makes up. *)
LEMMA SoleOwner ==
  ASSUME NEW cs, NEW bf, NEW hd, Counts(cs, bf, hd), NEW b \in Base, NEW r \in Buf,
         bf[r].ref = One(cs[b].ref = r)
  PROVE  /\ \A a \in Base \ {b} : cs[a].ref # r
         /\ \A h \in Handle : hd[h].ref # r
<1> DEFINE O == Owners(cs, r)
           H == Holders(hd, r)
<1>1. /\ IsFiniteSet(O) /\ Cardinality(O) \in Nat
      /\ IsFiniteSet(H) /\ Cardinality(H) \in Nat
  BY RefersFinite
<1>2. One(b \in O) = Cardinality(O) + Cardinality(H)
  BY DEF Counts, Owners, One
<1>3. b \in O => Cardinality(O) # 0
  BY <1>1, FS_EmptySet
<1>4. Cardinality(O) = One(b \in O) /\ Cardinality(H) = 0
  BY ONLY <1>1, <1>2, <1>3 DEF One
<1>5. H = {}
  BY <1>1, <1>4, FS_EmptySet
<1> HIDE DEF O, H
<1>6. \A x \in O : x = b
  BY ONLY <1>1, <1>4, OnlyOne, Zenon
<1> QED BY <1>5, <1>6 DEF O, H, Owners, Holders

(* Nobody but reference h refers to a buffer whose count it makes up. *)
LEMMA SoleHolder ==
  ASSUME NEW cs, NEW bf, NEW hd, Counts(cs, bf, hd), NEW h \in Handle, NEW r \in Buf,
         bf[r].ref = One(hd[h].ref = r)
  PROVE  /\ \A b \in Base : cs[b].ref # r
         /\ \A g \in Handle \ {h} : hd[g].ref # r
<1> DEFINE O == Owners(cs, r)
           H == Holders(hd, r)
<1>1. /\ IsFiniteSet(O) /\ Cardinality(O) \in Nat
      /\ IsFiniteSet(H) /\ Cardinality(H) \in Nat
  BY RefersFinite
<1>2. One(h \in H) = Cardinality(O) + Cardinality(H)
  BY DEF Counts, Holders, One
<1>3. h \in H => Cardinality(H) # 0
  BY <1>1, FS_EmptySet
<1>4. Cardinality(H) = One(h \in H) /\ Cardinality(O) = 0
  BY ONLY <1>1, <1>2, <1>3 DEF One
<1>5. O = {}
  BY <1>1, <1>4, FS_EmptySet
<1> HIDE DEF O, H
<1>6. \A x \in H : x = h
  BY ONLY <1>1, <1>4, OnlyOne, Zenon
<1> QED BY <1>5, <1>6 DEF O, H, Owners, Holders

-----------------------------------------------------------------------------
(* What a step may do *)

(* String b becomes t, its cache c and the buffers bf2: b gives up its     *)
(* reference to its old buffer for one to its new one, a buffer somebody   *)
(* else refers to keeps its bytes, and c remembers what is in its buffer.  *)
CacheStep(cs, bf, b, t, c, bf2) ==
  /\ b \in Base /\ t \in Seq(Char) /\ Len(t) <= MaxLen[b]
  /\ c \in CacheRec /\ bf2 \in [Buf -> BufRec]
  /\ \A r \in Buf : bf2[r].ref = bf[r].ref + One(c.ref = r) - One(cs[b].ref = r)
  /\ \A r \in Buf : bf2[r].data = bf[r].data \/ bf[r].ref = One(cs[b].ref = r)
  /\ c.ref # NoBuf => c.sz = Len(bf2[c.ref].data)
  /\ InUse(c) => Covers(t, c, bf2[c.ref].data)

(* Such a step keeps the invariant. *)
LEMMA CacheStepInv ==
  ASSUME NEW st, NEW cs, NEW bf, NEW hd, InvOf(st, cs, bf, hd),
         NEW b, NEW t, NEW c, NEW bf2, CacheStep(cs, bf, b, t, c, bf2)
  PROVE  InvOf([st EXCEPT ![b] = t], [cs EXCEPT ![b] = c], bf2, hd)
<1> DEFINE st2 == [st EXCEPT ![b] = t]
           cs2 == [cs EXCEPT ![b] = c]
<1>1. /\ Types(st, cs, bf, hd) /\ Counts(cs, bf, hd) /\ Sizes(cs, bf)
      /\ Rights(st, cs, bf) /\ HeldOK(bf, hd)
  BY DEF InvOf
<1>2. /\ b \in Base /\ t \in Seq(Char) /\ Len(t) <= MaxLen[b]
      /\ c \in CacheRec /\ bf2 \in [Buf -> BufRec]
      /\ c.ref # NoBuf => c.sz = Len(bf2[c.ref].data)
      /\ InUse(c) => Covers(t, c, bf2[c.ref].data)
  BY DEF CacheStep
<1>3. \A r \in Buf : bf2[r].ref = bf[r].ref + One(c.ref = r) - One(cs[b].ref = r)
  BY DEF CacheStep
<1>4. \A r \in Buf : bf2[r].data = bf[r].data \/ bf[r].ref = One(cs[b].ref = r)
  BY DEF CacheStep
<1>5. /\ st2[b] = t /\ cs2[b] = c
      /\ \A a \in Base \ {b} : st2[a] = st[a] /\ cs2[a] = cs[a]
      /\ st2 \in [Base -> Seq(Char)] /\ cs2 \in [Base -> CacheRec]
  BY <1>1, <1>2 DEF Types
<1> HIDE DEF st2, cs2
<1>6. Types(st2, cs2, bf2, hd)
  BY <1>1, <1>2, <1>5 DEF Types
<1>7. /\ \A a \in Base \ {b} : cs[a].ref \in Buf => bf2[cs[a].ref].data = bf[cs[a].ref].data
      /\ \A h \in Handle : hd[h].ref \in Buf => bf2[hd[h].ref].data = bf[hd[h].ref].data
  <2>1. ASSUME NEW r \in Buf, bf2[r].data # bf[r].data
        PROVE  (\A a \in Base \ {b} : cs[a].ref # r) /\ (\A h \in Handle : hd[h].ref # r)
    <3>1. bf[r].ref = One(cs[b].ref = r) /\ Counts(cs, bf, hd) /\ b \in Base
      BY <1>1, <1>2, <1>4, <2>1
    <3> QED BY <3>1, SoleOwner
  <2> QED BY <2>1
<1>8. \A a \in Base : cs2[a].ref \in Buf \cup {NoBuf}
  BY <1>5 DEF CacheRec
<1>9. Counts(cs2, bf2, hd)
  <2> SUFFICES ASSUME NEW r \in Buf
               PROVE  bf2[r].ref = Cardinality(Owners(cs2, r)) + Cardinality(Holders(hd, r))
    BY DEF Counts
  <2>1. /\ IsFiniteSet(Owners(cs, r)) /\ Cardinality(Owners(cs, r)) \in Nat
        /\ Cardinality(Holders(hd, r)) \in Nat
    BY RefersFinite
  <2>2. \A a : a # b => (a \in Owners(cs, r) <=> a \in Owners(cs2, r))
    BY <1>5 DEF Owners
  <2>3. /\ b \in Owners(cs, r) <=> cs[b].ref = r
        /\ b \in Owners(cs2, r) <=> c.ref = r
    BY <1>2, <1>5 DEF Owners
  <2>4. Cardinality(Owners(cs2, r)) = Cardinality(Owners(cs, r))
                                      + (IF b \in Owners(cs2, r) THEN 1 ELSE 0)
                                      - (IF b \in Owners(cs, r) THEN 1 ELSE 0)
    BY ONLY <2>1, <2>2, CardMove
  <2>5. bf[r].ref = Cardinality(Owners(cs, r)) + Cardinality(Holders(hd, r))
    BY <1>1 DEF Counts
  <2>6. bf2[r].ref = bf[r].ref + One(c.ref = r) - One(cs[b].ref = r)
    BY <1>3
  <2> QED BY ONLY <2>1, <2>3, <2>4, <2>5, <2>6 DEF One
<1>10. Sizes(cs2, bf2)
  <2> SUFFICES ASSUME NEW a \in Base, cs2[a].ref # NoBuf
               PROVE  cs2[a].sz = Len(bf2[cs2[a].ref].data)
    BY DEF Sizes
  <2>1. CASE a = b
    BY <2>1, <1>2, <1>5
  <2>2. CASE a # b
    BY <2>2, <1>1, <1>5, <1>7, <1>8 DEF Sizes
  <2> QED BY <2>1, <2>2
<1>11. Rights(st2, cs2, bf2)
  <2> SUFFICES ASSUME NEW a \in Base, InUse(cs2[a])
               PROVE  Covers(st2[a], cs2[a], bf2[cs2[a].ref].data)
    BY DEF Rights
  <2>1. CASE a = b
    BY <2>1, <1>2, <1>5
  <2>2. CASE a # b
    BY <2>2, <1>1, <1>5, <1>7, <1>8 DEF Rights, InUse
  <2> QED BY <2>1, <2>2
<1>12. HeldOK(bf2, hd)
  BY <1>1, <1>7 DEF HeldOK
<1> QED BY <1>6, <1>9, <1>10, <1>11, <1>12 DEF InvOf, st2, cs2

(* Reference h of a user becomes g, and the buffers bf2. *)
HoldStep(bf, hd, h, g, bf2) ==
  /\ h \in Handle /\ g \in HeldRec /\ bf2 \in [Buf -> BufRec]
  /\ \A r \in Buf : bf2[r].ref = bf[r].ref + One(g.ref = r) - One(hd[h].ref = r)
  /\ \A r \in Buf : bf2[r].data = bf[r].data \/ bf[r].ref = One(hd[h].ref = r)
  /\ g.kind = "cstr" => g.ref \in Buf /\ ReadsIn(bf2[g.ref].data, g.off, g.want)

(* Such a step keeps the invariant. *)
LEMMA HoldStepInv ==
  ASSUME NEW st, NEW cs, NEW bf, NEW hd, InvOf(st, cs, bf, hd),
         NEW h, NEW g, NEW bf2, HoldStep(bf, hd, h, g, bf2)
  PROVE  InvOf(st, cs, bf2, [hd EXCEPT ![h] = g])
<1> DEFINE hd2 == [hd EXCEPT ![h] = g]
<1>1. /\ Types(st, cs, bf, hd) /\ Counts(cs, bf, hd) /\ Sizes(cs, bf)
      /\ Rights(st, cs, bf) /\ HeldOK(bf, hd)
  BY DEF InvOf
<1>2. /\ h \in Handle /\ g \in HeldRec /\ bf2 \in [Buf -> BufRec]
      /\ g.kind = "cstr" => g.ref \in Buf /\ ReadsIn(bf2[g.ref].data, g.off, g.want)
  BY DEF HoldStep
<1>3. \A r \in Buf : bf2[r].ref = bf[r].ref + One(g.ref = r) - One(hd[h].ref = r)
  BY DEF HoldStep
<1>4. \A r \in Buf : bf2[r].data = bf[r].data \/ bf[r].ref = One(hd[h].ref = r)
  BY DEF HoldStep
<1>5. /\ hd2[h] = g /\ \A k \in Handle \ {h} : hd2[k] = hd[k]
      /\ hd2 \in [Handle -> HeldRec]
  BY <1>1, <1>2 DEF Types
<1> HIDE DEF hd2
<1>6. Types(st, cs, bf2, hd2)
  BY <1>1, <1>2, <1>5 DEF Types
<1>7. /\ \A b \in Base : cs[b].ref \in Buf => bf2[cs[b].ref].data = bf[cs[b].ref].data
      /\ \A k \in Handle \ {h} : hd[k].ref \in Buf
                                 => bf2[hd[k].ref].data = bf[hd[k].ref].data
  <2>1. ASSUME NEW r \in Buf, bf2[r].data # bf[r].data
        PROVE  (\A b \in Base : cs[b].ref # r) /\ (\A k \in Handle \ {h} : hd[k].ref # r)
    <3>1. bf[r].ref = One(hd[h].ref = r) /\ Counts(cs, bf, hd) /\ h \in Handle
      BY <1>1, <1>2, <1>4, <2>1
    <3> QED BY <3>1, SoleHolder
  <2> QED BY <2>1
<1>8. \A b \in Base : cs[b].ref \in Buf \cup {NoBuf}
  BY <1>1 DEF Types, CacheRec
<1>9. Counts(cs, bf2, hd2)
  <2> SUFFICES ASSUME NEW r \in Buf
               PROVE  bf2[r].ref = Cardinality(Owners(cs, r)) + Cardinality(Holders(hd2, r))
    BY DEF Counts
  <2>1. /\ IsFiniteSet(Holders(hd, r)) /\ Cardinality(Holders(hd, r)) \in Nat
        /\ Cardinality(Owners(cs, r)) \in Nat
    BY RefersFinite
  <2>2. \A k : k # h => (k \in Holders(hd, r) <=> k \in Holders(hd2, r))
    BY <1>5 DEF Holders
  <2>3. /\ h \in Holders(hd, r) <=> hd[h].ref = r
        /\ h \in Holders(hd2, r) <=> g.ref = r
    BY <1>2, <1>5 DEF Holders
  <2>4. Cardinality(Holders(hd2, r)) = Cardinality(Holders(hd, r))
                                       + (IF h \in Holders(hd2, r) THEN 1 ELSE 0)
                                       - (IF h \in Holders(hd, r) THEN 1 ELSE 0)
    BY ONLY <2>1, <2>2, CardMove
  <2>5. bf[r].ref = Cardinality(Owners(cs, r)) + Cardinality(Holders(hd, r))
    BY <1>1 DEF Counts
  <2>6. bf2[r].ref = bf[r].ref + One(g.ref = r) - One(hd[h].ref = r)
    BY <1>3
  <2> QED BY ONLY <2>1, <2>3, <2>4, <2>5, <2>6 DEF One
<1>10. Sizes(cs, bf2)
  BY <1>1, <1>7, <1>8 DEF Sizes
<1>11. Rights(st, cs, bf2)
  BY <1>1, <1>7, <1>8 DEF Rights, InUse
<1>12. HeldOK(bf2, hd2)
  <2> SUFFICES ASSUME NEW k \in Handle, hd2[k].kind = "cstr"
               PROVE  hd2[k].ref \in Buf
                      /\ ReadsIn(bf2[hd2[k].ref].data, hd2[k].off, hd2[k].want)
    BY DEF HeldOK
  <2>1. CASE k = h
    BY <2>1, <1>2, <1>5
  <2>2. CASE k # h
    BY <2>2, <1>1, <1>5, <1>7 DEF HeldOK
  <2> QED BY <2>1, <2>2
<1> QED BY <1>6, <1>9, <1>10, <1>11, <1>12 DEF InvOf, hd2

-----------------------------------------------------------------------------
(* References *)

(* Counting one more reference changes only the count. *)
LEMMA RefAddIs ==
  ASSUME NEW bf \in [Buf -> BufRec], NEW r \in Buf
  PROVE  /\ RefAdd(bf, r) \in [Buf -> BufRec]
         /\ \A q \in Buf : /\ RefAdd(bf, r)[q].ref = bf[q].ref + One(r = q)
                           /\ RefAdd(bf, r)[q].data = bf[q].data
<1> DEFINE x == [bf[r] EXCEPT !.ref = bf[r].ref + 1]
<1>1. bf[r] \in BufRec /\ bf[r].ref + 1 \in Nat
  BY DEF BufRec
<1>2. x \in BufRec /\ x.ref = bf[r].ref + 1 /\ x.data = bf[r].data
  BY <1>1 DEF BufRec
<1>3. RefAdd(bf, r) = [bf EXCEPT ![r] = x]
  BY DEF RefAdd
<1> HIDE DEF x
<1>4. [bf EXCEPT ![r] = x] \in [Buf -> BufRec]
  BY <1>2
<1>5. \A q \in Buf : bf[q].ref + 0 = bf[q].ref
  BY DEF BufRec
<1>6. \A q \in Buf : /\ [bf EXCEPT ![r] = x][q].ref = bf[q].ref + One(r = q)
                     /\ [bf EXCEPT ![r] = x][q].data = bf[q].data
  BY <1>2, <1>5 DEF One
<1> QED BY <1>3, <1>4, <1>6

(* Counting one less changes only the count, unless it was the last one. *)
LEMMA RefDelIs ==
  ASSUME NEW bf \in [Buf -> BufRec], NEW r \in Buf \cup {NoBuf},
         r # NoBuf => bf[r].ref >= 1
  PROVE  /\ RefDel(bf, r) \in [Buf -> BufRec]
         /\ \A q \in Buf : RefDel(bf, r)[q].ref = bf[q].ref - One(r = q)
         /\ \A q \in Buf : \/ RefDel(bf, r)[q].data = bf[q].data
                           \/ bf[q].ref = One(r = q)
<1>0. NoBuf \notin Buf /\ \A q \in Buf : bf[q].ref - 0 = bf[q].ref
  BY CstrAssumption DEF BufRec
<1>1. CASE r = NoBuf
  <2>1. RefDel(bf, r) = bf /\ \A q \in Buf : One(r = q) = 0
    BY <1>0, <1>1 DEF RefDel, One
  <2> QED BY <1>0, <2>1
<1>2. CASE r # NoBuf
  <2> DEFINE x == IF bf[r].ref = 1 THEN FreeBuf
                  ELSE [data |-> bf[r].data, ref |-> bf[r].ref - 1]
  <2>1. r \in Buf /\ bf[r] \in BufRec /\ bf[r].ref - 1 \in Nat
    BY <1>2 DEF BufRec
  <2>2. x \in BufRec /\ x.ref = bf[r].ref - 1 /\ (x.data = bf[r].data \/ bf[r].ref = 1)
    BY <2>1 DEF BufRec, FreeBuf
  <2>3. RefDel(bf, r) = [bf EXCEPT ![r] = x]
    BY <1>2 DEF RefDel
  <2> HIDE DEF x
  <2>4. [bf EXCEPT ![r] = x] \in [Buf -> BufRec]
    BY <2>2
  <2>5. \A q \in Buf : [bf EXCEPT ![r] = x][q].ref = bf[q].ref - One(r = q)
    BY <1>0, <2>2 DEF One
  <2>6. \A q \in Buf : \/ [bf EXCEPT ![r] = x][q].data = bf[q].data
                       \/ bf[q].ref = One(r = q)
    BY <2>2 DEF One
  <2> QED BY <2>3, <2>4, <2>5, <2>6
<1> QED BY <1>1, <1>2

(* A buffer somebody refers to is counted, and two caches count twice. *)
LEMMA Counted ==
  ASSUME NEW cs, NEW bf, NEW hd, Counts(cs, bf, hd)
  PROVE  /\ \A b \in Base : cs[b].ref \in Buf => bf[cs[b].ref].ref >= 1
         /\ \A h \in Handle : hd[h].ref \in Buf => bf[hd[h].ref].ref >= 1
         /\ \A a, b \in Base : a # b /\ cs[a].ref \in Buf /\ cs[a].ref = cs[b].ref
                               => bf[cs[a].ref].ref >= 2
<1>1. \A r \in Buf : /\ IsFiniteSet(Owners(cs, r)) /\ Cardinality(Owners(cs, r)) \in Nat
                     /\ IsFiniteSet(Holders(hd, r)) /\ Cardinality(Holders(hd, r)) \in Nat
  BY RefersFinite
<1>2. \A r \in Buf : bf[r].ref = Cardinality(Owners(cs, r)) + Cardinality(Holders(hd, r))
  BY DEF Counts
<1>3. ASSUME NEW b \in Base, cs[b].ref \in Buf
      PROVE  bf[cs[b].ref].ref >= 1 /\ Cardinality(Owners(cs, cs[b].ref)) >= 1
  <2>1. b \in Owners(cs, cs[b].ref)
    BY DEF Owners
  <2>2. Cardinality(Owners(cs, cs[b].ref)) # 0
    BY <1>1, <1>3, <2>1, FS_EmptySet
  <2> QED BY <1>1, <1>2, <1>3, <2>2
<1>4. ASSUME NEW h \in Handle, hd[h].ref \in Buf
      PROVE  bf[hd[h].ref].ref >= 1
  <2>1. h \in Holders(hd, hd[h].ref)
    BY DEF Holders
  <2>2. Cardinality(Holders(hd, hd[h].ref)) # 0
    BY <1>1, <1>4, <2>1, FS_EmptySet
  <2> QED BY <1>1, <1>2, <1>4, <2>2
<1>5. ASSUME NEW a \in Base, NEW b \in Base, a # b, cs[a].ref \in Buf, cs[a].ref = cs[b].ref
      PROVE  bf[cs[a].ref].ref >= 2
  <2> DEFINE O == Owners(cs, cs[a].ref)
  <2>1. a \in O /\ b \in O /\ IsFiniteSet(O) /\ Cardinality(O) \in Nat
    BY <1>1, <1>5 DEF Owners
  <2>2. Cardinality(O) # 1
    <3>1. SUFFICES ASSUME Cardinality(O) = One(a \in O)
                   PROVE  FALSE
      BY <2>1 DEF One
    <3> HIDE DEF O
    <3>2. \A x \in O : x = a
      BY ONLY <2>1, <3>1, OnlyOne, Zenon
    <3> QED BY <1>5, <2>1, <3>2
  <2>3. Cardinality(O) # 0
    BY <2>1, FS_EmptySet
  <2> QED BY <1>1, <1>2, <1>5, <2>1, <2>2, <2>3
<1> QED BY <1>3, <1>4, <1>5

-----------------------------------------------------------------------------
(* C strings *)

(* The C string of a part, byte by byte. *)
LEMMA CstrIs ==
  ASSUME NEW b \in Base, str[b] \in Seq(Char), NEW pos \in Nat, NEW len \in Nat,
         1 <= pos, pos + len - 1 <= Len(str[b])
  PROVE  /\ Cstr(b, pos, len) \in Seq(Byte)
         /\ Len(Cstr(b, pos, len)) = len + 1
         /\ \A i \in 1 .. len : Cstr(b, pos, len)[i] = str[b][pos + i - 1]
         /\ Cstr(b, pos, len)[len + 1] = Nul
<1> DEFINE p == Part(b, pos, len)
<1>1. pos + len - 1 \in Nat /\ pos <= pos + len - 1 + 1 /\ pos + len - 1 - pos + 1 = len
  OBVIOUS
<1>2. /\ p \in Seq(Char) /\ Len(p) = len
      /\ \A i \in 1 .. len : p[i] = str[b][pos + i - 1]
  <2>1. /\ SubSeq(str[b], pos, pos + len - 1) \in Seq(Char)
        /\ Len(SubSeq(str[b], pos, pos + len - 1)) = pos + len - 1 - pos + 1
        /\ \A i \in 1 .. pos + len - 1 - pos + 1 :
             SubSeq(str[b], pos, pos + len - 1)[i] = str[b][pos + i - 1]
    BY <1>1, SubSeqIs
  <2> QED BY <1>1, <2>1 DEF Part, PosLast
<1> HIDE DEF p
<1>3. p \in Seq(Byte)
  BY <1>2 DEF Byte
<1>4. Nul \in Byte
  BY DEF Byte
<1>5. /\ Append(p, Nul) \in Seq(Byte) /\ Len(Append(p, Nul)) = len + 1
      /\ \A i \in 1 .. len : Append(p, Nul)[i] = p[i]
      /\ Append(p, Nul)[len + 1] = Nul
  BY <1>2, <1>3, <1>4
<1> QED BY <1>2, <1>5 DEF Cstr, p

(* A buffer that has a part of a string reads the C string of every end of *)
(* that part.                                                              *)
LEMMA MatchesRead ==
  ASSUME NEW b \in Base, str[b] \in Seq(Char), NEW pos \in Nat, NEW len \in Nat,
         NEW off \in Nat, NEW d \in Seq(Byte), Matches(str[b], pos, len, d, off),
         NEW k \in 0 .. len
  PROVE  ReadsIn(d, off + k, Cstr(b, pos + k, len - k))
<1>1. k \in Nat /\ len - k \in Nat /\ pos + k \in Nat
      /\ Len(str[b]) \in Nat /\ Len(d) \in Nat
  OBVIOUS
<1>2. /\ 1 <= pos /\ pos + len - 1 <= Len(str[b]) /\ off + len + 1 <= Len(d)
      /\ \A i \in 1 .. len : d[off + i] = str[b][pos + i - 1]
      /\ d[off + len + 1] = Nul
  BY DEF Matches
<1> DEFINE s == Cstr(b, pos + k, len - k)
<1>3. 1 <= pos + k /\ pos + k + (len - k) - 1 <= Len(str[b])
  BY <1>1, <1>2
<1>4. /\ Len(s) = len - k + 1
      /\ \A i \in 1 .. len - k : s[i] = str[b][pos + k + i - 1]
      /\ s[len - k + 1] = Nul
  BY <1>1, <1>3, CstrIs, SMTT(30)
<1> HIDE DEF s
<1>5. off + k + Len(s) <= Len(d)
  BY <1>1, <1>2, <1>4
<1>6. ASSUME NEW i \in 1 .. Len(s)
      PROVE  d[off + k + i] = s[i]
  <2>1. CASE i <= len - k
    <3>1. i \in 1 .. len - k /\ k + i \in 1 .. len /\ off + (k + i) = off + k + i
          /\ pos + (k + i) - 1 = pos + k + i - 1
      BY <1>1, <2>1, <1>4
    <3>2. d[off + (k + i)] = str[b][pos + (k + i) - 1]
      BY <1>2, <3>1
    <3>3. s[i] = str[b][pos + k + i - 1]
      BY <1>4, <3>1
    <3> QED BY <3>1, <3>2, <3>3
  <2>2. CASE i = len - k + 1
    <3>1. off + k + i = off + len + 1
      BY <1>1, <2>2
    <3> QED BY <1>2, <1>4, <2>2, <3>1
  <2>3. i <= len - k \/ i = len - k + 1
    BY <1>1, <1>4
  <2> QED BY <2>1, <2>2, <2>3
<1> QED BY <1>5, <1>6 DEF ReadsIn, s

-----------------------------------------------------------------------------
(* Where a part of a string is after a change *)

(* The len bytes of t from pos on, but the first k, are in u from p2 on. *)
Tracks(t, pos, len, u, p2, k) ==
  /\ k \in 0 .. len /\ p2 \in Nat
  /\ 1 <= p2 /\ p2 + (len - k) - 1 <= Len(u)
  /\ \A i \in 1 .. len - k : u[p2 + i - 1] = t[pos + k + i - 1]

(* The buffer that has a part has what is left of it. *)
LEMMA MatchesTracks ==
  ASSUME NEW t, NEW u, NEW d \in Seq(Byte), NEW pos \in Nat, NEW len \in Nat,
         NEW off \in Nat, NEW p2, NEW k,
         Matches(t, pos, len, d, off), Tracks(t, pos, len, u, p2, k)
  PROVE  Matches(u, p2, len - k, d, off + k)
<1>1. /\ k \in Nat /\ len - k \in Nat /\ p2 \in Nat /\ Len(d) \in Nat
      /\ 1 <= p2 /\ p2 + (len - k) - 1 <= Len(u)
      /\ \A i \in 1 .. len - k : u[p2 + i - 1] = t[pos + k + i - 1]
  BY DEF Tracks
<1>2. /\ off + len + 1 <= Len(d) /\ d[off + len + 1] = Nul
      /\ \A i \in 1 .. len : d[off + i] = t[pos + i - 1]
  BY DEF Matches
<1>3. off + k + (len - k) + 1 = off + len + 1
  BY <1>1
<1>4. ASSUME NEW i \in 1 .. len - k
      PROVE  d[off + k + i] = u[p2 + i - 1]
  <2>1. /\ k + i \in 1 .. len /\ off + (k + i) = off + k + i
        /\ pos + (k + i) - 1 = pos + k + i - 1
    BY <1>1
  <2>2. d[off + (k + i)] = t[pos + (k + i) - 1]
    BY <1>2, <2>1
  <2> QED BY <1>1, <2>1, <2>2
<1> QED BY <1>1, <1>2, <1>3, <1>4 DEF Matches

(* Bytes before those that are added stay, and bytes after them move up. *)
LEMMA TracksInsert ==
  ASSUME NEW t \in Seq(Char), NEW s \in Seq(Char), NEW at \in 0 .. Len(t),
         NEW pos \in Nat, NEW len \in Nat, 1 <= pos, pos + len - 1 <= Len(t)
  PROVE  /\ pos + len - 1 <= at => Tracks(t, pos, len, Insert(t, at, s), pos, 0)
         /\ pos > at => Tracks(t, pos, len, Insert(t, at, s), pos + Len(s), 0)
<1> DEFINE u == Insert(t, at, s)
<1>1. Len(t) \in Nat /\ Len(s) \in Nat /\ at \in Nat
  OBVIOUS
<1>2. /\ Len(u) = Len(t) + Len(s)
      /\ \A i \in 1 .. Len(t) + Len(s) :
           u[i] = IF i <= at THEN t[i] ELSE IF i <= at + Len(s) THEN s[i - at]
                  ELSE t[i - Len(s)]
  BY InsertIs
<1> HIDE DEF u
<1>3. ASSUME pos + len - 1 <= at
      PROVE  Tracks(t, pos, len, u, pos, 0)
  <2>1. 0 \in 0 .. len /\ pos + (len - 0) - 1 <= Len(u) /\ len - 0 = len
    BY <1>1, <1>2
  <2>2. ASSUME NEW i \in 1 .. len
        PROVE  u[pos + i - 1] = t[pos + 0 + i - 1]
    <3>1. /\ pos + i - 1 \in 1 .. Len(t) + Len(s) /\ pos + i - 1 <= at
          /\ pos + i - 1 = pos + 0 + i - 1
      BY <1>1, <1>3
    <3> QED BY <1>2, <3>1
  <2> QED BY <2>1, <2>2 DEF Tracks
<1>4. ASSUME pos > at
      PROVE  Tracks(t, pos, len, u, pos + Len(s), 0)
  <2>1. /\ 0 \in 0 .. len /\ pos + Len(s) + (len - 0) - 1 <= Len(u) /\ len - 0 = len
        /\ pos + Len(s) \in Nat /\ 1 <= pos + Len(s)
    BY <1>1, <1>2
  <2>2. ASSUME NEW i \in 1 .. len
        PROVE  u[pos + Len(s) + i - 1] = t[pos + 0 + i - 1]
    <3>1. /\ pos + Len(s) + i - 1 \in 1 .. Len(t) + Len(s)
          /\ ~(pos + Len(s) + i - 1 <= at) /\ ~(pos + Len(s) + i - 1 <= at + Len(s))
          /\ pos + Len(s) + i - 1 - Len(s) = pos + 0 + i - 1
      BY <1>1, <1>4
    <3> QED BY <1>2, <3>1
  <2> QED BY <2>1, <2>2 DEF Tracks
<1> QED BY <1>3, <1>4 DEF u

(* Bytes before those that are deleted stay, bytes after them move down,   *)
(* and of a part that goes on after them the rest is where they were.      *)
LEMMA TracksRemove ==
  ASSUME NEW t \in Seq(Char), NEW at \in 1 .. Len(t), NEW n \in Nat, at + n - 1 <= Len(t),
         NEW pos \in Nat, NEW len \in Nat, 1 <= pos, pos + len - 1 <= Len(t)
  PROVE  /\ pos + len - 1 < at => Tracks(t, pos, len, Remove(t, at, n), pos, 0)
         /\ pos > at + n - 1 => Tracks(t, pos, len, Remove(t, at, n), pos - n, 0)
         /\ pos <= at + n - 1 /\ pos + len - 1 > at + n - 1
            => Tracks(t, pos, len, Remove(t, at, n), at, at + n - 1 - pos + 1)
<1> DEFINE u == Remove(t, at, n)
           k == at + n - 1 - pos + 1
<1>1. Len(t) \in Nat /\ at \in Nat /\ 1 <= at
  OBVIOUS
<1>2. /\ Len(u) = Len(t) - n
      /\ \A i \in 1 .. Len(t) - n : u[i] = IF i < at THEN t[i] ELSE t[i + n]
  BY RemoveIs
<1> HIDE DEF u
<1>3. ASSUME pos + len - 1 < at
      PROVE  Tracks(t, pos, len, u, pos, 0)
  <2>1. 0 \in 0 .. len /\ pos + (len - 0) - 1 <= Len(u) /\ len - 0 = len
    BY <1>1, <1>2, <1>3
  <2>2. ASSUME NEW i \in 1 .. len
        PROVE  u[pos + i - 1] = t[pos + 0 + i - 1]
    <3>1. /\ pos + i - 1 \in 1 .. Len(t) - n /\ pos + i - 1 < at
          /\ pos + i - 1 = pos + 0 + i - 1
      BY <1>1, <1>3
    <3> QED BY <1>2, <3>1
  <2> QED BY <2>1, <2>2 DEF Tracks
<1>4. ASSUME pos > at + n - 1
      PROVE  Tracks(t, pos, len, u, pos - n, 0)
  <2>1. /\ 0 \in 0 .. len /\ pos - n + (len - 0) - 1 <= Len(u) /\ len - 0 = len
        /\ pos - n \in Nat /\ 1 <= pos - n
    BY <1>1, <1>2, <1>4
  <2>2. ASSUME NEW i \in 1 .. len
        PROVE  u[pos - n + i - 1] = t[pos + 0 + i - 1]
    <3>1. /\ pos - n + i - 1 \in 1 .. Len(t) - n /\ ~(pos - n + i - 1 < at)
          /\ pos - n + i - 1 + n = pos + 0 + i - 1
      BY <1>1, <1>4
    <3> QED BY <1>2, <3>1
  <2> QED BY <2>1, <2>2 DEF Tracks
<1>5. ASSUME pos <= at + n - 1, pos + len - 1 > at + n - 1
      PROVE  Tracks(t, pos, len, u, at, k)
  <2>1. k \in 0 .. len /\ at + (len - k) - 1 <= Len(u)
    BY <1>1, <1>2, <1>5
  <2>2. ASSUME NEW i \in 1 .. len - k
        PROVE  u[at + i - 1] = t[pos + k + i - 1]
    <3>1. /\ at + i - 1 \in 1 .. Len(t) - n /\ ~(at + i - 1 < at)
          /\ at + i - 1 + n = pos + k + i - 1
      BY <1>1, <1>5
    <3> QED BY <1>2, <3>1
  <2> QED BY <1>1, <2>1, <2>2 DEF Tracks
<1> QED BY <1>3, <1>4, <1>5 DEF u

(* Bytes before the end that is cut off, or that are not substituted, stay. *)
LEMMA TracksSame ==
  ASSUME NEW t \in Seq(Char), NEW u \in Seq(Char), NEW pos \in Nat, NEW len \in Nat,
         1 <= pos, pos + len - 1 <= Len(u),
         \A i \in 1 .. len : u[pos + i - 1] = t[pos + i - 1]
  PROVE  Tracks(t, pos, len, u, pos, 0)
<1>1. 0 \in 0 .. len /\ len - 0 = len /\ pos + (len - 0) - 1 <= Len(u)
  OBVIOUS
<1>2. \A i \in 1 .. len : pos + 0 + i - 1 = pos + i - 1
  OBVIOUS
<1> QED BY <1>1, <1>2 DEF Tracks

(* A part that ends within what is copied to another string is there too,  *)
(* but for what comes before the first byte that is copied.                *)
LEMMA TracksCopy ==
  ASSUME NEW t \in Seq(Char), NEW at \in 0 .. Len(t), NEW f \in Base, str[f] \in Seq(Char),
         NEW fpos \in Nat, NEW n \in Nat, 1 <= fpos, fpos + n - 1 <= Len(str[f]),
         NEW pos \in Nat, NEW len \in Nat, 1 <= pos, pos + len - 1 <= Len(str[f]),
         len > 0, fpos <= pos + len - 1, pos + len - 1 <= fpos + n - 1,
         NEW k \in Nat, k = IF fpos < pos THEN 0 ELSE fpos - pos,
         NEW j \in Nat, j = IF fpos < pos THEN pos - fpos ELSE 0
  PROVE  Tracks(str[f], pos, len, Insert(t, at, Part(f, fpos, n)), at + 1 + j, k)
<1> DEFINE s == Part(f, fpos, n)
           u == Insert(t, at, s)
<1>1. Len(t) \in Nat /\ at \in Nat /\ at <= Len(t) /\ Len(str[f]) \in Nat
  OBVIOUS
<1>2. s \in Seq(Char) /\ Len(s) = n /\ \A i \in 1 .. n : s[i] = str[f][fpos + i - 1]
  <2>1. fpos + n - 1 \in Nat /\ fpos <= fpos + n - 1 + 1 /\ fpos + n - 1 - fpos + 1 = n
    OBVIOUS
  <2>2. /\ SubSeq(str[f], fpos, fpos + n - 1) \in Seq(Char)
        /\ Len(SubSeq(str[f], fpos, fpos + n - 1)) = fpos + n - 1 - fpos + 1
        /\ \A i \in 1 .. fpos + n - 1 - fpos + 1 :
             SubSeq(str[f], fpos, fpos + n - 1)[i] = str[f][fpos + i - 1]
    BY <2>1, SubSeqIs
  <2> QED BY <2>1, <2>2 DEF Part, PosLast
<1> HIDE DEF s, u
<1>3. /\ Len(u) = Len(t) + n
      /\ \A i \in 1 .. Len(t) + n :
           u[i] = IF i <= at THEN t[i] ELSE IF i <= at + n THEN s[i - at] ELSE t[i - n]
  <2>1. /\ Len(u) = Len(t) + Len(s)
        /\ \A i \in 1 .. Len(t) + Len(s) :
             u[i] = IF i <= at THEN t[i] ELSE IF i <= at + Len(s) THEN s[i - at]
                    ELSE t[i - Len(s)]
    <3>1. t \in Seq(Char) /\ s \in Seq(Char) /\ at \in 0 .. Len(t)
      BY <1>2
    <3> QED BY ONLY <3>1, InsertIs DEF u
  <2> QED BY ONLY <1>2, <2>1
<1>4. /\ k \in 0 .. len /\ at + 1 + j \in Nat /\ 1 <= at + 1 + j
      /\ at + 1 + j + (len - k) - 1 <= Len(u)
  <2>1. CASE fpos < pos
    BY <1>1, <1>3, <2>1, SMTT(30)
  <2>2. CASE ~(fpos < pos)
    BY <1>1, <1>3, <2>2
  <2> QED BY <2>1, <2>2
<1>5. ASSUME NEW i \in 1 .. len - k
      PROVE  u[at + 1 + j + i - 1] = str[f][pos + k + i - 1]
  <2>1. /\ at + 1 + j + i - 1 \in 1 .. Len(t) + n /\ ~(at + 1 + j + i - 1 <= at)
        /\ at + 1 + j + i - 1 <= at + n /\ at + 1 + j + i - 1 - at = j + i
        /\ j + i \in 1 .. n /\ fpos + (j + i) - 1 = pos + k + i - 1
    <3>1. CASE fpos < pos
      BY <1>1, <1>4, <3>1
    <3>2. CASE ~(fpos < pos)
      BY <1>1, <1>4, <3>2
    <3> QED BY <3>1, <3>2
  <2>2. u[at + 1 + j + i - 1] = s[j + i]
    BY ONLY <1>3, <2>1
  <2>3. s[j + i] = str[f][fpos + (j + i) - 1]
    BY <1>2, <2>1
  <2> QED BY <2>1, <2>2, <2>3
<1> QED BY <1>4, <1>5 DEF Tracks, u, s

-----------------------------------------------------------------------------
(* What a change does to the cache *)

(* Cache c of a string with bytes t becomes c2 when its bytes become u: it *)
(* keeps its buffer, and remembers nothing or what is left of what c did.  *)
Follows(t, c, u, c2) ==
  /\ c2 \in CacheRec /\ c2.ref = c.ref /\ c2.sz = c.sz
  /\ \/ ~InUse(c2)
     \/ /\ InUse(c) /\ c2.made = c.made
        /\ \E k : /\ c2.len = c.len - k /\ c2.off = c.off + k
                  /\ Tracks(t, c.pos, c.len, u, c2.pos, k)

(* A change that the cache follows keeps the invariant. *)
LEMMA FollowsInv ==
  ASSUME NEW st, NEW cs, NEW bf, NEW hd, InvOf(st, cs, bf, hd), NEW b \in Base,
         NEW u \in Seq(Char), Len(u) <= MaxLen[b], NEW c2, Follows(st[b], cs[b], u, c2)
  PROVE  InvOf([st EXCEPT ![b] = u], [cs EXCEPT ![b] = c2], bf, hd)
<1>1. /\ bf \in [Buf -> BufRec] /\ cs[b] \in CacheRec /\ c2 \in CacheRec
      /\ c2.ref = cs[b].ref /\ c2.sz = cs[b].sz
  BY DEF InvOf, Types, Follows
<1>2. \A r \in Buf : bf[r].ref = bf[r].ref + One(c2.ref = r) - One(cs[b].ref = r)
  BY <1>1 DEF BufRec, One
<1>3. c2.ref # NoBuf => c2.sz = Len(bf[c2.ref].data)
  BY <1>1 DEF InvOf, Sizes
<1>4. ASSUME InUse(c2)
      PROVE  Covers(u, c2, bf[c2.ref].data)
  <2>1. InUse(cs[b]) /\ c2.made = cs[b].made
    BY <1>4 DEF Follows
  <2>2. PICK k : /\ c2.len = cs[b].len - k /\ c2.off = cs[b].off + k
                 /\ Tracks(st[b], cs[b].pos, cs[b].len, u, c2.pos, k)
    BY <1>4 DEF Follows
  <2> DEFINE d == bf[c2.ref].data
  <2>3. /\ cs[b].made /\ cs[b].len < cs[b].sz
        /\ Matches(st[b], cs[b].pos, cs[b].len, d, cs[b].off)
    BY <1>1, <2>1 DEF InvOf, Rights, Covers
  <2>4. /\ d \in Seq(Byte) /\ cs[b].pos \in Nat /\ cs[b].len \in Nat /\ cs[b].off \in Nat
        /\ cs[b].sz \in Nat
    BY <1>1, <1>4 DEF InUse, CacheRec, BufRec
  <2> HIDE DEF d
  <2>5. Matches(u, c2.pos, cs[b].len - k, d, cs[b].off + k)
    BY ONLY <2>2, <2>3, <2>4, MatchesTracks
  <2>6. k \in 0 .. cs[b].len
    BY <2>2 DEF Tracks
  <2>7. c2.len < c2.sz
    BY <1>1, <2>2, <2>3, <2>4, <2>6
  <2> QED BY <1>1, <2>1, <2>2, <2>3, <2>5, <2>7 DEF Covers, d
<1>5. CacheStep(cs, bf, b, u, c2, bf)
  BY <1>1, <1>2, <1>3, <1>4 DEF CacheStep
<1> QED BY <1>5, CacheStepInv

(* What is remembered lies within the string. *)
Within(t, c) == InUse(c) => 1 <= c.pos /\ c.pos + c.len - 1 <= Len(t)

(* In a state that satisfies the invariant it does. *)
LEMMA InvWithin ==
  ASSUME NEW st, NEW cs, NEW bf, NEW hd, InvOf(st, cs, bf, hd), NEW b \in Base
  PROVE  Within(st[b], cs[b]) /\ cs[b] \in CacheRec /\ st[b] \in Seq(Char)
         /\ Len(st[b]) <= MaxLen[b] /\ Len(st[b]) \in Nat
BY DEF InvOf, Types, Rights, Covers, Matches, Within

(* A cache that forgets. *)
LEMMA ForgottenFollows ==
  ASSUME NEW t, NEW u, NEW c \in CacheRec
  PROVE  Follows(t, c, u, Forgotten(c))
BY DEF Follows, Forgotten, InUse, CacheRec

(* A cache that does not remember anything stays as it is. *)
LEMMA UnusedFollows ==
  ASSUME NEW t, NEW u, NEW c \in CacheRec, ~InUse(c)
  PROVE  Follows(t, c, u, c)
BY DEF Follows

Moved(c, p2) == [c EXCEPT !.pos = p2]

(* A cache whose part is at p2 now. *)
LEMMA MovedFollows ==
  ASSUME NEW t, NEW u, NEW c \in CacheRec, InUse(c), NEW p2,
         Tracks(t, c.pos, c.len, u, p2, 0)
  PROVE  Follows(t, c, u, Moved(c, p2))
<1> DEFINE c2 == Moved(c, p2)
<1>1. p2 \in Nat
  BY DEF Tracks
<1>2. c2 \in CacheRec /\ c2.ref = c.ref /\ c2.sz = c.sz /\ c2.made = c.made /\ c2.pos = p2
      /\ c2.len = c.len /\ c2.off = c.off
  BY <1>1 DEF CacheRec, Moved
<1>3. c.len - 0 = c.len /\ c.off + 0 = c.off
  BY DEF CacheRec
<1> HIDE DEF c2
<1>4. /\ c2.len = c.len - 0 /\ c2.off = c.off + 0
      /\ Tracks(t, c.pos, c.len, u, c2.pos, 0)
  BY <1>2, <1>3
<1>5. Follows(t, c, u, c2)
  BY <1>2, <1>4 DEF Follows
<1> QED BY <1>5 DEF c2

(* A cache whose part stays where it is. *)
LEMMA StaysFollows ==
  ASSUME NEW t, NEW u, NEW c \in CacheRec, InUse(c), Tracks(t, c.pos, c.len, u, c.pos, 0)
  PROVE  Follows(t, c, u, c)
<1>1. /\ c.len = c.len - 0 /\ c.off = c.off + 0
  BY DEF CacheRec
<1> QED BY <1>1 DEF Follows

(* A cache that keeps the end of its part, as vstr__cache_cstr_cb() does   *)
(* for a delete over the start of it.                                      *)
LEMMA KeptFollows ==
  ASSUME NEW t, NEW u, NEW c \in CacheRec, InUse(c), NEW pos, NEW end \in Int,
         Tracks(t, c.pos, c.len, u, pos, end - c.pos + 1)
  PROVE  Follows(t, c, u, Kept(c, pos, end))
<1> DEFINE k == end - c.pos + 1
           c2 == Kept(c, pos, end)
<1>1. c.len \in Nat /\ c.off \in Nat /\ c.pos \in Nat
  BY DEF CacheRec
<1>2. pos \in Nat /\ k \in 0 .. c.len
  BY DEF Tracks
<1>3. c.len - k \in Nat /\ c.off + k \in Nat
  BY <1>1, <1>2
<1>4. c2 = [c EXCEPT !.len = c.len - k, !.off = c.off + k, !.pos = pos]
  BY DEF Kept, PosDiff
<1> HIDE DEF k, c2
<1>5. c2 \in CacheRec /\ c2.ref = c.ref /\ c2.sz = c.sz /\ c2.made = c.made
      /\ c2.pos = pos /\ c2.len = c.len - k /\ c2.off = c.off + k
  BY <1>2, <1>3, <1>4 DEF CacheRec
<1>6. Tracks(t, c.pos, c.len, u, c2.pos, k)
  BY <1>5 DEF k
<1>7. Follows(t, c, u, c2)
  BY <1>5, <1>6 DEF Follows
<1> QED BY <1>7 DEF c2

(* The three callbacks and the two inline deletes: whatever the change, a  *)
(* cache that was right before it is right after it.                       *)
LEMMA CbAddFollows ==
  ASSUME NEW t \in Seq(Char), NEW s \in Seq(Char), NEW pos \in 0 .. Len(t),
         NEW c \in CacheRec, Within(t, c)
  PROVE  Follows(t, c, Insert(t, pos, s), CbAdd(c, pos, Len(s)))
<1> DEFINE u == Insert(t, pos, s)
<1>1. c.pos \in Nat /\ c.len \in Nat /\ pos \in Nat
  BY DEF CacheRec
<1>2. CASE ~InUse(c)
  BY <1>2, UnusedFollows DEF CbAdd
<1>3. CASE InUse(c)
  <2>1. 1 <= c.pos /\ c.pos + c.len - 1 <= Len(t)
    BY <1>3 DEF Within
  <2>2. /\ c.pos + c.len - 1 <= pos => Tracks(t, c.pos, c.len, u, c.pos, 0)
        /\ c.pos > pos => Tracks(t, c.pos, c.len, u, c.pos + Len(s), 0)
    BY <1>1, <2>1, TracksInsert
  <2> HIDE DEF u
  <2>3. CASE c.pos + c.len - 1 <= pos
    <3>1. CbAdd(c, pos, Len(s)) = c
      BY <1>1, <2>3 DEF CbAdd, PosLast, InUse
    <3> QED BY <1>3, <2>2, <2>3, <3>1, StaysFollows DEF u
  <2>4. CASE ~(c.pos + c.len - 1 <= pos) /\ c.pos > pos
    <3>1. CbAdd(c, pos, Len(s)) = Moved(c, c.pos + Len(s))
      BY <1>1, <1>3, <2>4 DEF CbAdd, PosLast, Moved
    <3> QED BY <1>3, <2>2, <2>4, <3>1, MovedFollows DEF u
  <2>5. CASE ~(c.pos + c.len - 1 <= pos) /\ ~(c.pos > pos)
    <3>1. CbAdd(c, pos, Len(s)) = Forgotten(c)
      BY <1>3, <2>5 DEF CbAdd, PosLast
    <3> QED BY <3>1, ForgottenFollows
  <2> QED BY <2>3, <2>4, <2>5
<1> QED BY <1>2, <1>3

(* The callback for a delete. *)
LEMMA CbDelFollows ==
  ASSUME NEW t \in Seq(Char), NEW pos \in 1 .. Len(t), NEW len \in Nat,
         pos + len - 1 <= Len(t), NEW c \in CacheRec, Within(t, c)
  PROVE  Follows(t, c, Remove(t, pos, len), CbDel(c, pos, len))
<1> DEFINE u == Remove(t, pos, len)
           end == pos + len - 1
<1>1. c.pos \in Nat /\ c.len \in Nat /\ pos \in Nat /\ end \in Int
  BY DEF CacheRec
<1>2. CASE ~InUse(c)
  BY <1>2, UnusedFollows DEF CbDel
<1>3. CASE InUse(c)
  <2>1. 1 <= c.pos /\ c.pos + c.len - 1 <= Len(t)
    BY <1>3 DEF Within
  <2>2. /\ c.pos + c.len - 1 < pos => Tracks(t, c.pos, c.len, u, c.pos, 0)
        /\ c.pos > end => Tracks(t, c.pos, c.len, u, c.pos - len, 0)
        /\ c.pos <= end /\ c.pos + c.len - 1 > end
           => Tracks(t, c.pos, c.len, u, pos, end - c.pos + 1)
    BY <1>1, <2>1, TracksRemove
  <2> HIDE DEF u
  <2>3. CASE c.pos + c.len - 1 < pos
    <3>1. CbDel(c, pos, len) = c
      BY <1>1, <2>3 DEF CbDel, PosLast, InUse
    <3> QED BY <1>3, <2>2, <2>3, <3>1, StaysFollows DEF u
  <2>4. CASE ~(c.pos + c.len - 1 < pos) /\ c.pos > end
    <3>1. CbDel(c, pos, len) = Moved(c, c.pos - len)
      BY <1>1, <1>3, <2>4 DEF CbDel, PosLast, Moved, InUse
    <3> QED BY <1>3, <2>2, <2>4, <3>1, MovedFollows DEF u
  <2>5. CASE ~(c.pos + c.len - 1 < pos) /\ c.pos <= end /\ c.pos + c.len - 1 > end
    <3>1. CbDel(c, pos, len) = Kept(c, pos, end)
      BY <1>1, <1>3, <2>5 DEF CbDel, PosLast
    <3> HIDE DEF end
    <3> QED BY <1>1, <1>3, <2>2, <2>5, <3>1, KeptFollows DEF u
  <2>6. CASE ~(c.pos + c.len - 1 < pos) /\ c.pos <= end /\ ~(c.pos + c.len - 1 > end)
    <3>1. CbDel(c, pos, len) = Forgotten(c)
      BY <1>1, <1>3, <2>6 DEF CbDel, PosLast
    <3> QED BY <3>1, ForgottenFollows
  <2>7. c.pos > end \/ c.pos <= end
    BY <1>1
  <2> QED BY <2>3, <2>4, <2>5, <2>6, <2>7
<1> QED BY <1>2, <1>3

(* The callback for a substitution. *)
LEMMA CbSubFollows ==
  ASSUME NEW t \in Seq(Char), NEW s \in Seq(Char), NEW pos \in Nat, 1 <= pos,
         pos + Len(s) - 1 <= Len(t), NEW c \in CacheRec, Within(t, c)
  PROVE  Follows(t, c, Replace(t, pos, s), CbSub(c, pos, Len(s)))
<1> DEFINE u == Replace(t, pos, s)
<1>1. c.pos \in Nat /\ c.len \in Nat /\ Len(s) \in Nat /\ Len(t) \in Nat
  BY DEF CacheRec
<1>2. /\ u \in Seq(Char) /\ Len(u) = Len(t)
      /\ \A i \in 1 .. Len(t) : u[i] = IF pos <= i /\ i <= pos + Len(s) - 1
                                       THEN s[i - pos + 1] ELSE t[i]
  BY ReplaceIs
<1> HIDE DEF u
<1>3. CASE ~InUse(c)
  BY <1>3, UnusedFollows DEF CbSub, u
<1>4. CASE InUse(c) /\ (c.pos + c.len - 1 < pos \/ c.pos > pos + Len(s) - 1)
  <2>1. 1 <= c.pos /\ c.pos + c.len - 1 <= Len(t)
    BY <1>4 DEF Within
  <2>2. ASSUME NEW i \in 1 .. c.len
        PROVE  u[c.pos + i - 1] = t[c.pos + i - 1]
    <3>1. /\ c.pos + i - 1 \in 1 .. Len(t)
          /\ ~(pos <= c.pos + i - 1 /\ c.pos + i - 1 <= pos + Len(s) - 1)
      BY <1>1, <1>4, <2>1, SMTT(30)
    <3> QED BY ONLY <1>2, <3>1
  <2>3. Tracks(t, c.pos, c.len, u, c.pos, 0)
    BY <1>1, <1>2, <2>1, <2>2, TracksSame
  <2>4. CbSub(c, pos, Len(s)) = c
    BY <1>4 DEF CbSub, PosLast
  <2> QED BY <1>4, <2>3, <2>4, StaysFollows DEF u
<1>5. CASE InUse(c) /\ ~(c.pos + c.len - 1 < pos \/ c.pos > pos + Len(s) - 1)
  <2>1. CbSub(c, pos, Len(s)) = Forgotten(c)
    BY <1>5 DEF CbSub, PosLast
  <2> QED BY <2>1, ForgottenFollows
<1> QED BY <1>3, <1>4, <1>5

(* The inline delete at the start. *)
LEMMA InlineBegFollows ==
  ASSUME NEW t \in Seq(Char), NEW len \in 1 .. Len(t), NEW c \in CacheRec, Within(t, c)
  PROVE  Follows(t, c, Remove(t, 1, len), InlineBeg(c, len))
<1> DEFINE u == Remove(t, 1, len)
<1>1. c.pos \in Nat /\ c.len \in Nat /\ len \in Nat /\ 1 \in 1 .. Len(t) /\ Len(t) \in Nat
      /\ 1 + len - 1 = len /\ len <= Len(t)
  BY DEF CacheRec
<1>2. CASE ~InUse(c)
  BY <1>2, UnusedFollows DEF InlineBeg
<1>3. CASE InUse(c)
  <2>1. 1 <= c.pos /\ c.pos + c.len - 1 <= Len(t)
    BY <1>3 DEF Within
  <2>2. /\ c.pos > len => Tracks(t, c.pos, c.len, u, c.pos - len, 0)
        /\ c.pos <= len /\ c.pos + c.len - 1 > len
           => Tracks(t, c.pos, c.len, u, 1, len - c.pos + 1)
    <3>1. /\ c.pos > 1 + len - 1 => Tracks(t, c.pos, c.len, u, c.pos - len, 0)
          /\ c.pos <= 1 + len - 1 /\ c.pos + c.len - 1 > 1 + len - 1
             => Tracks(t, c.pos, c.len, u, 1, 1 + len - 1 - c.pos + 1)
      BY <1>1, <2>1, TracksRemove
    <3> HIDE DEF u
    <3> QED BY ONLY <1>1, <3>1
  <2> HIDE DEF u
  <2>3. CASE c.pos > len
    <3>1. InlineBeg(c, len) = Moved(c, c.pos - len)
      BY <1>1, <1>3, <2>3 DEF InlineBeg, PosLast, Moved, InUse
    <3> QED BY <1>3, <2>2, <2>3, <3>1, MovedFollows DEF u
  <2>4. CASE c.pos <= len /\ c.pos + c.len - 1 > len
    <3>1. InlineBeg(c, len) = Kept(c, 1, len)
      BY <1>1, <1>3, <2>4 DEF InlineBeg, PosLast
    <3> QED BY <1>1, <1>3, <2>2, <2>4, <3>1, KeptFollows DEF u
  <2>5. CASE c.pos <= len /\ ~(c.pos + c.len - 1 > len)
    <3>1. InlineBeg(c, len) = Forgotten(c)
      BY <1>1, <1>3, <2>5 DEF InlineBeg, PosLast
    <3> QED BY <3>1, ForgottenFollows
  <2>6. c.pos > len \/ c.pos <= len
    BY <1>1
  <2> QED BY <2>3, <2>4, <2>5, <2>6
<1> QED BY <1>2, <1>3

(* The inline delete at the end. *)
LEMMA InlineEndFollows ==
  ASSUME NEW t \in Seq(Char), NEW pos \in 1 .. Len(t), NEW c \in CacheRec, Within(t, c)
  PROVE  Follows(t, c, SubSeq(t, 1, pos - 1), InlineEnd(c, pos))
<1> DEFINE u == SubSeq(t, 1, pos - 1)
<1>1. c.pos \in Nat /\ c.len \in Nat /\ pos \in Nat /\ Len(t) \in Nat /\ pos - 1 \in Nat
      /\ pos <= Len(t)
  BY DEF CacheRec
<1>2. /\ u \in Seq(Char) /\ Len(u) = pos - 1
      /\ \A i \in 1 .. pos - 1 : u[i] = t[i]
  BY <1>1, SubSeqIs
<1> HIDE DEF u
<1>3. CASE ~InUse(c)
  BY <1>3, UnusedFollows DEF InlineEnd, u
<1>4. CASE InUse(c) /\ c.pos + c.len - 1 >= pos
  <2>1. InlineEnd(c, pos) = Forgotten(c)
    BY <1>4 DEF InlineEnd, PosLast
  <2> QED BY <2>1, ForgottenFollows
<1>5. CASE InUse(c) /\ ~(c.pos + c.len - 1 >= pos)
  <2>1. InlineEnd(c, pos) = c
    BY <1>5 DEF InlineEnd, PosLast
  <2>2. 1 <= c.pos /\ c.pos + c.len - 1 <= pos - 1
    BY <1>1, <1>5 DEF Within
  <2>3. \A i \in 1 .. c.len : c.pos + i - 1 \in 1 .. pos - 1
    BY <1>1, <2>2
  <2>4. Tracks(t, c.pos, c.len, u, c.pos, 0)
    BY <1>1, <1>2, <2>2, <2>3, TracksSame
  <2> QED BY <1>5, <2>1, <2>4, StaysFollows DEF u
<1> QED BY <1>3, <1>4, <1>5

-----------------------------------------------------------------------------
(* Changes keep the invariant *)

(* Empty strings, with nothing remembered, satisfy the invariant. *)
LEMMA InitInv == Init => IInv
<1> SUFFICES ASSUME Init PROVE IInv
  OBVIOUS
<1>1. \A b \in Base : NewCache(b) \in CacheRec /\ NewCache(b).ref = NoBuf
  BY DEF NewCache, CacheRec
<1>2. FreeBuf \in BufRec /\ FreeBuf.ref = 0
  BY DEF FreeBuf, BufRec
<1>3. NotHeld \in HeldRec /\ NotHeld.ref = NoBuf /\ NotHeld.kind = "none"
  BY DEF NotHeld, HeldRec
<1>4. \A b \in Base : MaxLen[b] \in Nat
  BY CstrAssumption
<1>5. /\ str \in [Base -> Seq(Char)] /\ \A b \in Base : Len(str[b]) <= MaxLen[b]
  BY <1>4 DEF Init
<1>6. Types(str, cache, buf, held)
  BY <1>1, <1>2, <1>3, <1>5 DEF Init, Types
<1>7. \A b \in Base : cache[b].ref = NoBuf
  BY <1>1 DEF Init
<1>8. \A h \in Handle : held[h].ref = NoBuf /\ held[h].kind = "none"
  BY <1>3 DEF Init
<1>9. Counts(cache, buf, held)
  <2> SUFFICES ASSUME NEW r \in Buf
               PROVE  buf[r].ref = Cardinality(Owners(cache, r)) + Cardinality(Holders(held, r))
    BY DEF Counts
  <2>1. Owners(cache, r) = {} /\ Holders(held, r) = {}
    BY <1>7, <1>8, CstrAssumption DEF Owners, Holders
  <2>2. buf[r].ref = 0
    BY <1>2 DEF Init
  <2>3. Cardinality({}) = 0
    BY FS_EmptySet
  <2> QED BY <2>1, <2>2, <2>3
<1>10. Sizes(cache, buf) /\ Rights(str, cache, buf) /\ HeldOK(buf, held)
  BY <1>7, <1>8 DEF Sizes, Rights, InUse, HeldOK
<1> QED BY <1>6, <1>9, <1>10 DEF IInv, InvOf

(* What the user gives is a string. *)
LEMMA TextType ==
  ASSUME NEW s \in Texts
  PROVE  s \in Seq(Char) /\ Len(s) \in Nat /\ Len(s) >= 1
<1>1. MaxAdd \in Nat
  BY CstrAssumption
<1>2. PICK n \in 1 .. MaxAdd : s \in [1 .. n -> Char]
  BY DEF Texts
<1>3. n \in Nat /\ n >= 1
  BY <1>1
<1>4. s \in Seq(Char)
  BY <1>2, <1>3
<1>5. Len(s) = n
  BY <1>2, <1>3
<1> QED BY <1>3, <1>4, <1>5

(* vstr_add_buf() keeps the invariant. *)
LEMMA AddInv ==
  ASSUME IInv, NEW b \in Base, NEW pos \in 0 .. Len(str[b]), NEW s \in Texts, Add(b, pos, s)
  PROVE  IInv'
<1> DEFINE u == Insert(str[b], pos, s)
           c2 == CbAdd(cache[b], pos, Len(s))
<1>1. /\ Within(str[b], cache[b]) /\ cache[b] \in CacheRec /\ str[b] \in Seq(Char)
      /\ s \in Seq(Char)
  BY InvWithin, TextType DEF IInv
<1>2. Follows(str[b], cache[b], u, c2)
  BY ONLY <1>1, pos \in 0 .. Len(str[b]), CbAddFollows
<1>3. u \in Seq(Char) /\ Len(u) = Len(str[b]) + Len(s)
  BY <1>1, InsertIs
<1>4. Len(str[b]) + Len(s) <= MaxLen[b]
  BY DEF Add
<1>5. str' = [str EXCEPT ![b] = u] /\ cache' = [cache EXCEPT ![b] = c2]
      /\ buf' = buf /\ held' = held
  BY DEF Add
<1> HIDE DEF u, c2
<1>6. InvOf([str EXCEPT ![b] = u], [cache EXCEPT ![b] = c2], buf, held)
  BY <1>2, <1>3, <1>4, FollowsInv DEF IInv
<1> QED BY <1>5, <1>6 DEF IInv

(* vstr_del() keeps the invariant. *)
LEMMA DelInv ==
  ASSUME IInv, NEW b \in Base, NEW pos \in Positions(b),
         NEW len \in 1 .. PosDiff(pos, Len(str[b])), Del(b, pos, len)
  PROVE  IInv'
<1> DEFINE u == Remove(str[b], pos, len)
           c2 == CbDel(cache[b], pos, len)
<1>1. /\ Within(str[b], cache[b]) /\ cache[b] \in CacheRec /\ str[b] \in Seq(Char)
      /\ Len(str[b]) <= MaxLen[b] /\ Len(str[b]) \in Nat
  BY InvWithin DEF IInv
<1>2. /\ pos \in 1 .. Len(str[b]) /\ len \in Nat /\ pos + len - 1 <= Len(str[b])
  BY <1>1 DEF Positions, PosDiff
<1>3. Follows(str[b], cache[b], u, c2)
  BY ONLY <1>1, <1>2, CbDelFollows
<1>4. u \in Seq(Char) /\ Len(u) = Len(str[b]) - len
  BY <1>1, <1>2, RemoveIs
<1>5. MaxLen[b] \in Nat
  BY CstrAssumption
<1>6. str' = [str EXCEPT ![b] = u] /\ cache' = [cache EXCEPT ![b] = c2]
      /\ buf' = buf /\ held' = held
  BY DEF Del
<1> HIDE DEF u, c2
<1>7. Len(u) <= MaxLen[b]
  BY <1>1, <1>2, <1>4, <1>5
<1>8. InvOf([str EXCEPT ![b] = u], [cache EXCEPT ![b] = c2], buf, held)
  BY <1>3, <1>4, <1>7, FollowsInv DEF IInv
<1> QED BY <1>6, <1>8 DEF IInv

(* The inline vstr_del() at the start keeps the invariant. *)
LEMMA DelInlineBegInv ==
  ASSUME IInv, NEW b \in Base, NEW len \in Positions(b), DelInlineBeg(b, len)
  PROVE  IInv'
<1> DEFINE u == Remove(str[b], 1, len)
           c2 == InlineBeg(cache[b], len)
<1>1. /\ Within(str[b], cache[b]) /\ cache[b] \in CacheRec /\ str[b] \in Seq(Char)
      /\ Len(str[b]) <= MaxLen[b] /\ Len(str[b]) \in Nat
  BY InvWithin DEF IInv
<1>2. /\ len \in 1 .. Len(str[b]) /\ 1 \in 1 .. Len(str[b]) /\ len \in Nat
      /\ 1 + len - 1 <= Len(str[b])
  BY <1>1 DEF Positions
<1>3. Follows(str[b], cache[b], u, c2)
  BY ONLY <1>1, <1>2, InlineBegFollows
<1>4. u \in Seq(Char) /\ Len(u) = Len(str[b]) - len
  BY ONLY <1>1, <1>2, RemoveIs
<1>5. MaxLen[b] \in Nat
  BY CstrAssumption
<1>6. str' = [str EXCEPT ![b] = u] /\ cache' = [cache EXCEPT ![b] = c2]
      /\ buf' = buf /\ held' = held
  BY DEF DelInlineBeg
<1> HIDE DEF u, c2
<1>7. Len(u) <= MaxLen[b]
  BY <1>1, <1>2, <1>4, <1>5
<1>8. InvOf([str EXCEPT ![b] = u], [cache EXCEPT ![b] = c2], buf, held)
  BY <1>3, <1>4, <1>7, FollowsInv DEF IInv
<1> QED BY <1>6, <1>8 DEF IInv

(* The inline vstr_del() at the end keeps the invariant. *)
LEMMA DelInlineEndInv ==
  ASSUME IInv, NEW b \in Base, NEW pos \in Positions(b), DelInlineEnd(b, pos)
  PROVE  IInv'
<1> DEFINE u == SubSeq(str[b], 1, pos - 1)
           c2 == InlineEnd(cache[b], pos)
<1>1. /\ Within(str[b], cache[b]) /\ cache[b] \in CacheRec /\ str[b] \in Seq(Char)
      /\ Len(str[b]) <= MaxLen[b] /\ Len(str[b]) \in Nat
  BY InvWithin DEF IInv
<1>2. /\ pos \in 1 .. Len(str[b]) /\ pos - 1 \in Nat /\ 1 <= pos - 1 + 1
      /\ pos - 1 <= Len(str[b]) /\ pos - 1 - 1 + 1 = pos - 1
  BY <1>1 DEF Positions
<1>3. Follows(str[b], cache[b], u, c2)
  BY ONLY <1>1, <1>2, InlineEndFollows
<1>4. u \in Seq(Char) /\ Len(u) = pos - 1
  BY <1>1, <1>2, SubSeqIs
<1>5. MaxLen[b] \in Nat
  BY CstrAssumption
<1>6. str' = [str EXCEPT ![b] = u] /\ cache' = [cache EXCEPT ![b] = c2]
      /\ buf' = buf /\ held' = held
  BY DEF DelInlineEnd
<1> HIDE DEF u, c2
<1>7. Len(u) <= MaxLen[b]
  BY <1>1, <1>2, <1>4, <1>5
<1>8. InvOf([str EXCEPT ![b] = u], [cache EXCEPT ![b] = c2], buf, held)
  BY <1>3, <1>4, <1>7, FollowsInv DEF IInv
<1> QED BY <1>6, <1>8 DEF IInv

(* vstr__sub_buf_fast() keeps the invariant. *)
LEMMA SubInv ==
  ASSUME IInv, NEW b \in Base, NEW pos \in Positions(b), NEW s \in Texts, Sub(b, pos, s)
  PROVE  IInv'
<1> DEFINE u == Replace(str[b], pos, s)
           c2 == CbSub(cache[b], pos, Len(s))
<1>1. /\ Within(str[b], cache[b]) /\ cache[b] \in CacheRec /\ str[b] \in Seq(Char)
      /\ Len(str[b]) <= MaxLen[b] /\ Len(str[b]) \in Nat /\ s \in Seq(Char)
  BY InvWithin, TextType DEF IInv
<1>2. pos \in Nat /\ 1 <= pos /\ pos + Len(s) - 1 <= Len(str[b])
  BY <1>1 DEF Positions, Sub, PosLast
<1>3. Follows(str[b], cache[b], u, c2)
  BY ONLY <1>1, <1>2, CbSubFollows
<1>4. u \in Seq(Char) /\ Len(u) = Len(str[b])
  BY ONLY <1>1, <1>2, ReplaceIs
<1>5. str' = [str EXCEPT ![b] = u] /\ cache' = [cache EXCEPT ![b] = c2]
      /\ buf' = buf /\ held' = held
  BY DEF Sub
<1> HIDE DEF u, c2
<1>6. InvOf([str EXCEPT ![b] = u], [cache EXCEPT ![b] = c2], buf, held)
  BY <1>1, <1>3, <1>4, FollowsInv DEF IInv
<1> QED BY <1>5, <1>6 DEF IInv

(* vstr_add_vstr() that fails: after the callbacks for the add and for the *)
(* delete the cache is as before, or has forgotten.                        *)
LEMMA AddVstrFailsInv ==
  ASSUME IInv, NEW b \in Base, NEW pos \in 0 .. Len(str[b]), NEW len \in 1 .. MaxLen[b],
         AddVstrFails(b, pos, len)
  PROVE  IInv'
<1> DEFINE c == cache[b]
           c1 == CbAdd(c, pos, len)
           c2 == CbDel(c1, pos + 1, len)
<1>1. /\ Within(str[b], c) /\ c \in CacheRec /\ str[b] \in Seq(Char)
      /\ Len(str[b]) <= MaxLen[b] /\ Len(str[b]) \in Nat
  BY InvWithin DEF IInv
<1>2. pos \in Nat /\ len \in Nat /\ len >= 1 /\ c.pos \in Nat /\ c.len \in Nat
  BY <1>1, CstrAssumption DEF CacheRec
<1>3. Follows(str[b], c, str[b], c2)
  <2>1. CASE ~InUse(c)
    <3>1. c1 = c
      BY <2>1 DEF CbAdd
    <3> HIDE DEF c1
    <3>2. c2 = c
      BY <2>1, <3>1 DEF CbDel
    <3> HIDE DEF c2
    <3> QED BY <1>1, <2>1, <3>2, UnusedFollows
  <2>2. CASE InUse(c)
    <3>0. c.len > 0 /\ c.ref # NoBuf /\ 1 <= c.pos /\ c.pos + c.len - 1 <= Len(str[b])
      BY <1>1, <2>2 DEF InUse, Within
    <3>1. Tracks(str[b], c.pos, c.len, str[b], c.pos, 0)
      BY <1>1, <1>2, <3>0, TracksSame
    <3>2. Follows(str[b], c, str[b], c)
      BY <1>1, <2>2, <3>1, StaysFollows
    <3>3. CASE c.pos + c.len - 1 <= pos
      <4>1. c1 = c
        BY <1>2, <3>0, <3>3 DEF CbAdd, PosLast, InUse
      <4> HIDE DEF c1
      <4>2. c2 = c
        BY <1>2, <3>0, <3>3, <4>1 DEF CbDel, PosLast, InUse
      <4> HIDE DEF c2
      <4> QED BY <3>2, <4>2
    <3>4. CASE c.pos > pos
      <4>1. c1 = Moved(c, c.pos + len)
        BY <1>2, <2>2, <3>0, <3>4 DEF CbAdd, PosLast, Moved
      <4> HIDE DEF c1
      <4>2. /\ c1 \in CacheRec /\ c1.pos = c.pos + len /\ c1.len = c.len
            /\ c1.ref = c.ref /\ c1.off = c.off /\ c1.sz = c.sz /\ c1.made = c.made
        BY <1>1, <1>2, <4>1 DEF Moved, CacheRec
      <4>3. InUse(c1)
        BY <2>2, <4>2 DEF InUse
      <4>4. /\ ~(c1.pos + c1.len - 1 < pos + 1) /\ c1.pos > pos + 1 + len - 1
            /\ c1.pos - len = c.pos
        BY <1>2, <3>0, <3>4, <4>2
      <4>5. c2 = Moved(c1, c1.pos - len)
        BY <1>2, <4>2, <4>3, <4>4 DEF CbDel, PosLast, Moved
      <4> HIDE DEF c2
      <4>6. /\ c2 \in CacheRec /\ c2.pos = c.pos /\ c2.len = c.len
            /\ c2.ref = c.ref /\ c2.off = c.off /\ c2.sz = c.sz /\ c2.made = c.made
        BY <1>2, <4>2, <4>4, <4>5 DEF Moved, CacheRec
      <4>7. c.len - 0 = c.len /\ c.off + 0 = c.off
        BY <1>1 DEF CacheRec
      <4>8. /\ c2.len = c.len - 0 /\ c2.off = c.off + 0
            /\ Tracks(str[b], c.pos, c.len, str[b], c2.pos, 0)
        BY <3>1, <4>6, <4>7
      <4> HIDE DEF c
      <4> QED BY <2>2, <4>6, <4>8 DEF Follows
    <3>5. CASE ~(c.pos + c.len - 1 <= pos) /\ ~(c.pos > pos)
      <4>1. c1 = Forgotten(c)
        BY <2>2, <3>5 DEF CbAdd, PosLast
      <4> HIDE DEF c1
      <4>2. Follows(str[b], c, str[b], c1)
        BY <1>1, <4>1, ForgottenFollows
      <4>3. ~InUse(c1)
        BY <1>1, <4>1 DEF Forgotten, InUse, CacheRec
      <4>4. c2 = c1
        BY <4>3 DEF CbDel
      <4> HIDE DEF c2
      <4> QED BY <4>2, <4>4
    <3> QED BY <3>3, <3>4, <3>5
  <2> QED BY <2>1, <2>2
<1>4. str' = str /\ cache' = [cache EXCEPT ![b] = c2] /\ buf' = buf /\ held' = held
  BY DEF AddVstrFails
<1> HIDE DEF c, c1, c2
<1>5. [str EXCEPT ![b] = str[b]] = str
  BY DEF IInv, InvOf, Types
<1>6. InvOf([str EXCEPT ![b] = str[b]], [cache EXCEPT ![b] = c2], buf, held)
  BY <1>1, <1>3, FollowsInv DEF IInv, c
<1> QED BY <1>4, <1>5, <1>6 DEF IInv

(* The cache of b gives up its buffer. *)
LEMMA DropInv ==
  ASSUME NEW st, NEW cs, NEW bf, NEW hd, InvOf(st, cs, bf, hd), NEW b \in Base,
         NEW u \in Seq(Char), Len(u) <= MaxLen[b], NEW c2 \in CacheRec, c2.ref = NoBuf
  PROVE  InvOf([st EXCEPT ![b] = u], [cs EXCEPT ![b] = c2], RefDel(bf, cs[b].ref), hd)
<1> DEFINE r == cs[b].ref
           bf2 == RefDel(bf, r)
<1>1. bf \in [Buf -> BufRec] /\ r \in Buf \cup {NoBuf} /\ Counts(cs, bf, hd)
  BY DEF InvOf, Types, CacheRec
<1>2. r # NoBuf => bf[r].ref >= 1
  BY <1>1, Counted
<1> HIDE DEF r
<1>3. /\ bf2 \in [Buf -> BufRec]
      /\ \A q \in Buf : bf2[q].ref = bf[q].ref - One(r = q)
      /\ \A q \in Buf : bf2[q].data = bf[q].data \/ bf[q].ref = One(r = q)
  BY <1>1, <1>2, RefDelIs
<1> HIDE DEF bf2
<1>4. ~InUse(c2) /\ \A q \in Buf : One(c2.ref = q) = 0
  BY CstrAssumption DEF InUse, One
<1>5. \A q \in Buf : bf2[q].ref = bf[q].ref + One(c2.ref = q) - One(r = q)
  BY <1>1, <1>3, <1>4 DEF BufRec, One
<1>6. CacheStep(cs, bf, b, u, c2, bf2)
  BY <1>3, <1>4, <1>5 DEF CacheStep, r
<1> QED BY <1>6, CacheStepInv DEF bf2, r

(* A cache that was freed has no buffer. *)
LEMMA FreedType ==
  ASSUME IInv, NEW b \in Base
  PROVE  CacheFreed(b) \in CacheRec /\ CacheFreed(b).ref = NoBuf
<1>1. cache[b] \in CacheRec /\ (b \in GrpCstr) \in BOOLEAN
  BY DEF IInv, InvOf, Types
<1> QED BY <1>1 DEF CacheFreed, CacheRec

(* Freeing the cache keeps the invariant. *)
LEMMA CacheCbFreeInv ==
  ASSUME IInv, NEW b \in Base, CacheCbFree(b)
  PROVE  IInv'
<1> DEFINE c2 == CacheFreed(b)
<1>1. c2 \in CacheRec /\ c2.ref = NoBuf
  BY FreedType
<1>2. str' = str /\ cache' = [cache EXCEPT ![b] = c2] /\ buf' = RefDel(buf, cache[b].ref)
      /\ held' = held
  BY DEF CacheCbFree
<1> HIDE DEF c2
<1>3. /\ [str EXCEPT ![b] = str[b]] = str /\ str[b] \in Seq(Char)
      /\ Len(str[b]) <= MaxLen[b]
  BY DEF IInv, InvOf, Types
<1>4. InvOf([str EXCEPT ![b] = str[b]], [cache EXCEPT ![b] = c2],
            RefDel(buf, cache[b].ref), held)
  BY <1>1, <1>3, DropInv DEF IInv
<1> QED BY <1>2, <1>3, <1>4 DEF IInv

(* vstr_free_base() keeps the invariant. *)
LEMMA FreeBaseInv ==
  ASSUME IInv, NEW b \in Base, FreeBase(b)
  PROVE  IInv'
<1> DEFINE c2 == CacheFreed(b)
           e == <<>>
<1>1. c2 \in CacheRec /\ c2.ref = NoBuf
  BY FreedType
<1>2. str' = [str EXCEPT ![b] = e] /\ cache' = [cache EXCEPT ![b] = c2]
      /\ buf' = RefDel(buf, cache[b].ref) /\ held' = held
  BY DEF FreeBase
<1>3. e \in Seq(Char) /\ Len(e) <= MaxLen[b]
  BY CstrAssumption
<1> HIDE DEF c2, e
<1>4. InvOf([str EXCEPT ![b] = e], [cache EXCEPT ![b] = c2],
            RefDel(buf, cache[b].ref), held)
  BY <1>1, <1>3, DropInv DEF IInv
<1> QED BY <1>2, <1>4 DEF IInv

(* An export that gets no memory keeps the invariant. *)
LEMMA ExportCstrFailsInv ==
  ASSUME IInv, NEW b \in Base, NEW pos, NEW len, ExportCstrFails(b, pos, len)
  PROVE  IInv'
<1> DEFINE c2 == [cache[b] EXCEPT !.made = TRUE, !.ref = NoBuf]
<1>1. cache[b] \in CacheRec
  BY DEF IInv, InvOf, Types
<1>2. c2 \in CacheRec /\ c2.ref = NoBuf
  BY <1>1 DEF CacheRec
<1>3. str' = str /\ cache' = [cache EXCEPT ![b] = c2] /\ buf' = RefDel(buf, cache[b].ref)
      /\ held' = held
  BY DEF ExportCstrFails
<1> HIDE DEF c2
<1>4. /\ [str EXCEPT ![b] = str[b]] = str /\ str[b] \in Seq(Char)
      /\ Len(str[b]) <= MaxLen[b]
  BY DEF IInv, InvOf, Types
<1>5. InvOf([str EXCEPT ![b] = str[b]], [cache EXCEPT ![b] = c2],
            RefDel(buf, cache[b].ref), held)
  BY <1>2, <1>4, DropInv DEF IInv
<1> QED BY <1>3, <1>4, <1>5 DEF IInv

(* vstr__cache_cstr_cpy(): string b, whose bytes are u now and whose cache *)
(* remembers nothing, takes over what the cache of f remembers.            *)
LEMMA CopiedInv ==
  ASSUME NEW st, NEW cs, NEW bf, NEW hd, InvOf(st, cs, bf, hd), NEW b \in Base,
         NEW f \in Base, ~InUse(cs[b]), cs[b].made, InUse(cs[f]),
         NEW pos \in Nat, NEW fpos \in Nat,
         NEW k \in Nat, k = IF fpos < cs[f].pos THEN 0 ELSE fpos - cs[f].pos,
         NEW j \in Nat, j = IF fpos < cs[f].pos THEN cs[f].pos - fpos ELSE 0,
         Tracks(st[f], cs[f].pos, cs[f].len, st[b], pos + 1 + j, k)
  PROVE  InvOf(st, [cs EXCEPT ![b] = Copied(cs[b], cs[f], pos, fpos)],
               CopiedBuf(bf, cs[b], cs[f]), hd)
<1> DEFINE c == cs[b]
           d == cs[f]
           c2 == Copied(c, d, pos, fpos)
           bf1 == RefDel(bf, c.ref)
           bf2 == RefAdd(bf1, d.ref)
<1>1. /\ bf \in [Buf -> BufRec] /\ c \in CacheRec /\ d \in CacheRec /\ Counts(cs, bf, hd)
      /\ st[b] \in Seq(Char) /\ Len(st[b]) <= MaxLen[b] /\ [st EXCEPT ![b] = st[b]] = st
  BY DEF InvOf, Types
<1>2. /\ c.ref \in Buf \cup {NoBuf} /\ d.ref \in Buf /\ d.len \in Nat /\ d.off \in Nat
      /\ d.pos \in Nat /\ d.sz \in Nat /\ b # f
  BY <1>1 DEF CacheRec, InUse
<1>3. c2 = [c EXCEPT !.ref = d.ref, !.sz = d.sz, !.off = d.off + k, !.len = d.len - k,
                     !.pos = pos + 1 + j]
  BY DEF Copied
<1>5. Tracks(st[f], d.pos, d.len, st[b], pos + 1 + j, k)
  OBVIOUS
<1>4. k \in 0 .. d.len /\ d.len - k \in Nat /\ d.off + k \in Nat /\ pos + 1 + j \in Nat
  <2>1. k \in 0 .. d.len
    BY <1>5 DEF Tracks
  <2> HIDE DEF d
  <2> QED BY ONLY <1>2, <2>1, k \in Nat, pos \in Nat, j \in Nat
<1>6. /\ d.made /\ d.len < d.sz /\ Matches(st[f], d.pos, d.len, bf[d.ref].data, d.off)
      /\ d.sz = Len(bf[d.ref].data)
  BY <1>2, CstrAssumption DEF InvOf, Rights, Covers, Sizes
<1>7. c.made
  OBVIOUS
<1>8. /\ c.ref # NoBuf => bf[c.ref].ref >= 1
      /\ bf[d.ref].ref >= 1
      /\ c.ref = d.ref => bf[d.ref].ref >= 2
  BY <1>1, <1>2, Counted
<1> HIDE DEF c2
<1>9. /\ c2 \in CacheRec /\ c2.ref = d.ref /\ c2.sz = d.sz /\ c2.off = d.off + k
      /\ c2.len = d.len - k /\ c2.pos = pos + 1 + j /\ c2.made = c.made
  BY <1>1, <1>2, <1>3, <1>4 DEF CacheRec
<1>10. /\ bf1 \in [Buf -> BufRec]
       /\ \A q \in Buf : bf1[q].ref = bf[q].ref - One(c.ref = q)
       /\ \A q \in Buf : bf1[q].data = bf[q].data \/ bf[q].ref = One(c.ref = q)
  BY <1>1, <1>2, <1>8, RefDelIs
<1> HIDE DEF bf1
<1>11. /\ bf2 \in [Buf -> BufRec]
       /\ \A q \in Buf : bf2[q].ref = bf1[q].ref + One(d.ref = q)
       /\ \A q \in Buf : bf2[q].data = bf1[q].data
  BY <1>2, <1>10, RefAddIs
<1> HIDE DEF bf2
<1>12. \A q \in Buf : bf2[q].ref = bf[q].ref + One(c2.ref = q) - One(c.ref = q)
  BY <1>1, <1>9, <1>10, <1>11 DEF BufRec, One
<1>13. \A q \in Buf : bf2[q].data = bf[q].data \/ bf[q].ref = One(c.ref = q)
  BY <1>10, <1>11
<1>14. bf2[d.ref].data = bf[d.ref].data
  <2>1. bf[d.ref].ref # One(c.ref = d.ref)
    BY <1>8 DEF One
  <2> QED BY <1>2, <1>13, <2>1
<1>15. Covers(st[b], c2, bf2[c2.ref].data)
  <2>1. bf[d.ref].data \in Seq(Byte)
    BY <1>1, <1>2 DEF BufRec
  <2> DEFINE x == bf[d.ref].data
  <2> HIDE DEF x, c, d
  <2>2. Matches(st[b], pos + 1 + j, d.len - k, x, d.off + k)
    BY ONLY <1>2, <1>5, <1>6, <2>1, MatchesTracks DEF x
  <2>3. c2.len < c2.sz
    BY <1>2, <1>4, <1>6, <1>9
  <2> QED BY <1>7, <1>9, <1>14, <2>2, <2>3 DEF Covers, x
<1>16. c2.sz = Len(bf2[c2.ref].data)
  BY <1>6, <1>9, <1>14
<1>17. CacheStep(cs, bf, b, st[b], c2, bf2)
  BY <1>1, <1>9, <1>11, <1>12, <1>13, <1>15, <1>16 DEF CacheStep
<1>18. InvOf([st EXCEPT ![b] = st[b]], [cs EXCEPT ![b] = c2], bf2, hd)
  BY <1>17, CacheStepInv
<1> QED BY <1>1, <1>18 DEF CopiedBuf, bf2, bf1, c2

(* vstr_add_vstr() keeps the invariant, whether the cache is copied or     *)
(* not.                                                                    *)
LEMMA AddVstrInv ==
  ASSUME IInv, NEW b \in Base, NEW pos \in 0 .. Len(str[b]), NEW f \in Base,
         NEW fpos \in Positions(f), NEW len \in 1 .. PosDiff(fpos, Len(str[f])),
         AddVstr(b, pos, f, fpos, len)
  PROVE  IInv'
<1> DEFINE s == Part(f, fpos, len)
           u == Insert(str[b], pos, s)
           c2 == CbAdd(cache[b], pos, len)
           cs == [cache EXCEPT ![b] = c2]
           st == [str EXCEPT ![b] = u]
<1>1. /\ Within(str[b], cache[b]) /\ cache[b] \in CacheRec /\ str[b] \in Seq(Char)
      /\ Len(str[b]) \in Nat
  BY InvWithin DEF IInv
<1>2. /\ Within(str[f], cache[f]) /\ cache[f] \in CacheRec /\ str[f] \in Seq(Char)
      /\ Len(str[f]) \in Nat
  BY InvWithin DEF IInv
<1>3. /\ fpos \in Nat /\ len \in Nat /\ 1 <= fpos /\ fpos + len - 1 <= Len(str[f])
      /\ pos \in Nat
  BY <1>1, <1>2 DEF Positions, PosDiff
<1>4. s \in Seq(Char) /\ Len(s) = len
  <2>1. fpos + len - 1 \in Nat /\ fpos <= fpos + len - 1 + 1
        /\ fpos + len - 1 - fpos + 1 = len
    BY <1>3
  <2> QED BY <1>2, <1>3, <2>1, SubSeqIs DEF Part, PosLast
<1> HIDE DEF s
<1>5. Follows(str[b], cache[b], u, c2)
  <2>1. Follows(str[b], cache[b], u, CbAdd(cache[b], pos, Len(s)))
    BY ONLY <1>1, <1>4, pos \in 0 .. Len(str[b]), CbAddFollows
  <2> QED BY <1>4, <2>1
<1>6. u \in Seq(Char) /\ Len(u) = Len(str[b]) + Len(s)
  BY <1>1, <1>4, InsertIs
<1>7. Len(u) <= MaxLen[b]
  BY <1>4, <1>6 DEF AddVstr
<1> HIDE DEF u, c2
<1>8. InvOf(st, cs, buf, held)
  BY <1>5, <1>6, <1>7, FollowsInv DEF IInv
<1>9. str' = st /\ held' = held
  BY DEF AddVstr, s, u
<1>10. /\ cs[b] = c2 /\ \A a \in Base \ {b} : cs[a] = cache[a]
       /\ st[b] = u /\ \A a \in Base \ {b} : st[a] = str[a]
  BY DEF IInv, InvOf, Types
<1>11. CASE ~Copies(cs[b], cs[f], fpos, len)
  <2>1. cache' = cs /\ buf' = buf
    BY <1>11 DEF AddVstr, c2
  <2> QED BY <1>8, <1>9, <2>1 DEF IInv
<1>12. CASE Copies(cs[b], cs[f], fpos, len)
  <2>1. /\ cache' = [cs EXCEPT ![b] = Copied(cs[b], cs[f], pos, fpos)]
        /\ buf' = CopiedBuf(buf, cs[b], cs[f])
    BY <1>12, <1>10 DEF AddVstr, c2
  <2> HIDE DEF cs, st
  <2> DEFINE d == cs[f]
  <2>2. /\ cs[b].made /\ ~InUse(cs[b]) /\ InUse(d)
        /\ fpos <= d.pos + d.len - 1 /\ fpos + len - 1 >= d.pos + d.len - 1
    BY <1>12 DEF Copies, PosLast
  <2>3. f # b /\ d = cache[f] /\ st[f] = str[f]
    BY <1>10, <2>2
  <2>4. d \in CacheRec /\ d.pos \in Nat /\ d.len \in Nat /\ d.len > 0
        /\ 1 <= d.pos /\ d.pos + d.len - 1 <= Len(str[f])
    BY <1>2, <2>2, <2>3 DEF CacheRec, InUse, Within
  <2> DEFINE k == IF fpos < d.pos THEN 0 ELSE fpos - d.pos
             j == IF fpos < d.pos THEN d.pos - fpos ELSE 0
  <2>5. k \in Nat /\ j \in Nat
    BY <1>3, <2>4
  <2> HIDE DEF d
  <2>6. Tracks(str[f], d.pos, d.len, u, pos + 1 + j, k)
    <3>1. d.pos + d.len - 1 <= fpos + len - 1
      BY <1>3, <2>2, <2>4
    <3>2. k = (IF fpos < d.pos THEN 0 ELSE fpos - d.pos)
          /\ j = (IF fpos < d.pos THEN d.pos - fpos ELSE 0)
      OBVIOUS
    <3> HIDE DEF k, j
    <3>3. Tracks(str[f], d.pos, d.len, Insert(str[b], pos, Part(f, fpos, len)),
                 pos + 1 + j, k)
      BY <1>1, <1>2, <1>3, <2>2, <2>4, <2>5, <3>1, <3>2, TracksCopy
    <3> QED BY <3>3 DEF u, s
  <2>7. Tracks(st[f], cs[f].pos, cs[f].len, st[b], pos + 1 + j, k)
    BY <1>10, <2>3, <2>6 DEF d
  <2>8. k = (IF fpos < cs[f].pos THEN 0 ELSE fpos - cs[f].pos)
        /\ j = (IF fpos < cs[f].pos THEN cs[f].pos - fpos ELSE 0)
    BY DEF d
  <2> HIDE DEF k, j
  <2>9. InvOf(st, [cs EXCEPT ![b] = Copied(cs[b], cs[f], pos, fpos)],
              CopiedBuf(buf, cs[b], cs[f]), held)
    BY <1>3, <1>8, <2>2, <2>5, <2>7, <2>8, CopiedInv DEF d
  <2> QED BY <1>9, <2>1, <2>9 DEF IInv
<1> QED BY <1>11, <1>12

-----------------------------------------------------------------------------
(* Exports and releases keep the invariant *)

(* A buffer that starts with a C string has the part it was made from. *)
LEMMA CstrMatches ==
  ASSUME NEW b \in Base, str[b] \in Seq(Char), NEW pos \in Nat, NEW len \in Nat,
         1 <= pos, pos + len - 1 <= Len(str[b]), NEW d \in Seq(Byte), len + 1 <= Len(d),
         \A i \in 1 .. len + 1 : d[i] = Cstr(b, pos, len)[i]
  PROVE  Matches(str[b], pos, len, d, 0) /\ ReadsIn(d, 0, Cstr(b, pos, len))
<1> DEFINE s == Cstr(b, pos, len)
<1>1. /\ Len(s) = len + 1 /\ s[len + 1] = Nul
      /\ \A i \in 1 .. len : s[i] = str[b][pos + i - 1]
  BY CstrIs
<1>2. \A i \in 1 .. len + 1 : d[i] = s[i]
  OBVIOUS
<1> HIDE DEF s
<1>3. len + 1 \in 1 .. len + 1 /\ 0 + len + 1 = len + 1
      /\ \A i \in 1 .. len : i \in 1 .. len + 1 /\ 0 + i = i
  OBVIOUS
<1>4. Matches(str[b], pos, len, d, 0)
  BY <1>1, <1>2, <1>3 DEF Matches
<1>5. /\ 0 + Len(s) <= Len(d)
      /\ \A i \in 1 .. Len(s) : i \in 1 .. len + 1 /\ 0 + i = i
  BY <1>1
<1>6. ReadsIn(d, 0, s)
  BY <1>2, <1>5 DEF ReadsIn
<1> QED BY <1>4, <1>6 DEF s

(* What vstr__export_cstr_cache() leaves behind: a good state, in which    *)
(* the buffer it returns reads the C string that was asked for.            *)
Exported(b, pos, len, e) ==
  /\ InvOf(str, [cache EXCEPT ![b] = e.cache], e.buf, held)
  /\ e.cache.ref \in Buf /\ e.off \in Nat
  /\ ReadsIn(e.buf[e.cache.ref].data, e.off, Cstr(b, pos, len))

(* The cache has it. *)
LEMMA HitExported ==
  ASSUME IInv, NEW b \in Base, NEW pos \in Nat, NEW len \in Nat, Hit(cache[b], pos, len)
  PROVE  Exported(b, pos, len, [cache |-> cache[b], buf |-> buf,
                                off |-> cache[b].off + (pos - cache[b].pos)])
<1> DEFINE c == cache[b]
           d == buf[c.ref].data
           k == pos - c.pos
<1>1. /\ c \in CacheRec /\ c.pos \in Nat /\ c.len \in Nat /\ c.off \in Nat
      /\ buf \in [Buf -> BufRec] /\ str[b] \in Seq(Char)
      /\ [cache EXCEPT ![b] = cache[b]] = cache
  BY DEF IInv, InvOf, Types, CacheRec
<1>2. InUse(c) /\ pos >= c.pos /\ c.len - k = len
  BY DEF Hit
<1>3. c.ref \in Buf
  BY <1>1, <1>2 DEF InUse, CacheRec
<1>4. d \in Seq(Byte) /\ Matches(str[b], c.pos, c.len, d, c.off)
  BY <1>1, <1>2, <1>3 DEF IInv, InvOf, Rights, Covers, BufRec
<1> HIDE DEF c, d
<1>5. k \in 0 .. c.len /\ c.pos + k = pos /\ c.off + k \in Nat
  BY ONLY <1>1, <1>2, pos \in Nat, len \in Nat, SMTT(30)
<1>6. ReadsIn(d, c.off + k, Cstr(b, c.pos + k, c.len - k))
  <2> HIDE DEF k
  <2> QED BY <1>1, <1>4, <1>5, MatchesRead
<1>7. ReadsIn(d, c.off + k, Cstr(b, pos, len))
  BY <1>2, <1>5, <1>6
<1> QED BY <1>1, <1>3, <1>5, <1>7 DEF Exported, IInv, c, d

(* The cache takes buffer r, which has the C string at its start. *)
LEMMA RememberExported ==
  ASSUME IInv, NEW b \in Base, NEW pos \in Nat, NEW len \in Nat,
         1 <= pos, pos + len - 1 <= Len(str[b]), NEW r \in Buf, NEW sz \in Nat, len < sz,
         NEW bf2 \in [Buf -> BufRec],
         \A q \in Buf : bf2[q].ref = buf[q].ref + One(r = q) - One(cache[b].ref = q),
         \A q \in Buf : bf2[q].data = buf[q].data \/ buf[q].ref = One(cache[b].ref = q),
         sz = Len(bf2[r].data),
         \A i \in 1 .. len + 1 : bf2[r].data[i] = Cstr(b, pos, len)[i]
  PROVE  Exported(b, pos, len, [cache |-> Remember(cache[b], r, pos, len, sz),
                                buf |-> bf2, off |-> 0])
<1> DEFINE c2 == Remember(cache[b], r, pos, len, sz)
           d == bf2[r].data
<1>1. /\ cache[b] \in CacheRec /\ str[b] \in Seq(Char) /\ Len(str[b]) <= MaxLen[b]
      /\ [str EXCEPT ![b] = str[b]] = str
  BY DEF IInv, InvOf, Types
<1>2. /\ c2 \in CacheRec /\ c2.made /\ c2.ref = r /\ c2.off = 0 /\ c2.pos = pos
      /\ c2.len = len /\ c2.sz = sz
  BY <1>1 DEF Remember, CacheRec
<1> HIDE DEF c2
<1>3. d \in Seq(Byte) /\ len + 1 <= Len(d)
  BY DEF BufRec
<1>4. Matches(str[b], pos, len, d, 0) /\ ReadsIn(d, 0, Cstr(b, pos, len))
  <2>1. \A i \in 1 .. len + 1 : d[i] = Cstr(b, pos, len)[i]
    OBVIOUS
  <2> HIDE DEF d
  <2> QED BY <1>1, <1>3, <2>1, CstrMatches
<1>5. Covers(str[b], c2, bf2[c2.ref].data)
  BY <1>2, <1>4 DEF Covers
<1>6. CacheStep(cache, buf, b, str[b], c2, bf2)
  BY <1>1, <1>2, <1>5 DEF CacheStep
<1>7. InvOf([str EXCEPT ![b] = str[b]], [cache EXCEPT ![b] = c2], bf2, held)
  BY <1>6, CacheStepInv DEF IInv
<1>8. InvOf(str, [cache EXCEPT ![b] = c2], bf2, held)
  BY <1>1, <1>7
<1> QED BY <1>2, <1>4, <1>8 DEF Exported, c2

(* The buffer is overwritten: nobody but the cache refers to it. *)
LEMMA OverwriteExported ==
  ASSUME IInv, NEW b \in Base, NEW pos \in Nat, NEW len \in Nat,
         1 <= pos, pos + len - 1 <= Len(str[b]), Overwrites(cache[b], len)
  PROVE  Exported(b, pos, len,
                  [cache |-> Remember(cache[b], cache[b].ref, pos, len, cache[b].sz),
                   buf |-> [buf EXCEPT ![cache[b].ref].data =
                              Replace(@, 1, Cstr(b, pos, len))],
                   off |-> 0])
<1> DEFINE r == cache[b].ref
           s == Cstr(b, pos, len)
           d == Replace(buf[r].data, 1, s)
           x == [buf[r] EXCEPT !.data = d]
           bf2 == [buf EXCEPT ![r].data = Replace(@, 1, s)]
<1>1. /\ cache[b] \in CacheRec /\ str[b] \in Seq(Char) /\ buf \in [Buf -> BufRec]
      /\ cache[b].sz \in Nat /\ r # NoBuf /\ cache[b].sz > len /\ buf[r].ref = 1
  BY DEF IInv, InvOf, Types, Overwrites, CacheRec
<1>2. r \in Buf /\ buf[r] \in BufRec /\ buf[r].data \in Seq(Byte)
  BY <1>1 DEF CacheRec, BufRec
<1>3. cache[b].sz = Len(buf[r].data)
  BY <1>1 DEF IInv, InvOf, Sizes
<1>4. s \in Seq(Byte) /\ Len(s) = len + 1
  BY <1>1, CstrIs
<1> HIDE DEF s, r
<1>5. 1 + Len(s) - 1 <= Len(buf[r].data) /\ Len(buf[r].data) \in Nat
  BY <1>1, <1>2, <1>3, <1>4
<1>6. /\ d \in Seq(Byte) /\ Len(d) = Len(buf[r].data)
      /\ \A i \in 1 .. Len(buf[r].data) :
           d[i] = IF 1 <= i /\ i <= 1 + Len(s) - 1 THEN s[i - 1 + 1] ELSE buf[r].data[i]
  <2> DEFINE y == buf[r].data
  <2>1. y \in Seq(Byte) /\ 1 + Len(s) - 1 <= Len(y) /\ 1 \in Nat /\ 1 <= 1
    BY <1>2, <1>5
  <2> HIDE DEF y
  <2>2. /\ Replace(y, 1, s) \in Seq(Byte) /\ Len(Replace(y, 1, s)) = Len(y)
        /\ \A i \in 1 .. Len(y) :
             Replace(y, 1, s)[i] = IF 1 <= i /\ i <= 1 + Len(s) - 1
                                   THEN s[i - 1 + 1] ELSE y[i]
    BY ONLY <1>4, <2>1, ReplaceIs
  <2> QED BY <2>2 DEF y
<1>7. bf2 = [buf EXCEPT ![r] = x]
  OBVIOUS
<1> HIDE DEF d
<1>8. x \in BufRec /\ x.ref = buf[r].ref /\ x.data = d
  BY <1>2, <1>6 DEF BufRec
<1> HIDE DEF x, bf2
<1>9. bf2 \in [Buf -> BufRec] /\ bf2[r] = x /\ \A q \in Buf \ {r} : bf2[q] = buf[q]
  BY <1>1, <1>2, <1>7, <1>8
<1>10. \A q \in Buf : bf2[q].ref = buf[q].ref + One(r = q) - One(cache[b].ref = q)
  <2>1. \A q \in Buf : bf2[q].ref = buf[q].ref /\ buf[q].ref \in Nat
    BY <1>1, <1>8, <1>9 DEF BufRec
  <2> QED BY <2>1 DEF One, r
<1>11. \A q \in Buf : bf2[q].data = buf[q].data \/ buf[q].ref = One(cache[b].ref = q)
  BY <1>1, <1>9 DEF One, r
<1>12. \A i \in 1 .. len + 1 : bf2[r].data[i] = s[i]
  <2> SUFFICES ASSUME NEW i \in 1 .. len + 1 PROVE d[i] = s[i]
    BY <1>8, <1>9
  <2>1. i \in 1 .. Len(buf[r].data) /\ 1 <= i /\ i <= 1 + Len(s) - 1 /\ i - 1 + 1 = i
    BY <1>4, <1>5
  <2> QED BY ONLY <1>6, <2>1
<1>13. cache[b].sz = Len(bf2[r].data) /\ len < cache[b].sz
  BY <1>1, <1>3, <1>6, <1>8, <1>9
<1>14. Exported(b, pos, len, [cache |-> Remember(cache[b], r, pos, len, cache[b].sz),
                              buf |-> bf2, off |-> 0])
  BY <1>1, <1>2, <1>9, <1>10, <1>11, <1>12, <1>13, RememberExported DEF s
<1> QED BY <1>14 DEF bf2, r, s

(* A new buffer, after the old one is given up. *)
LEMMA FreshExported ==
  ASSUME IInv, NEW b \in Base, NEW pos \in Nat, NEW len \in Nat,
         1 <= pos, pos + len - 1 <= Len(str[b]), NEW r \in Buf,
         RefDel(buf, cache[b].ref)[r].ref = 0
  PROVE  Exported(b, pos, len,
                  [cache |-> Remember(cache[b], r, pos, len, len + 1),
                   buf |-> [RefDel(buf, cache[b].ref) EXCEPT ![r] =
                              [data |-> Cstr(b, pos, len), ref |-> 1]],
                   off |-> 0])
<1> DEFINE o == cache[b].ref
           s == Cstr(b, pos, len)
           bf1 == RefDel(buf, o)
           x == [data |-> s, ref |-> 1]
           bf2 == [bf1 EXCEPT ![r] = x]
<1>1. /\ cache[b] \in CacheRec /\ str[b] \in Seq(Char) /\ buf \in [Buf -> BufRec]
      /\ Counts(cache, buf, held) /\ o \in Buf \cup {NoBuf}
  BY DEF IInv, InvOf, Types, CacheRec
<1>2. o # NoBuf => buf[o].ref >= 1
  BY <1>1, Counted
<1>3. s \in Seq(Byte) /\ Len(s) = len + 1
  BY <1>1, CstrIs
<1>4. bf1[r].ref = 0
  OBVIOUS
<1> HIDE DEF o, s
<1>5. /\ bf1 \in [Buf -> BufRec]
      /\ \A q \in Buf : bf1[q].ref = buf[q].ref - One(o = q)
      /\ \A q \in Buf : bf1[q].data = buf[q].data \/ buf[q].ref = One(o = q)
  BY <1>1, <1>2, RefDelIs
<1> HIDE DEF bf1
<1>6. x \in BufRec /\ x.data = s /\ x.ref = 1
  BY <1>3 DEF BufRec
<1> HIDE DEF x
<1>7. bf2 \in [Buf -> BufRec] /\ bf2[r] = x /\ \A q \in Buf \ {r} : bf2[q] = bf1[q]
  BY <1>5, <1>6
<1> HIDE DEF bf2
<1>8. \A q \in Buf : buf[q].ref \in Nat
  BY <1>1 DEF BufRec
<1>9. buf[r].ref = One(o = r)
  BY <1>4, <1>5, <1>8 DEF One
<1>10. \A q \in Buf : bf2[q].ref = buf[q].ref + One(r = q) - One(cache[b].ref = q)
  <2> SUFFICES ASSUME NEW q \in Buf
               PROVE  bf2[q].ref = buf[q].ref + One(r = q) - One(o = q)
    BY DEF o
  <2>1. CASE q = r
    BY <2>1, <1>6, <1>7, <1>9 DEF One
  <2>2. CASE q # r
    BY <2>2, <1>5, <1>7, <1>8 DEF One
  <2> QED BY <2>1, <2>2
<1>11. \A q \in Buf : bf2[q].data = buf[q].data \/ buf[q].ref = One(cache[b].ref = q)
  BY <1>5, <1>7, <1>9 DEF o
<1>12. len + 1 = Len(bf2[r].data) /\ len < len + 1 /\ len + 1 \in Nat
  BY <1>3, <1>6, <1>7
<1>13. \A i \in 1 .. len + 1 : bf2[r].data[i] = s[i]
  BY <1>6, <1>7
<1>14. Exported(b, pos, len, [cache |-> Remember(cache[b], r, pos, len, len + 1),
                              buf |-> bf2, off |-> 0])
  BY <1>1, <1>7, <1>10, <1>11, <1>12, <1>13, RememberExported DEF s
<1> QED BY <1>14 DEF bf2, bf1, x, o, s

(* vstr__export_cstr_cache(), in each of its three ways. *)
LEMMA ExportCacheInv ==
  ASSUME IInv, NEW b \in Base, NEW pos \in Nat, NEW len \in Nat,
         1 <= pos, pos + len - 1 <= Len(str[b]), NEW e \in ExportCstrCache(b, pos, len)
  PROVE  Exported(b, pos, len, e)
<1>1. CASE Hit(cache[b], pos, len)
  <2>1. e = [cache |-> cache[b], buf |-> buf, off |-> cache[b].off + (pos - cache[b].pos)]
    BY <1>1 DEF ExportCstrCache
  <2> QED BY <1>1, <2>1, HitExported
<1>2. CASE ~Hit(cache[b], pos, len) /\ Overwrites(cache[b], len)
  <2>1. e = [cache |-> Remember(cache[b], cache[b].ref, pos, len, cache[b].sz),
             buf |-> [buf EXCEPT ![cache[b].ref].data = Replace(@, 1, Cstr(b, pos, len))],
             off |-> 0]
    BY <1>2 DEF ExportCstrCache
  <2> QED BY <1>2, <2>1, OverwriteExported
<1>3. CASE ~Hit(cache[b], pos, len) /\ ~Overwrites(cache[b], len)
  <2>1. PICK r \in Buf :
          /\ RefDel(buf, cache[b].ref)[r].ref = 0
          /\ e = [cache |-> Remember(cache[b], r, pos, len, len + 1),
                  buf |-> [RefDel(buf, cache[b].ref) EXCEPT ![r] =
                             [data |-> Cstr(b, pos, len), ref |-> 1]],
                  off |-> 0]
    BY <1>3 DEF ExportCstrCache
  <2> QED BY <2>1, FreshExported
<1> QED BY <1>1, <1>2, <1>3

(* vstr_export_cstr_ptr() keeps the invariant. *)
LEMMA ExportCstrPtrInv ==
  ASSUME IInv, NEW b \in Base, NEW pos \in Nat, NEW len \in Nat,
         1 <= pos, pos + len - 1 <= Len(str[b]), ExportCstrPtr(b, pos, len)
  PROVE  IInv'
<1>1. PICK e \in ExportCstrCache(b, pos, len) :
        cache' = [cache EXCEPT ![b] = e.cache] /\ buf' = e.buf
  BY DEF ExportCstrPtr
<1>2. Exported(b, pos, len, e)
  BY ExportCacheInv
<1>3. str' = str /\ held' = held
  BY DEF ExportCstrPtr
<1> QED BY <1>1, <1>2, <1>3 DEF Exported, IInv

(* A user gets a reference to buffer r. *)
LEMMA HoldInv ==
  ASSUME NEW st, NEW cs, NEW bf, NEW hd, InvOf(st, cs, bf, hd), NEW h \in Handle,
         hd[h].ref = NoBuf, NEW g \in HeldRec, g.ref \in Buf,
         g.kind = "cstr" => ReadsIn(bf[g.ref].data, g.off, g.want)
  PROVE  InvOf(st, cs, RefAdd(bf, g.ref), [hd EXCEPT ![h] = g])
<1> DEFINE bf2 == RefAdd(bf, g.ref)
<1>1. bf \in [Buf -> BufRec]
  BY DEF InvOf, Types
<1>2. /\ bf2 \in [Buf -> BufRec]
      /\ \A q \in Buf : bf2[q].ref = bf[q].ref + One(g.ref = q) /\ bf2[q].data = bf[q].data
  BY <1>1, RefAddIs
<1> HIDE DEF bf2
<1>3. \A q \in Buf : bf2[q].ref = bf[q].ref + One(g.ref = q) - One(hd[h].ref = q)
  <2>1. \A q \in Buf : One(hd[h].ref = q) = 0 /\ bf[q].ref \in Nat
    BY <1>1, CstrAssumption DEF One, BufRec
  <2> QED BY <1>2, <2>1 DEF One
<1>4. HoldStep(bf, hd, h, g, bf2)
  BY <1>2, <1>3 DEF HoldStep
<1> QED BY <1>4, HoldStepInv DEF bf2

(* vstr_export_cstr_ref() keeps the invariant. *)
LEMMA ExportCstrRefInv ==
  ASSUME IInv, NEW b \in Base, NEW pos \in Nat, NEW len \in Nat,
         1 <= pos, pos + len - 1 <= Len(str[b]), NEW h \in Handle,
         ExportCstrRef(b, pos, len, h)
  PROVE  IInv'
<1>1. PICK e \in ExportCstrCache(b, pos, len) :
        /\ cache' = [cache EXCEPT ![b] = e.cache]
        /\ buf' = RefAdd(e.buf, e.cache.ref)
        /\ held' = [held EXCEPT ![h] =
                      [kind |-> "cstr", ref |-> e.cache.ref, off |-> e.off,
                       want |-> Cstr(b, pos, len)]]
  BY DEF ExportCstrRef
<1>2. Exported(b, pos, len, e)
  BY ExportCacheInv
<1> DEFINE g == [kind |-> "cstr", ref |-> e.cache.ref, off |-> e.off,
                 want |-> Cstr(b, pos, len)]
<1>3. Cstr(b, pos, len) \in Seq(Byte)
  <2>1. str[b] \in Seq(Char)
    BY DEF IInv, InvOf, Types
  <2> QED BY <2>1, CstrIs
<1>4. /\ g \in HeldRec /\ g.ref = e.cache.ref /\ g.off = e.off /\ g.kind = "cstr"
      /\ g.want = Cstr(b, pos, len)
  BY <1>2, <1>3 DEF HeldRec, Exported
<1>5. held[h].ref = NoBuf /\ str' = str
  BY DEF ExportCstrRef, NotHeld
<1>6. cache' = [cache EXCEPT ![b] = e.cache] /\ buf' = RefAdd(e.buf, e.cache.ref)
      /\ held' = [held EXCEPT ![h] = g]
  BY <1>1
<1> HIDE DEF g
<1>7. /\ InvOf(str, [cache EXCEPT ![b] = e.cache], e.buf, held)
      /\ g.ref \in Buf /\ ReadsIn(e.buf[g.ref].data, g.off, g.want)
  BY <1>2, <1>4 DEF Exported
<1>8. InvOf(str, [cache EXCEPT ![b] = e.cache], RefAdd(e.buf, g.ref), [held EXCEPT ![h] = g])
  BY <1>4, <1>5, <1>7, HoldInv
<1> QED BY <1>4, <1>5, <1>6, <1>8 DEF IInv

(* vstr_export_ref() keeps the invariant. *)
LEMMA ExportRefInv ==
  ASSUME IInv, NEW b \in Base, NEW pos \in Positions(b), NEW h \in Handle,
         NEW len \in 1 .. PosDiff(pos, Len(str[b])), ExportRef(b, pos, len, h)
  PROVE  IInv'
<1> DEFINE g == [kind |-> "ref", ref |-> cache[b].ref, off |-> pos - cache[b].pos,
                 want |-> Part(b, pos, len)]
<1>1. /\ cache[b] \in CacheRec /\ cache[b].pos \in Nat /\ str[b] \in Seq(Char)
      /\ Len(str[b]) \in Nat
  BY DEF IInv, InvOf, Types, CacheRec
<1>2. pos \in Nat /\ len \in Nat /\ 1 <= pos /\ pos + len - 1 <= Len(str[b])
      /\ pos + len - 1 \in Nat /\ pos <= pos + len - 1 + 1
  BY <1>1 DEF Positions, PosDiff
<1>3. cache[b].ref \in Buf /\ pos >= cache[b].pos
  BY <1>1 DEF ExportRef, RefHit, InUse, CacheRec
<1>4. Part(b, pos, len) \in Seq(Byte)
  <2>1. Part(b, pos, len) \in Seq(Char)
    BY <1>1, <1>2, SubSeqIs DEF Part, PosLast
  <2> QED BY <2>1 DEF Byte
<1>5. pos - cache[b].pos \in Nat
  BY <1>1, <1>2, <1>3
<1>6. g \in HeldRec /\ g.ref = cache[b].ref /\ g.kind = "ref"
  BY <1>3, <1>4, <1>5 DEF HeldRec
<1>7. /\ held[h].ref = NoBuf /\ str' = str /\ cache' = cache
      /\ buf' = RefAdd(buf, cache[b].ref) /\ held' = [held EXCEPT ![h] = g]
  BY DEF ExportRef, NotHeld
<1> HIDE DEF g
<1>8. InvOf(str, cache, RefAdd(buf, g.ref), [held EXCEPT ![h] = g])
  BY <1>3, <1>6, <1>7, HoldInv DEF IInv
<1> QED BY <1>6, <1>7, <1>8 DEF IInv

(* vstr_ref_del() by the user keeps the invariant. *)
LEMMA UserRefDelInv ==
  ASSUME IInv, NEW h \in Handle, UserRefDel(h)
  PROVE  IInv'
<1> DEFINE r == held[h].ref
           bf2 == RefDel(buf, r)
<1>1. /\ buf \in [Buf -> BufRec] /\ r \in Buf \cup {NoBuf} /\ Counts(cache, buf, held)
  BY DEF IInv, InvOf, Types, HeldRec
<1>2. r # NoBuf => buf[r].ref >= 1
  BY <1>1, Counted
<1>3. buf' = bf2 /\ held' = [held EXCEPT ![h] = NotHeld] /\ str' = str /\ cache' = cache
  BY DEF UserRefDel
<1> HIDE DEF r
<1>4. /\ bf2 \in [Buf -> BufRec]
      /\ \A q \in Buf : bf2[q].ref = buf[q].ref - One(r = q)
      /\ \A q \in Buf : bf2[q].data = buf[q].data \/ buf[q].ref = One(r = q)
  BY <1>1, <1>2, RefDelIs
<1> HIDE DEF bf2
<1>5. NotHeld \in HeldRec /\ NotHeld.ref = NoBuf /\ NotHeld.kind = "none"
  BY DEF NotHeld, HeldRec
<1>6. \A q \in Buf : bf2[q].ref = buf[q].ref + One(NotHeld.ref = q) - One(r = q)
  <2>1. \A q \in Buf : One(NotHeld.ref = q) = 0 /\ buf[q].ref \in Nat
    BY <1>1, <1>5, CstrAssumption DEF One, BufRec
  <2> QED BY <1>4, <2>1 DEF One
<1>7. HoldStep(buf, held, h, NotHeld, bf2)
  BY <1>4, <1>5, <1>6 DEF HoldStep, r
<1> QED BY <1>3, <1>7, HoldStepInv DEF IInv

-----------------------------------------------------------------------------
(* The theorems *)

(* Every change of a string keeps the invariant. *)
LEMMA ChangeInv == IInv /\ Change => IInv'
<1> SUFFICES ASSUME IInv, Change PROVE IInv'
  OBVIOUS
<1>1. PICK b \in Base :
        \/ \E pos \in 0 .. Len(str[b]), s \in Texts : Add(b, pos, s)
        \/ \E pos \in Positions(b) : \E len \in 1 .. PosDiff(pos, Len(str[b])) :
             Del(b, pos, len)
        \/ \E len \in Positions(b) : DelInlineBeg(b, len)
        \/ \E pos \in Positions(b) : DelInlineEnd(b, pos)
        \/ \E pos \in Positions(b), s \in Texts : Sub(b, pos, s)
        \/ \E pos \in 0 .. Len(str[b]), f \in Base : \E fpos \in Positions(f) :
             \E len \in 1 .. PosDiff(fpos, Len(str[f])) :
               AddVstr(b, pos, f, fpos, len)
        \/ \E pos \in 0 .. Len(str[b]), len \in 1 .. MaxLen[b] :
             AddVstrFails(b, pos, len)
  BY DEF Change
<1>2. CASE \E pos \in 0 .. Len(str[b]), s \in Texts : Add(b, pos, s)
  BY <1>2, AddInv
<1>3. CASE \E pos \in Positions(b) : \E len \in 1 .. PosDiff(pos, Len(str[b])) :
             Del(b, pos, len)
  BY <1>3, DelInv
<1>4. CASE \E len \in Positions(b) : DelInlineBeg(b, len)
  BY <1>4, DelInlineBegInv
<1>5. CASE \E pos \in Positions(b) : DelInlineEnd(b, pos)
  BY <1>5, DelInlineEndInv
<1>6. CASE \E pos \in Positions(b), s \in Texts : Sub(b, pos, s)
  BY <1>6, SubInv
<1>7. CASE \E pos \in 0 .. Len(str[b]), f \in Base : \E fpos \in Positions(f) :
             \E len \in 1 .. PosDiff(fpos, Len(str[f])) :
               AddVstr(b, pos, f, fpos, len)
  BY <1>7, AddVstrInv
<1>8. CASE \E pos \in 0 .. Len(str[b]), len \in 1 .. MaxLen[b] : AddVstrFails(b, pos, len)
  BY <1>8, AddVstrFailsInv
<1> QED BY <1>1, <1>2, <1>3, <1>4, <1>5, <1>6, <1>7, <1>8

(* Every export keeps the invariant. *)
LEMMA ExportInv == IInv /\ Export => IInv'
<1> SUFFICES ASSUME IInv, Export PROVE IInv'
  OBVIOUS
<1>1. PICK b \in Base :
        \/ \E pos \in 1 .. Len(str[b]) + 1 :
             \E len \in 0 .. PosDiff(pos, Len(str[b])) :
               \/ ExportCstrPtr(b, pos, len)
               \/ \E h \in Handle : ExportCstrRef(b, pos, len, h)
               \/ ExportCstrFails(b, pos, len)
        \/ \E pos \in Positions(b), h \in Handle :
             \E len \in 1 .. PosDiff(pos, Len(str[b])) : ExportRef(b, pos, len, h)
  BY DEF Export
<1>2. str[b] \in Seq(Char) /\ Len(str[b]) \in Nat
  BY DEF IInv, InvOf, Types
<1>3. ASSUME NEW pos \in 1 .. Len(str[b]) + 1, NEW len \in 0 .. PosDiff(pos, Len(str[b])),
             \/ ExportCstrPtr(b, pos, len)
             \/ \E h \in Handle : ExportCstrRef(b, pos, len, h)
             \/ ExportCstrFails(b, pos, len)
      PROVE  IInv'
  <2>1. pos \in Nat /\ len \in Nat /\ 1 <= pos /\ pos + len - 1 <= Len(str[b])
    BY <1>2 DEF PosDiff
  <2>2. CASE ExportCstrPtr(b, pos, len)
    BY <2>1, <2>2, ExportCstrPtrInv
  <2>3. CASE \E h \in Handle : ExportCstrRef(b, pos, len, h)
    BY <2>1, <2>3, ExportCstrRefInv
  <2>4. CASE ExportCstrFails(b, pos, len)
    BY <2>4, ExportCstrFailsInv
  <2> QED BY <1>3, <2>2, <2>3, <2>4
<1>4. CASE \E pos \in Positions(b), h \in Handle :
             \E len \in 1 .. PosDiff(pos, Len(str[b])) : ExportRef(b, pos, len, h)
  BY <1>4, ExportRefInv
<1> QED BY <1>1, <1>3, <1>4

(* Every step keeps the invariant. *)
LEMMA NextInv == IInv /\ [Next]_vars => IInv'
<1> SUFFICES ASSUME IInv, [Next]_vars PROVE IInv'
  OBVIOUS
<1>1. CASE Change
  BY <1>1, ChangeInv
<1>2. CASE Export
  BY <1>2, ExportInv
<1>3. CASE Release
  BY <1>3, UserRefDelInv, CacheCbFreeInv, FreeBaseInv DEF Release
<1>4. CASE UNCHANGED vars
  BY <1>4 DEF vars, IInv
<1> QED BY <1>1, <1>2, <1>3, <1>4 DEF Next

(* The inductive invariant holds in every state. *)
LEMMA IInvHolds == Spec => []IInv
<1> QED BY InitInv, NextInv, PTL DEF Spec

(* Every buffer is counted once for each cache and each user that refers   *)
(* to it, whatever the order of exports, copies of the cache between       *)
(* strings, failures of malloc() and releases: none is freed while         *)
(* somebody has it, and none is left behind.                               *)
THEOREM BuffersCounted == Spec => []CstrInv
<1>1. IInv => CstrInv
  <2> SUFFICES ASSUME IInv PROVE CstrInv
    OBVIOUS
  <2>1. TypeOK
    <3>1. \A b \in Base : str[b] \in Seq(Char) /\ Len(str[b]) <= MaxLen[b]
      BY DEF IInv, InvOf, Types
    <3>2. cache \in [Base -> [made : BOOLEAN, ref : Buf \cup {NoBuf}, off : Nat,
                              pos : Nat, len : Nat, sz : Nat]]
      BY DEF IInv, InvOf, Types, CacheRec
    <3>3. \A r \in Buf : buf[r].ref \in Nat
      BY DEF IInv, InvOf, Types, BufRec
    <3>4. \A h \in Handle : held[h].kind \in {"none", "cstr", "ref"}
      BY DEF IInv, InvOf, Types, HeldRec
    <3> QED BY <3>1, <3>2, <3>3, <3>4 DEF TypeOK
  <2>2. RefsExact
    BY DEF IInv, InvOf, Counts, RefsExact, Owners, Holders
  <2> QED BY <2>1, <2>2 DEF CstrInv
<1> QED BY <1>1, IInvHolds, PTL

(* What the cache of a string remembers is what the string holds there,    *)
(* ended by a NUL, for strings of any length and any sequence of changes.  *)
THEOREM CacheRight == Spec => []CstrCacheRight
<1>1. IInv => CstrCacheRight
  <2> SUFFICES ASSUME IInv, NEW b \in Base, InUse(cache[b])
               PROVE  LET c == cache[b]
                      IN  /\ c.made /\ c.len < c.sz
                          /\ c.pos >= 1 /\ PosLast(c.pos, c.len) <= Len(str[b])
                          /\ Reads(c.ref, c.off, Cstr(b, c.pos, c.len))
    BY DEF CstrCacheRight
  <2> DEFINE c == cache[b]
             d == buf[c.ref].data
  <2>1. /\ c.made /\ c.len < c.sz /\ Matches(str[b], c.pos, c.len, d, c.off)
    BY DEF IInv, InvOf, Rights, Covers
  <2>2. /\ c \in CacheRec /\ c.pos \in Nat /\ c.len \in Nat /\ c.off \in Nat
        /\ str[b] \in Seq(Char) /\ c.ref \in Buf
    BY DEF IInv, InvOf, Types, CacheRec, InUse
  <2>3. d \in Seq(Byte)
    BY <2>2 DEF IInv, InvOf, Types, BufRec
  <2>4. c.pos >= 1 /\ PosLast(c.pos, c.len) <= Len(str[b])
    BY <2>1, <2>2 DEF Matches, PosLast
  <2>5. Reads(c.ref, c.off, Cstr(b, c.pos, c.len))
    <3> HIDE DEF c, d
    <3>1. 0 \in 0 .. c.len /\ c.off + 0 = c.off /\ c.pos + 0 = c.pos /\ c.len - 0 = c.len
      BY <2>2
    <3>2. ReadsIn(d, c.off + 0, Cstr(b, c.pos + 0, c.len - 0))
      BY <2>1, <2>2, <2>3, <3>1, MatchesRead
    <3>3. ReadsIn(d, c.off, Cstr(b, c.pos, c.len))
      BY <3>1, <3>2
    <3> QED BY <3>3 DEF ReadsIn, Reads, d
  <2> QED BY <2>1, <2>4, <2>5
<1> QED BY <1>1, IInvHolds, PTL

(* A reference of vstr_export_cstr_ref() reads the C string that was asked *)
(* for as long as the user keeps it, however the strings change and are    *)
(* exported again.                                                         *)
THEOREM UsersRight == Spec => []HeldRight
<1>1. IInv => HeldRight
  BY DEF IInv, InvOf, HeldOK, HeldRight, ReadsIn, Reads
<1> QED BY <1>1, IInvHolds, PTL

=============================================================================
