--------------------------- MODULE VstrSectsProofs --------------------------
(***************************************************************************)
(* What is proved about sections: the arrays keep their shape and are only *)
(* looked at inside, going through them leaves none out, and sections that *)
(* are kept up to date follow their bytes.                                 *)
(***************************************************************************)
EXTENDS VstrSects, VstrFacts

-----------------------------------------------------------------------------
(* One array *)

PtrOf == UNION {[1 .. n -> SectOf] : n \in Nat}

SRec == [num : Nat, sz : Nat, bad : BOOLEAN, ptr : PtrOf]

SOK(s) == s \in SRec /\ s.num <= s.sz /\ s.ptr \in [1 .. s.sz -> SectOf]

(* An array of any size is an array. *)
LEMMA PtrIn ==
  ASSUME NEW n \in Nat, NEW p \in [1 .. n -> SectOf]
  PROVE  p \in PtrOf
BY DEF PtrOf

(* A Vstr_sects is its four parts. *)
LEMMA SMade ==
  ASSUME NEW n \in Nat, NEW sz \in Nat, NEW bad \in BOOLEAN,
         NEW p \in [1 .. sz -> SectOf], n <= sz
  PROVE  SOK([num |-> n, sz |-> sz, bad |-> bad, ptr |-> p])
BY PtrIn DEF SOK, SRec

(* Its parts are changed one at a time. *)
LEMMA SNum ==
  ASSUME NEW s, NEW n \in 0 .. s.sz, SOK(s)
  PROVE  /\ SOK([s EXCEPT !.num = n])
         /\ [s EXCEPT !.num = n].num = n /\ [s EXCEPT !.num = n].sz = s.sz
         /\ [s EXCEPT !.num = n].ptr = s.ptr /\ [s EXCEPT !.num = n].bad = s.bad
BY DEF SOK, SRec

(* The array could not grow, or shrink. *)
LEMMA SBad ==
  ASSUME NEW s, SOK(s)
  PROVE  /\ SOK([s EXCEPT !.bad = TRUE])
         /\ [s EXCEPT !.bad = TRUE].num = s.num /\ [s EXCEPT !.bad = TRUE].sz = s.sz
         /\ [s EXCEPT !.bad = TRUE].ptr = s.ptr /\ [s EXCEPT !.bad = TRUE].bad = TRUE
BY DEF SOK, SRec

(* The entries of the array are replaced. *)
LEMMA SPtr ==
  ASSUME NEW s, NEW p \in [1 .. s.sz -> SectOf], SOK(s)
  PROVE  /\ SOK([s EXCEPT !.ptr = p])
         /\ [s EXCEPT !.ptr = p].num = s.num /\ [s EXCEPT !.ptr = p].sz = s.sz
         /\ [s EXCEPT !.ptr = p].ptr = p /\ [s EXCEPT !.ptr = p].bad = s.bad
BY PtrIn DEF SOK, SRec

(* Its sections are sections. *)
LEMMA EntryType ==
  ASSUME NEW s, NEW n \in 1 .. s.num, SOK(s)
  PROVE  s.ptr[n] \in SectOf
<1>1. s.num \in Nat /\ s.sz \in Nat /\ s.num <= s.sz /\ s.ptr \in [1 .. s.sz -> SectOf]
  BY DEF SOK, SRec
<1>2. n \in 1 .. s.sz
  BY <1>1
<1> QED BY <1>1, <1>2

(* Growing or shrinking an array keeps the entries that fit. *)
LEMMA ResizedOK ==
  ASSUME NEW s, NEW sz \in Nat, SOK(s), s.num <= sz
  PROVE  /\ SOK(Resized(s, sz))
         /\ Resized(s, sz).num = s.num /\ Resized(s, sz).sz = sz
         /\ Resized(s, sz).bad = s.bad
         /\ \A k \in 1 .. s.num : Resized(s, sz).ptr[k] = s.ptr[k]
<1> DEFINE p == [k \in 1 .. sz |-> IF k <= s.sz THEN s.ptr[k] ELSE NoSect]
           r == [s EXCEPT !.sz = sz, !.ptr = p]
<1>1. NoSect \in SectOf
  BY DEF NoSect, SectOf
<1>2. /\ s.num \in Nat /\ s.sz \in Nat /\ s.num <= s.sz
      /\ s.ptr \in [1 .. s.sz -> SectOf] /\ s \in SRec
  BY DEF SOK, SRec
<1>3. p \in [1 .. sz -> SectOf]
  BY <1>1, <1>2
<1>4. \A k \in 1 .. s.num : p[k] = s.ptr[k]
  BY <1>2
<1> HIDE DEF p
<1>5. p \in PtrOf
  BY <1>3, PtrIn
<1>6. r \in SRec /\ r.num = s.num /\ r.sz = sz /\ r.bad = s.bad /\ r.ptr = p
  BY <1>2, <1>5 DEF SRec
<1>7. Resized(s, sz) = r
  BY DEF Resized, p
<1> QED BY <1>3, <1>4, <1>6, <1>7 DEF SOK

(* A section is put behind the others where there is room. *)
LEMMA PutOK ==
  ASSUME NEW s, NEW pos \in Nat, NEW len \in Nat, SOK(s), s.num < s.sz
  PROVE  /\ SOK(Put(s, pos, len))
         /\ Put(s, pos, len).num = s.num + 1 /\ Put(s, pos, len).sz = s.sz
         /\ Put(s, pos, len).bad = s.bad
         /\ Put(s, pos, len).ptr[s.num + 1] = [pos |-> pos, len |-> len]
         /\ \A k \in 1 .. s.num : Put(s, pos, len).ptr[k] = s.ptr[k]
<1> DEFINE e == [pos |-> pos, len |-> len]
           p == [s.ptr EXCEPT ![s.num + 1] = e]
<1>1. e \in SectOf
  BY DEF SectOf
<1>2. /\ s.num \in Nat /\ s.sz \in Nat /\ s.num <= s.sz
      /\ s.ptr \in [1 .. s.sz -> SectOf] /\ s \in SRec
  BY DEF SOK, SRec
<1> HIDE DEF e
<1>3. p \in [1 .. s.sz -> SectOf] /\ p[s.num + 1] = e
  BY <1>1, <1>2
<1>4. \A k \in 1 .. s.num : p[k] = s.ptr[k]
  BY <1>2
<1> HIDE DEF p
<1>5. p \in PtrOf
  BY <1>2, <1>3, PtrIn
<1> DEFINE m == s.num + 1
           r == [s EXCEPT !.ptr = p, !.num = m]
<1>6. m \in Nat /\ m <= s.sz
  BY <1>2
<1>7. Put(s, pos, len) = r
  BY DEF Put, p, e
<1>8. m = s.num + 1
  OBVIOUS
<1> HIDE DEF m
<1>9. r \in SRec /\ r.num = m /\ r.sz = s.sz /\ r.bad = s.bad /\ r.ptr = p
  BY <1>2, <1>5, <1>6 DEF SRec
<1> HIDE DEF r
<1> QED BY <1>2, <1>3, <1>4, <1>6, <1>7, <1>8, <1>9 DEF SOK, e

(* What vstr_sects_add() does: it adds the section, growing the array when *)
(* it may and can; or it leaves the sections alone.                        *)
AddedTo(i, s, pos, len, t, ok) ==
  /\ SOK(t)
  /\ t.sz >= s.sz
  /\ \A k \in 1 .. s.num : t.ptr[k] = s.ptr[k]
  /\ ok => /\ t.num = s.num + 1 /\ t.bad = s.bad
           /\ t.ptr[s.num + 1] = [pos |-> pos, len |-> len]
  /\ ~ok => /\ t.num = s.num
            /\ CanAdd[i] => t.bad
            /\ ~CanAdd[i] => t = s

(* AddSect() does that, whether or not the array is full. *)
LEMMA AddSectOK ==
  ASSUME NEW i \in Sects, NEW s, NEW pos \in Nat, NEW len \in Nat,
         NEW mem \in BOOLEAN, SOK(s)
  PROVE  LET r == AddSect(i, s, pos, len, mem)
         IN  r.ok \in BOOLEAN /\ AddedTo(i, s, pos, len, r.s, r.ok)
<1> DEFINE r == AddSect(i, s, pos, len, mem)
<1>1. /\ s.num \in Nat /\ s.sz \in Nat /\ s.num <= s.sz /\ s.bad \in BOOLEAN
      /\ CanAdd[i] \in BOOLEAN
  BY SectsAssumption DEF SOK, SRec
<1>2. CASE ~(s.num >= s.sz)
  <2>1. r = [s |-> Put(s, pos, len), ok |-> TRUE]
    BY <1>2 DEF AddSect
  <2>2. r.s = Put(s, pos, len) /\ r.ok = TRUE
    BY <2>1
  <2> HIDE DEF r
  <2>3. s.num < s.sz
    BY <1>1, <1>2
  <2>4. AddedTo(i, s, pos, len, Put(s, pos, len), TRUE)
    BY <1>1, <2>3, PutOK DEF AddedTo
  <2>5. AddedTo(i, s, pos, len, r.s, r.ok)
    BY ONLY <2>2, <2>4
  <2> QED BY <2>2, <2>5 DEF r
<1>3. CASE s.num >= s.sz /\ ~CanAdd[i]
  <2>1. r = [s |-> s, ok |-> FALSE]
    BY <1>3 DEF AddSect
  <2>2. r.s = s /\ r.ok = FALSE
    BY <2>1
  <2> HIDE DEF r
  <2>3. AddedTo(i, s, pos, len, s, FALSE)
    BY <1>1, <1>3 DEF AddedTo
  <2>5. AddedTo(i, s, pos, len, r.s, r.ok)
    BY ONLY <2>2, <2>3
  <2> QED BY <2>2, <2>5 DEF r
<1>4. CASE s.num >= s.sz /\ CanAdd[i] /\ ~mem
  <2> DEFINE t == [s EXCEPT !.bad = TRUE]
  <2>1. r = [s |-> t, ok |-> FALSE]
    BY <1>4 DEF AddSect
  <2>2. r.s = t /\ r.ok = FALSE
    BY <2>1
  <2>3. SOK(t) /\ t.num = s.num /\ t.sz = s.sz /\ t.ptr = s.ptr /\ t.bad = TRUE
    BY SBad
  <2> HIDE DEF r, t
  <2>4. AddedTo(i, s, pos, len, t, FALSE)
    BY <1>1, <1>4, <2>3 DEF AddedTo
  <2>5. AddedTo(i, s, pos, len, r.s, r.ok)
    BY ONLY <2>2, <2>4
  <2> QED BY <2>2, <2>5 DEF r
<1>5. CASE s.num >= s.sz /\ CanAdd[i] /\ mem
  <2> DEFINE t == Resized(s, GrownSz(s))
             u == Put(t, pos, len)
  <2>1. r = [s |-> u, ok |-> TRUE]
    BY <1>5 DEF AddSect
  <2>2. r.s = u /\ r.ok = TRUE
    BY <2>1
  <2>3. GrownSz(s) \in Nat /\ s.num < GrownSz(s) /\ s.sz <= GrownSz(s)
    BY <1>1 DEF GrownSz
  <2>4. /\ SOK(t) /\ t.num = s.num /\ t.sz = GrownSz(s) /\ t.bad = s.bad
        /\ \A k \in 1 .. s.num : t.ptr[k] = s.ptr[k]
    BY <1>1, <2>3, ResizedOK
  <2> HIDE DEF t
  <2>5. /\ SOK(u) /\ u.num = t.num + 1 /\ u.sz = t.sz /\ u.bad = t.bad
        /\ u.ptr[t.num + 1] = [pos |-> pos, len |-> len]
        /\ \A k \in 1 .. t.num : u.ptr[k] = t.ptr[k]
    BY <2>3, <2>4, PutOK
  <2> HIDE DEF r, u
  <2>6. AddedTo(i, s, pos, len, u, TRUE)
    BY <1>1, <2>3, <2>4, <2>5 DEF AddedTo
  <2>7. AddedTo(i, s, pos, len, r.s, r.ok)
    BY ONLY <2>2, <2>6
  <2> QED BY <2>2, <2>7 DEF r
<1> QED BY <1>1, <1>2, <1>3, <1>4, <1>5

(* The deleted sections at the end are dropped, and no others. *)
LEMMA ShortenOK ==
  ASSUME NEW s, SOK(s)
  PROVE  /\ SOK(Shorten(s)) /\ Shorten(s).num <= s.num
         /\ Shorten(s).sz = s.sz /\ Shorten(s).ptr = s.ptr
         /\ \A k \in Shorten(s).num + 1 .. s.num : s.ptr[k].pos = 0
<1> DEFINE Ok(n) == /\ n > 0 => s.ptr[n].pos # 0
                    /\ \A k \in n + 1 .. s.num : s.ptr[k].pos = 0
           n0 == CHOOSE n \in 0 .. s.num : Ok(n)
           T == {n \in 0 .. s.num : n = 0 \/ s.ptr[n].pos # 0}
<1>1. s.num \in Nat /\ s.sz \in Nat /\ s.num <= s.sz
  BY DEF SOK, SRec
<1>2. T \in SUBSET (0 .. s.num) /\ T # {}
  BY <1>1
<1>3. PICK m \in T : \A k \in T : k <= m
  <2> HIDE DEF T
  <2> QED BY <1>1, <1>2, GreatestNat
<1>4. m \in 0 .. s.num /\ Ok(m)
  <2>1. m \in 0 .. s.num /\ (m > 0 => s.ptr[m].pos # 0)
    BY <1>1, <1>3
  <2>2. \A k \in m + 1 .. s.num : s.ptr[k].pos = 0
    BY <1>1, <1>3, <2>1
  <2> QED BY <2>1, <2>2
<1>5. n0 \in 0 .. s.num /\ Ok(n0)
  <2> HIDE DEF Ok
  <2> QED BY <1>4
<1>6. Shorten(s) = [s EXCEPT !.num = n0]
  BY DEF Shorten
<1>7. \A k \in n0 + 1 .. s.num : s.ptr[k].pos = 0
  BY <1>5
<1> HIDE DEF n0, Ok
<1>8. n0 \in 0 .. s.sz /\ n0 <= s.num
  BY <1>1, <1>5
<1> QED BY <1>6, <1>7, <1>8, SNum

(* An array that may be made smaller keeps its sections. *)
LEMMA ShrinkOK ==
  ASSUME NEW i \in Sects, NEW s, NEW mem \in BOOLEAN, SOK(s)
  PROVE  /\ SOK(Shrink(i, s, mem)) /\ Shrink(i, s, mem).num = s.num
         /\ \A k \in 1 .. s.num : Shrink(i, s, mem).ptr[k] = s.ptr[k]
         /\ ~CanDel[i] => Shrink(i, s, mem) = s
<1>1. /\ s.num \in Nat /\ s.sz \in Nat /\ s.num <= s.sz
      /\ CanDel[i] \in BOOLEAN /\ s.sz \div 2 \in Nat
  BY SectsAssumption DEF SOK, SRec
<1>2. CASE ~(CanDel[i] /\ s.num < s.sz \div 2)
  BY <1>1, <1>2 DEF Shrink
<1>3. CASE CanDel[i] /\ s.num < s.sz \div 2 /\ ~mem
  <2>1. Shrink(i, s, mem) = [s EXCEPT !.bad = TRUE]
    BY <1>3 DEF Shrink
  <2> QED BY <1>3, <2>1, SBad
<1>4. CASE CanDel[i] /\ s.num < s.sz \div 2 /\ mem
  <2>1. Shrink(i, s, mem) = Resized(s, s.sz \div 2)
    BY <1>4 DEF Shrink
  <2> DEFINE z == s.sz \div 2
  <2>2. z \in Nat /\ s.num <= z
    BY <1>1, <1>4
  <2> HIDE DEF z
  <2>3. Shrink(i, s, mem) = Resized(s, z)
    BY <2>1 DEF z
  <2>4. /\ SOK(Resized(s, z)) /\ Resized(s, z).num = s.num
        /\ \A k \in 1 .. s.num : Resized(s, z).ptr[k] = s.ptr[k]
    BY ONLY SOK(s), <2>2, ResizedOK
  <2> QED BY ONLY <1>4, <2>3, <2>4
<1> QED BY <1>1, <1>2, <1>3, <1>4

-----------------------------------------------------------------------------
(* The state *)

ByteRec == [c : {"a", ":"}, in : SUBSET (Sects \X Nat)]

IterRec == [on : {TRUE}, i : Sects, back : BOOLEAN, null : BOOLEAN, called : BOOLEAN,
            scan : Nat, seen : SUBSET Nat, keep : SUBSET Nat]

Types ==
  /\ str \in Seq(ByteRec)
  /\ sects \in [Sects -> SRec] /\ \A i \in Sects : SOK(sects[i])
  /\ updates \in Seq(Sects) /\ IsInjective(updates)
  /\ iter \in IterRec \cup {NoIter}

(* What a call of vstr_sects_foreach() relies on, of the array it goes     *)
(* through: it is inside of it, what is left of the sections it began with *)
(* can be given to the callback, and those it is past have been.           *)
Past(it, n) == IF it.back THEN n > it.scan ELSE n < it.scan

IterOK(it, s) ==
  /\ it.keep \subseteq 1 .. s.num
  /\ \A n \in it.keep : Passes(s.ptr[n], it.null)
  /\ \A n \in it.keep : Past(it, n) => n \in it.seen
  /\ ~AnyDel /\ it.back => it.scan <= s.sz
  /\ ~it.back => it.scan > 0
  /\ it.called => it.scan > 0 /\ it.scan \in it.seen
  /\ ~AnyDel /\ it.called => it.scan <= s.sz

IInv == Types /\ (iter.on => IterOK(iter, sects[iter.i]))

(* Sections that are kept up to date are about the bytes that were given   *)
(* to them, and inside of the string.                                      *)
Live(e) == e.pos > 0 /\ e.len > 0

In(e, k) == e.pos > 0 /\ k \in e.pos .. e.pos + e.len - 1

Fits(e, n) == Live(e) => e.pos + e.len - 1 <= n

Track ==
  \A i \in Sects : i \in Range(updates) =>
    \A n \in 1 .. sects[i].num :
      /\ \A k \in 1 .. Len(str) : <<i, n>> \in str[k].in <=> In(sects[i].ptr[n], k)
      /\ Fits(sects[i].ptr[n], Len(str))

(* The parts of the invariant give the properties. *)
LEMMA InvImplies ==
  ASSUME IInv
  PROVE  (~AnyDel => SectsInv) /\ ForeachVisits
<1>1. Types
  BY DEF IInv
<1>2. \A k \in DOMAIN str : str[k].c \in {"a", ":"} /\ str[k].in \subseteq Sects \X Nat
  <2>1. \A k \in DOMAIN str : str[k] \in ByteRec
    BY <1>1 DEF Types
  <2> QED BY <2>1 DEF ByteRec
<1>3. \A i \in Sects : /\ sects[i].num \in 0 .. sects[i].sz
                       /\ sects[i].ptr \in [1 .. sects[i].sz -> SectOf]
                       /\ sects[i].bad \in BOOLEAN
  BY <1>1 DEF Types, SOK, SRec
<1>4. Range(updates) \subseteq Sects /\ IsInjective(updates)
  BY <1>1 DEF Types, Range
<1>5. iter.on => iter \in IterRec
  BY <1>1 DEF Types, NoIter
<1>6. iter.on => iter.keep \subseteq 1 .. sects[iter.i].num
  BY DEF IInv, IterOK
<1>7. TypeOK
  BY <1>2, <1>3, <1>4, <1>6 DEF TypeOK
<1>8. ASSUME iter.on
      PROVE  /\ ~AnyDel /\ (iter.called \/ More) => iter.scan \in 1 .. sects[iter.i].sz
             /\ ~iter.called /\ ~More => iter.keep \subseteq iter.seen
  <2> DEFINE s == sects[iter.i]
  <2>1. /\ iter.i \in Sects /\ iter.back \in BOOLEAN /\ iter.called \in BOOLEAN
        /\ iter.scan \in Nat
    BY <1>5, <1>8 DEF IterRec
  <2>2. s.num \in Nat /\ s.sz \in Nat /\ s.num <= s.sz
    BY <1>1, <2>1 DEF Types, SOK, SRec
  <2>3. IterOK(iter, s)
    BY <1>8 DEF IInv
  <2>4. More <=> IF iter.back THEN iter.scan > 0 ELSE iter.scan <= s.num
    BY DEF More
  <2> HIDE DEF s
  <2>5. ~AnyDel /\ (iter.called \/ More) => iter.scan \in 1 .. s.sz
    BY <2>1, <2>2, <2>3, <2>4 DEF IterOK
  <2>6. ASSUME ~iter.called, ~More, NEW n \in iter.keep
        PROVE  n \in iter.seen
    <3>1. n \in 1 .. s.num
      BY <2>3, <2>6 DEF IterOK
    <3>2. Past(iter, n)
      BY <2>1, <2>2, <2>4, <2>6, <3>1 DEF Past
    <3> QED BY <2>3, <2>6, <3>2 DEF IterOK
  <2> QED BY <2>5, <2>6 DEF s
<1>9. ~AnyDel => ScanInArray
  BY <1>8 DEF ScanInArray, InArray
<1>10. ForeachVisits
  BY <1>8 DEF ForeachVisits
<1> QED BY <1>7, <1>9, <1>10 DEF SectsInv

(* The second invariant says what SectsTrack says of the bytes and the     *)
(* sections that are kept up to date.                                      *)
LEMMA TrackImplies ==
  ASSUME IInv, Track
  PROVE  SectsTrack
<1>1. Types /\ Len(str) \in Nat /\ DOMAIN str = 1 .. Len(str)
  BY DEF IInv, Types
<1>2. ASSUME NEW i \in Range(updates), NEW n \in 1 .. sects[i].num
      PROVE  /\ {k \in DOMAIN str : <<i, n>> \in str[k].in}
                  = {k \in DOMAIN str : Covers(sects[i], n, k)}
             /\ sects[i].ptr[n].pos > 0 =>
                  \/ sects[i].ptr[n].pos + sects[i].ptr[n].len - 1 <= Len(str)
                  \/ sects[i].ptr[n].len = 0
  <2> DEFINE e == sects[i].ptr[n]
  <2>1. i \in Sects
    BY <1>1 DEF Types, Range
  <2>2. e \in SectOf
    BY <1>1, <2>1, SMTT(30) DEF Types, SOK, SRec
  <2>3. /\ \A k \in 1 .. Len(str) : <<i, n>> \in str[k].in <=> In(e, k)
        /\ Fits(e, Len(str))
    BY <2>1 DEF Track
  <2>4. \A k : Covers(sects[i], n, k) <=> In(e, k)
    BY DEF Covers, In
  <2> HIDE DEF e
  <2>5. e.pos \in Nat /\ e.len \in Nat
    BY <2>2 DEF SectOf
  <2>6. e.pos > 0 => e.pos + e.len - 1 <= Len(str) \/ e.len = 0
    BY <2>3, <2>5 DEF Fits, Live
  <2>7. {k \in DOMAIN str : <<i, n>> \in str[k].in}
          = {k \in DOMAIN str : Covers(sects[i], n, k)}
    BY <1>1, <2>3, <2>4
  <2> QED BY <2>6, <2>7 DEF e
<1> QED BY <1>2 DEF SectsTrack


-----------------------------------------------------------------------------
(* Adding to and deleting from the string *)

(* The update of one section by an add of m bytes behind pos: it is about  *)
(* the bytes it was about, and about the new ones when they are put        *)
(* between two of its own.                                                 *)
LEMMA AddOneType ==
  ASSUME NEW e \in SectOf, NEW pos \in Nat, NEW m \in Nat
  PROVE  /\ UpdateAddOne(e, pos, m) \in SectOf
         /\ UpdateAddOne(e, pos, m).pos > 0 <=> e.pos > 0
         /\ UpdateAddOne(e, pos, m).len > 0 <=> e.len > 0
<1>1. e.pos \in Nat /\ e.len \in Nat
  BY DEF SectOf
<1>2. CASE e.pos = 0 \/ e.len = 0
  BY <1>1, <1>2 DEF UpdateAddOne
<1>3. CASE e.pos > 0 /\ e.len > 0 /\ pos < e.pos
  <2> DEFINE q == e.pos + m
  <2>1. UpdateAddOne(e, pos, m) = [e EXCEPT !.pos = q]
    BY <1>1, <1>3 DEF UpdateAddOne
  <2>2. q \in Nat /\ q > 0
    BY <1>1, <1>3
  <2> HIDE DEF q
  <2> QED BY <1>1, <1>3, <2>1, <2>2 DEF SectOf
<1>4. CASE e.pos > 0 /\ e.len > 0 /\ pos >= e.pos /\ pos <= e.pos + e.len - 2
  <2> DEFINE q == e.len + m
  <2>1. UpdateAddOne(e, pos, m) = [e EXCEPT !.len = q]
    BY <1>1, <1>4 DEF UpdateAddOne
  <2>2. q \in Nat /\ q > 0
    BY <1>1, <1>4
  <2> HIDE DEF q
  <2> QED BY <1>1, <1>4, <2>1, <2>2 DEF SectOf
<1>5. CASE e.pos > 0 /\ e.len > 0 /\ pos > e.pos + e.len - 2 /\ pos >= e.pos
  BY <1>1, <1>5 DEF UpdateAddOne
<1> QED BY <1>1, <1>2, <1>3, <1>4, <1>5

(* Where the byte at k of the string with m bytes put behind pos was. *)
LEMMA AddOneTracks ==
  ASSUME NEW e \in SectOf, NEW L \in Nat, NEW pos \in 0 .. L, NEW m \in Nat, Fits(e, L),
         NEW k \in 1 .. L + m
  PROVE  LET d == UpdateAddOne(e, pos, m)
         IN  /\ Fits(d, L + m)
             /\ In(d, k) <=>
                  IF k <= pos THEN In(e, k)
                  ELSE IF k > pos + m THEN In(e, k - m)
                  ELSE pos \in 1 .. L - 1 /\ In(e, pos) /\ In(e, pos + 1)
<1> DEFINE d == UpdateAddOne(e, pos, m)
<1>1. e.pos \in Nat /\ e.len \in Nat
  BY DEF SectOf
<1>2. CASE e.pos = 0 \/ e.len = 0
  <2>1. d = e
    BY <1>1, <1>2 DEF UpdateAddOne
  <2> HIDE DEF d
  <2>2. ~Live(e) /\ \A j \in Int : ~In(e, j)
    BY <1>1, <1>2 DEF Live, In
  <2> QED BY <2>1, <2>2 DEF Fits, d
<1>3. CASE e.pos > 0 /\ e.len > 0 /\ pos < e.pos
  <2> DEFINE q == e.pos + m
  <2>1. d = [e EXCEPT !.pos = q]
    BY <1>1, <1>3 DEF UpdateAddOne
  <2>2. d.pos = e.pos + m /\ d.len = e.len
    BY <2>1 DEF SectOf
  <2> HIDE DEF d
  <2> QED BY <1>1, <1>3, <2>2 DEF Fits, Live, In, d
<1>4. CASE e.pos > 0 /\ e.len > 0 /\ pos >= e.pos /\ pos <= e.pos + e.len - 2
  <2> DEFINE q == e.len + m
  <2>1. d = [e EXCEPT !.len = q]
    BY <1>1, <1>4 DEF UpdateAddOne
  <2>2. d.pos = e.pos /\ d.len = e.len + m
    BY <2>1 DEF SectOf
  <2> HIDE DEF d
  <2> QED BY <1>1, <1>4, <2>2 DEF Fits, Live, In, d
<1>5. CASE e.pos > 0 /\ e.len > 0 /\ pos > e.pos + e.len - 2 /\ pos >= e.pos
  <2>1. d = e
    BY <1>1, <1>5 DEF UpdateAddOne
  <2> HIDE DEF d
  <2> QED BY <1>1, <1>5, <2>1 DEF Fits, Live, In, d
<1> QED BY <1>1, <1>2, <1>3, <1>4, <1>5

(* The update of one section by a delete of m bytes from pos on. *)
LEMMA DelOneType ==
  ASSUME NEW e \in SectOf, NEW pos \in Nat \ {0}, NEW m \in Nat \ {0}
  PROVE  /\ UpdateDelOne(e, pos, m).e \in SectOf
         /\ UpdateDelOne(e, pos, m).len \in Nat \ {0}
         /\ ~(e.len > 0 /\ pos < e.pos /\ e.pos < pos + m) => UpdateDelOne(e, pos, m).len = m
<1> DEFINE tmp == e.pos - pos
           rest == m - tmp
           r == UpdateDelOne(e, pos, m)
<1>1. e.pos \in Nat /\ e.len \in Nat /\ tmp \in Int /\ rest \in Int
      /\ rest = m - tmp /\ tmp = e.pos - pos
  BY DEF SectOf
<1>2. CASE ~(e.pos > 0 /\ e.len > 0)
  <2>1. r = [e |-> e, len |-> m]
    BY <1>2 DEF UpdateDelOne
  <2> QED BY <2>1
<1>3. CASE e.pos > 0 /\ e.len > 0 /\ pos <= e.pos /\ tmp >= m
  <2> DEFINE q == e.pos - m
  <2>1. r = [e |-> [e EXCEPT !.pos = q], len |-> m]
    BY <1>1, <1>3 DEF UpdateDelOne
  <2>2. q \in Nat
    BY <1>1, <1>3
  <2> HIDE DEF q
  <2>3. r.e = [e EXCEPT !.pos = q] /\ r.len = m
    BY <2>1
  <2> HIDE DEF r
  <2>4. r.e \in SectOf
    BY <2>2, <2>3 DEF SectOf
  <2> QED BY <2>3, <2>4 DEF r
<1>4. CASE e.pos > 0 /\ e.len > 0 /\ pos <= e.pos /\ tmp < m /\ rest >= e.len
  <2>1. r = [e |-> [e EXCEPT !.pos = 0], len |-> rest]
    BY <1>4, <1>1 DEF UpdateDelOne
  <2>2. r.e = [e EXCEPT !.pos = 0] /\ r.len = rest
    BY <2>1
  <2> HIDE DEF r, tmp, rest
  <2>3. r.e \in SectOf
    BY <2>2 DEF SectOf
  <2>4. rest \in Nat \ {0} /\ (rest = m \/ (pos < e.pos /\ e.pos < pos + m))
    BY <1>1, <1>4
  <2> QED BY <1>4, <2>2, <2>3, <2>4 DEF r
<1>5. CASE e.pos > 0 /\ e.len > 0 /\ pos <= e.pos /\ tmp < m /\ rest < e.len
  <2> DEFINE q == e.len - rest
  <2>1. r = [e |-> [pos |-> pos, len |-> q], len |-> rest]
    BY <1>5, <1>1 DEF UpdateDelOne
  <2>2. r.e = [pos |-> pos, len |-> q] /\ r.len = rest
    BY <2>1
  <2>3. q \in Nat
    BY <1>1, <1>5
  <2> HIDE DEF r, tmp, rest, q
  <2>4. r.e \in SectOf
    BY <2>2, <2>3 DEF SectOf
  <2>5. rest \in Nat \ {0} /\ (rest = m \/ (pos < e.pos /\ e.pos < pos + m))
    BY <1>1, <1>5
  <2> QED BY <1>5, <2>2, <2>4, <2>5 DEF r
<1>6. CASE e.pos > 0 /\ e.len > 0 /\ pos > e.pos /\ pos <= e.pos + e.len - 1
  <2> DEFINE q == IF m >= e.len + tmp THEN -tmp ELSE e.len - m
  <2>1. r = [e |-> [e EXCEPT !.len = q], len |-> m]
    BY <1>6, <1>1 DEF UpdateDelOne
  <2>2. r.e = [e EXCEPT !.len = q] /\ r.len = m
    BY <2>1
  <2>3. q \in Nat
    BY <1>1, <1>6
  <2> HIDE DEF r, q
  <2>4. r.e \in SectOf
    BY <2>2, <2>3 DEF SectOf
  <2> QED BY <2>2, <2>4 DEF r
<1>7. CASE e.pos > 0 /\ e.len > 0 /\ pos > e.pos /\ pos > e.pos + e.len - 1
  <2>1. r = [e |-> e, len |-> m]
    BY <1>1, <1>7 DEF UpdateDelOne
  <2> QED BY <2>1
<1> QED BY <1>1, <1>2, <1>3, <1>4, <1>5, <1>6, <1>7

(* A section that is inside of the string stays inside. *)
LEMMA DelOneFits ==
  ASSUME NEW e \in SectOf, NEW L \in Nat, NEW pos \in Nat \ {0}, NEW m \in Nat \ {0},
         pos + m - 1 <= L, Fits(e, L)
  PROVE  LET d == UpdateDelOne(e, pos, m).e
         IN  Fits(d, L - m)
<1> DEFINE tmp == e.pos - pos
           rest == m - tmp
           r == UpdateDelOne(e, pos, m)
           d == r.e
<1>1. e.pos \in Nat /\ e.len \in Nat /\ tmp \in Int /\ rest \in Int
      /\ rest = m - tmp /\ tmp = e.pos - pos
  BY DEF SectOf
<1>2. CASE ~(e.pos > 0 /\ e.len > 0)
  <2>1. r = [e |-> e, len |-> m]
    BY <1>2 DEF UpdateDelOne
  <2>2. d = e
    BY <2>1
  <2> HIDE DEF d
  <2>3. ~Live(e)
    BY <1>1, <1>2 DEF Live
  <2> QED BY <2>2, <2>3 DEF Fits, d
<1>3. CASE e.pos > 0 /\ e.len > 0 /\ pos <= e.pos /\ tmp >= m
  <2> DEFINE q == e.pos - m
  <2>1. r = [e |-> [e EXCEPT !.pos = q], len |-> m]
    BY <1>1, <1>3 DEF UpdateDelOne
  <2>2. d.pos = e.pos - m /\ d.len = e.len
    BY <2>1 DEF SectOf
  <2> HIDE DEF d
  <2> QED BY <1>1, <1>3, <2>2 DEF Fits, Live, d
<1>4. CASE e.pos > 0 /\ e.len > 0 /\ pos <= e.pos /\ tmp < m /\ rest >= e.len
  <2>1. r = [e |-> [e EXCEPT !.pos = 0], len |-> rest]
    BY <1>4, <1>1 DEF UpdateDelOne
  <2>2. d.pos = 0 /\ d.len = e.len
    BY <2>1 DEF SectOf
  <2> HIDE DEF d, tmp, rest
  <2> QED BY <1>1, <1>4, <2>2 DEF Fits, Live, d
<1>5. CASE e.pos > 0 /\ e.len > 0 /\ pos <= e.pos /\ tmp < m /\ rest < e.len
  <2> DEFINE q == e.len - rest
  <2>1. r = [e |-> [pos |-> pos, len |-> q], len |-> rest]
    BY <1>5, <1>1 DEF UpdateDelOne
  <2>2. d.pos = pos /\ d.len = e.len - rest
    BY <2>1
  <2> HIDE DEF d, tmp, rest
  <2> QED BY <1>1, <1>5, <2>2 DEF Fits, Live, d
<1>6. CASE e.pos > 0 /\ e.len > 0 /\ pos > e.pos /\ pos <= e.pos + e.len - 1
  <2> DEFINE q == IF m >= e.len + tmp THEN -tmp ELSE e.len - m
  <2>1. r = [e |-> [e EXCEPT !.len = q], len |-> m]
    BY <1>6, <1>1 DEF UpdateDelOne
  <2>2. d.pos = e.pos /\ d.len = IF m >= e.len + tmp THEN -tmp ELSE e.len - m
    BY <2>1 DEF SectOf
  <2> HIDE DEF d, tmp, rest
  <2> QED BY <1>1, <1>6, <2>2 DEF Fits, Live, d
<1>7. CASE e.pos > 0 /\ e.len > 0 /\ pos > e.pos /\ pos > e.pos + e.len - 1
  <2>1. r = [e |-> e, len |-> m]
    BY <1>1, <1>7 DEF UpdateDelOne
  <2>2. d = e
    BY <2>1
  <2> HIDE DEF d
  <2> QED BY <1>1, <1>7, <2>2 DEF Fits, Live, d
<1> QED BY <1>1, <1>2, <1>3, <1>4, <1>5, <1>6, <1>7


(* Where the byte at k of the string without those m bytes was. *)
LEMMA DelOneTracks ==
  ASSUME NEW e \in SectOf, NEW L \in Nat, NEW pos \in Nat \ {0}, NEW m \in Nat \ {0},
         pos + m - 1 <= L, Fits(e, L), NEW k \in 1 .. L - m
  PROVE  LET d == UpdateDelOne(e, pos, m).e
         IN  In(d, k) <=> In(e, IF k < pos THEN k ELSE k + m)
<1> DEFINE tmp == e.pos - pos
           rest == m - tmp
           r == UpdateDelOne(e, pos, m)
           d == r.e
<1>1. e.pos \in Nat /\ e.len \in Nat /\ tmp \in Int /\ rest \in Int
      /\ rest = m - tmp /\ tmp = e.pos - pos
  BY DEF SectOf
<1>2. CASE ~(e.pos > 0 /\ e.len > 0)
  <2>1. r = [e |-> e, len |-> m]
    BY <1>2 DEF UpdateDelOne
  <2>2. d = e
    BY <2>1
  <2> HIDE DEF d
  <2>3. ~Live(e) /\ \A j \in Int : ~In(e, j)
    BY <1>1, <1>2 DEF Live, In
  <2> QED BY <2>2, <2>3 DEF Fits, d
<1>3. CASE e.pos > 0 /\ e.len > 0 /\ pos <= e.pos /\ tmp >= m
  <2> DEFINE q == e.pos - m
  <2>1. r = [e |-> [e EXCEPT !.pos = q], len |-> m]
    BY <1>1, <1>3 DEF UpdateDelOne
  <2>2. d.pos = e.pos - m /\ d.len = e.len
    BY <2>1 DEF SectOf
  <2> HIDE DEF d
  <2> QED BY <1>1, <1>3, <2>2 DEF Fits, Live, In, d
<1>4. CASE e.pos > 0 /\ e.len > 0 /\ pos <= e.pos /\ tmp < m /\ rest >= e.len
  <2>1. r = [e |-> [e EXCEPT !.pos = 0], len |-> rest]
    BY <1>4, <1>1 DEF UpdateDelOne
  <2>2. d.pos = 0 /\ d.len = e.len
    BY <2>1 DEF SectOf
  <2> HIDE DEF d, tmp, rest
  <2> QED BY <1>1, <1>4, <2>2 DEF Fits, Live, In, d
<1>5. CASE e.pos > 0 /\ e.len > 0 /\ pos <= e.pos /\ tmp < m /\ rest < e.len
  <2> DEFINE q == e.len - rest
  <2>1. r = [e |-> [pos |-> pos, len |-> q], len |-> rest]
    BY <1>5, <1>1 DEF UpdateDelOne
  <2>2. d.pos = pos /\ d.len = e.len - rest
    BY <2>1
  <2> HIDE DEF d, tmp, rest
  <2> QED BY <1>1, <1>5, <2>2 DEF Fits, Live, In, d
<1>6. CASE e.pos > 0 /\ e.len > 0 /\ pos > e.pos /\ pos <= e.pos + e.len - 1
  <2> DEFINE q == IF m >= e.len + tmp THEN -tmp ELSE e.len - m
  <2>1. r = [e |-> [e EXCEPT !.len = q], len |-> m]
    BY <1>6, <1>1 DEF UpdateDelOne
  <2>2. d.pos = e.pos /\ d.len = IF m >= e.len + tmp THEN -tmp ELSE e.len - m
    BY <2>1 DEF SectOf
  <2> HIDE DEF d, tmp, rest
  <2> QED BY <1>1, <1>6, <2>2 DEF Fits, Live, In, d
<1>7. CASE e.pos > 0 /\ e.len > 0 /\ pos > e.pos /\ pos > e.pos + e.len - 1
  <2>1. r = [e |-> e, len |-> m]
    BY <1>1, <1>7 DEF UpdateDelOne
  <2>2. d = e
    BY <2>1
  <2> HIDE DEF d
  <2> QED BY <1>1, <1>7, <2>2 DEF Fits, Live, In, d
<1> QED BY <1>1, <1>2, <1>3, <1>4, <1>5, <1>6, <1>7


(* What len is behind the sections of one Vstr_sects, ... *)
LEMMA BehindIs ==
  ASSUME NEW s, NEW pos \in Nat \ {0}, NEW m \in Nat \ {0}, SOK(s)
  PROVE  LET left == LenBehind(s, pos, m)
         IN  /\ left[0] = m
             /\ \A n \in 1 .. s.num : left[n] = UpdateDelOne(s.ptr[n], pos, left[n - 1]).len
             /\ \A n \in 0 .. s.num : left[n] \in Nat \ {0}
<1> DEFINE left == LenBehind(s, pos, m)
           Q(f) == f = [n \in 0 .. s.num |->
                          IF n = 0 THEN m ELSE UpdateDelOne(s.ptr[n], pos, f[n - 1]).len]
           S == [n \in 0 .. s.num |-> Nat \ {0}]
           g == [x \in (1 .. s.num) \X (Nat \ {0}) |-> UpdateDelOne(s.ptr[x[1]], pos, x[2]).len]
<1>1. s.num \in Nat /\ s.sz \in Nat /\ s.num <= s.sz /\ s.ptr \in [1 .. s.sz -> SectOf]
  BY DEF SOK, SRec
<1>2. \A n \in 1 .. s.num : \A x \in Nat \ {0} :
        /\ g[<<n, x>>] = UpdateDelOne(s.ptr[n], pos, x).len
        /\ UpdateDelOne(s.ptr[n], pos, x).len \in Nat \ {0}
  <2>1. \A n \in 1 .. s.num : s.ptr[n] \in SectOf
    BY <1>1
  <2> QED BY <2>1, DelOneType
<1> HIDE DEF g
<1>a. PICK f : IsRec(f, s.num, m, g)
  BY ONLY <1>1, RecExists
<1>3. f = [n \in 0 .. s.num |-> IF n = 0 THEN m ELSE g[<<n, f[n - 1]>>]]
  BY ONLY <1>a DEF IsRec
<1>4. \A n \in 0 .. s.num : f[n] \in S[n]
  <2>1. f[0] \in S[0]
    BY <1>1, <1>3
  <2>2. ASSUME NEW n \in 1 .. s.num, f[n - 1] \in S[n - 1] PROVE f[n] \in S[n]
    <3>1. n \in 0 .. s.num /\ n - 1 \in 0 .. s.num /\ n # 0
      BY <1>1
    <3>2. f[n] = g[<<n, f[n - 1]>>] /\ f[n - 1] \in Nat \ {0}
      BY <1>3, <2>2, <3>1
    <3> QED BY <1>2, <3>1, <3>2
  <2> HIDE DEF S
  <2> QED BY <1>1, <2>1, <2>2, RecKeeps
<1>5. Q(f)
  <2>1. \A n \in 0 .. s.num : f[n] = IF n = 0 THEN m ELSE UpdateDelOne(s.ptr[n], pos, f[n - 1]).len
    <3> TAKE n \in 0 .. s.num
    <3>1. f[n] = IF n = 0 THEN m ELSE g[<<n, f[n - 1]>>]
      BY <1>3
    <3>2. n # 0 => n \in 1 .. s.num /\ n - 1 \in 0 .. s.num
      BY <1>1
    <3>3. n # 0 => f[n - 1] \in Nat \ {0}
      BY <1>4, <3>2
    <3> QED BY <1>2, <3>1, <3>2, <3>3
  <2>2. f = [n \in 0 .. s.num |-> f[n]]
    BY <1>3
  <2> QED BY <2>1, <2>2
<1>6. left = CHOOSE h : Q(h)
  BY DEF LenBehind
<1>7. Q(left)
  <2> HIDE DEF Q, left
  <2> QED BY <1>5, <1>6
<1> HIDE DEF left
<1>8. left[0] = m /\ \A n \in 1 .. s.num : left[n] = UpdateDelOne(s.ptr[n], pos, left[n - 1]).len
  BY <1>1, <1>7
<1>9. \A n \in 0 .. s.num : left[n] \in S[n]
  <2>1. left[0] \in S[0]
    BY <1>1, <1>8
  <2>2. ASSUME NEW n \in 1 .. s.num, left[n - 1] \in S[n - 1] PROVE left[n] \in S[n]
    <3>1. n \in 0 .. s.num /\ n - 1 \in 0 .. s.num
      BY <1>1
    <3>2. left[n - 1] \in Nat \ {0}
      BY <2>2, <3>1
    <3> QED BY <1>2, <1>8, <3>1, <3>2
  <2> HIDE DEF S
  <2> QED BY <1>1, <2>1, <2>2, RecKeeps
<1>10. \A n \in 0 .. s.num : left[n] \in Nat \ {0}
  BY <1>9
<1> QED BY <1>8, <1>10 DEF left

(* ... which is m as long as the delete reaches into none of them.         *)
Clear(s, pos, m, upto) ==
  \A n \in 1 .. upto : ~(s.ptr[n].len > 0 /\ pos < s.ptr[n].pos /\ s.ptr[n].pos < pos + m)

(* Up to such a section, nothing is taken off what is deleted. *)
LEMMA BehindSame ==
  ASSUME NEW s, NEW pos \in Nat \ {0}, NEW m \in Nat \ {0}, NEW upto \in 0 .. s.num, SOK(s),
         Clear(s, pos, m, upto)
  PROVE  \A n \in 0 .. upto : LenBehind(s, pos, m)[n] = m
<1> DEFINE left == LenBehind(s, pos, m)
           S == [n \in 0 .. upto |-> {m}]
<1>1. s.num \in Nat /\ s.sz \in Nat /\ s.num <= s.sz /\ s.ptr \in [1 .. s.sz -> SectOf]
      /\ upto \in Nat
  BY DEF SOK, SRec
<1>2. /\ left[0] = m
      /\ \A n \in 1 .. s.num : left[n] = UpdateDelOne(s.ptr[n], pos, left[n - 1]).len
  BY BehindIs
<1> HIDE DEF left
<1>3. left[0] \in S[0]
  BY <1>1, <1>2
<1>4. ASSUME NEW n \in 1 .. upto, left[n - 1] \in S[n - 1] PROVE left[n] \in S[n]
  <2>1. n \in 0 .. upto /\ n - 1 \in 0 .. upto /\ n \in 1 .. s.num /\ n \in 1 .. s.sz
    BY <1>1
  <2>2. left[n - 1] = m /\ s.ptr[n] \in SectOf
    BY <1>1, <1>4, <2>1
  <2>3. left[n] = UpdateDelOne(s.ptr[n], pos, m).len
    BY <1>2, <2>1, <2>2
  <2>4. left[n] = m
    BY <2>2, <2>3, DelOneType DEF Clear
  <2> QED BY <2>1, <2>4
<1>5. \A n \in 0 .. upto : left[n] \in S[n]
  <2> HIDE DEF S
  <2> QED BY <1>1, <1>3, <1>4, RecKeeps
<1> QED BY <1>5 DEF left


(* ... and behind each Vstr_sects. *)
LEMMA AfterIs ==
  ASSUME IInv, NEW pos \in Nat \ {0}, NEW m \in Nat \ {0}
  PROVE  LET left == LenAfter(pos, m)
         IN  /\ left[0] = m
             /\ \A k \in 1 .. Len(updates) :
                  left[k] = LenBehind(sects[updates[k]], pos, left[k - 1])[sects[updates[k]].num]
             /\ \A k \in 0 .. Len(updates) : left[k] \in Nat \ {0}
<1> DEFINE left == LenAfter(pos, m)
           N == Len(updates)
           Turn(k, x) == LenBehind(sects[updates[k]], pos, x)[sects[updates[k]].num]
           Q(f) == f = [k \in 0 .. N |-> IF k = 0 THEN m ELSE Turn(k, f[k - 1])]
           S == [k \in 0 .. N |-> Nat \ {0}]
           g == [x \in (1 .. N) \X (Nat \ {0}) |-> Turn(x[1], x[2])]
<1>1. N \in Nat
  BY DEF IInv, Types
<1>2. \A k \in 1 .. N : \A x \in Nat \ {0} :
        g[<<k, x>>] = Turn(k, x) /\ Turn(k, x) \in Nat \ {0}
  <2> TAKE k \in 1 .. N
  <2> TAKE x \in Nat \ {0}
  <2> DEFINE s == sects[updates[k]]
  <2>1. SOK(s)
    BY DEF IInv, Types
  <2>2. s.num \in Nat
    BY <2>1 DEF SOK, SRec
  <2>3. Turn(k, x) \in Nat \ {0}
    <3> HIDE DEF s
    <3>1. \A n \in 0 .. s.num : LenBehind(s, pos, x)[n] \in Nat \ {0}
      BY <2>1, BehindIs
    <3>2. LenBehind(s, pos, x)[s.num] \in Nat \ {0}
      BY <2>2, <3>1
    <3> QED BY <3>2 DEF s
  <2> QED BY <2>3
<1> HIDE DEF Turn, N
<1> HIDE DEF g
<1>a. PICK f : IsRec(f, N, m, g)
  BY ONLY <1>1, RecExists
<1>3. f = [k \in 0 .. N |-> IF k = 0 THEN m ELSE g[<<k, f[k - 1]>>]]
  BY ONLY <1>a DEF IsRec
<1>4. \A k \in 0 .. N : f[k] \in S[k]
  <2>1. f[0] \in S[0]
    BY <1>1, <1>3
  <2>2. ASSUME NEW k \in 1 .. N, f[k - 1] \in S[k - 1] PROVE f[k] \in S[k]
    <3>1. k \in 0 .. N /\ k - 1 \in 0 .. N /\ k # 0
      BY <1>1
    <3>2. f[k] = g[<<k, f[k - 1]>>] /\ f[k - 1] \in Nat \ {0}
      BY <1>3, <2>2, <3>1
    <3> QED BY <1>2, <3>1, <3>2
  <2> HIDE DEF S
  <2> QED BY <1>1, <2>1, <2>2, RecKeeps
<1>5. Q(f)
  <2>1. \A k \in 0 .. N : f[k] = IF k = 0 THEN m ELSE Turn(k, f[k - 1])
    <3> TAKE k \in 0 .. N
    <3>1. f[k] = IF k = 0 THEN m ELSE g[<<k, f[k - 1]>>]
      BY <1>3
    <3>2. k # 0 => k \in 1 .. N /\ k - 1 \in 0 .. N
      BY <1>1
    <3>3. k # 0 => f[k - 1] \in Nat \ {0}
      BY <1>4, <3>2
    <3> QED BY <1>2, <3>1, <3>2, <3>3
  <2>2. f = [k \in 0 .. N |-> f[k]]
    BY <1>3
  <2> QED BY <2>1, <2>2
<1>6. left = CHOOSE h : Q(h)
  BY DEF LenAfter, Turn, N
<1>7. Q(left)
  <2> HIDE DEF Q, left
  <2> QED BY <1>5, <1>6
<1> HIDE DEF left
<1>8. left[0] = m /\ \A k \in 1 .. N : left[k] = Turn(k, left[k - 1])
  BY <1>1, <1>7
<1>9. \A k \in 0 .. N : left[k] \in S[k]
  <2>1. left[0] \in S[0]
    BY <1>1, <1>8
  <2>2. ASSUME NEW k \in 1 .. N, left[k - 1] \in S[k - 1] PROVE left[k] \in S[k]
    <3>1. k \in 0 .. N /\ k - 1 \in 0 .. N
      BY <1>1
    <3>2. left[k - 1] \in Nat \ {0}
      BY <2>2, <3>1
    <3>3. left[k] = Turn(k, left[k - 1])
      BY <1>8
    <3>4. Turn(k, left[k - 1]) \in Nat \ {0}
      BY ONLY <1>2, <2>2, <3>2
    <3>5. left[k] \in Nat \ {0}
      BY ONLY <3>3, <3>4
    <3> QED BY ONLY <3>1, <3>5 DEF S
  <2> HIDE DEF S
  <2> QED BY <1>1, <2>1, <2>2, RecKeeps
<1>10. \A k \in 0 .. N : left[k] \in Nat \ {0}
  BY <1>9
<1> QED BY <1>8, <1>10 DEF left, Turn, N

(* A plain delete is made with the same len everywhere. *)
LEMMA AfterSame ==
  ASSUME IInv, NEW pos \in Nat \ {0}, NEW m \in Nat \ {0}, PlainDel(pos, m),
         NEW k \in 1 .. Len(updates), NEW n \in 1 .. sects[updates[k]].num
  PROVE  LenBehind(sects[updates[k]], pos, LenAfter(pos, m)[k - 1])[n - 1] = m
<1> DEFINE left == LenAfter(pos, m)
           N == Len(updates)
           s(j) == sects[updates[j]]
           S == [j \in 0 .. k - 1 |-> {m}]
<1>1. N \in Nat /\ k \in 1 .. N /\ k - 1 \in Nat
  BY DEF IInv, Types
<1>2. \A j \in 1 .. N : SOK(s(j)) /\ s(j).num \in Nat
  <2>1. \A j \in 1 .. N : updates[j] \in Sects
    BY DEF IInv, Types
  <2> QED BY <2>1 DEF IInv, Types, SOK, SRec
<1>3. \A j \in 1 .. N : \A i \in 1 .. s(j).num :
        s(j).ptr[i].len > 0 /\ pos < s(j).ptr[i].pos /\ s(j).ptr[i].pos < pos + m
          => i = s(j).num /\ \A h \in j + 1 .. N : s(h).num = 0
  BY DEF PlainDel, IsLast, IInv, Types
<1>4. s(k).num > 0 /\ n \in 1 .. s(k).num
  BY <1>1, <1>2
<1>5. left[0] = m /\ \A j \in 1 .. N : left[j] = LenBehind(s(j), pos, left[j - 1])[s(j).num]
  BY AfterIs
<1> HIDE DEF left, N, s
<1>6. \A j \in 1 .. k - 1 : \A i \in 1 .. s(j).num :
        ~(s(j).ptr[i].len > 0 /\ pos < s(j).ptr[i].pos /\ s(j).ptr[i].pos < pos + m)
  <2> TAKE j \in 1 .. k - 1
  <2>1. j \in 1 .. N /\ k \in j + 1 .. N
    BY <1>1
  <2> QED BY <1>3, <1>4, <2>1
<1>7. left[0] \in S[0]
  BY <1>1, <1>5
<1>8. ASSUME NEW j \in 1 .. k - 1, left[j - 1] \in S[j - 1] PROVE left[j] \in S[j]
  <2>1. j \in 1 .. N /\ j - 1 \in 0 .. k - 1 /\ j \in 0 .. k - 1
    BY <1>1
  <2>2. left[j - 1] = m /\ left[j] = LenBehind(s(j), pos, left[j - 1])[s(j).num]
    BY <1>5, <1>8, <2>1
  <2> DEFINE t == s(j)
  <2>3. SOK(t) /\ t.num \in 0 .. t.num /\ \A i \in 1 .. t.num :
          ~(t.ptr[i].len > 0 /\ pos < t.ptr[i].pos /\ t.ptr[i].pos < pos + m)
    BY <1>2, <1>6, <2>1
  <2> HIDE DEF t
  <2>a. Clear(t, pos, m, t.num)
    BY <2>3 DEF Clear
  <2>4. \A i \in 0 .. t.num : LenBehind(t, pos, m)[i] = m
    BY <2>3, <2>a, BehindSame
  <2>5. left[j] = m
    BY <2>2, <2>3, <2>4 DEF t
  <2> QED BY <2>1, <2>5
<1>9. left[k - 1] = m
  <2>1. \A j \in 0 .. k - 1 : left[j] \in S[j]
    <3> HIDE DEF S
    <3> QED BY <1>1, <1>7, <1>8, RecKeeps
  <2>2. k - 1 \in 0 .. k - 1
    BY <1>1
  <2> QED BY <2>1, <2>2
<1> DEFINE t == s(k)
           b == n - 1
<1>10. /\ SOK(t) /\ b \in 0 .. t.num
       /\ \A i \in 1 .. b : ~(t.ptr[i].len > 0 /\ pos < t.ptr[i].pos
                              /\ t.ptr[i].pos < pos + m)
  <2>1. SOK(t) /\ t.num \in Nat /\ b \in 0 .. t.num
    BY <1>1, <1>2, <1>4
  <2>2. \A i \in 1 .. b : i \in 1 .. t.num /\ i # t.num
    BY <1>4, <2>1
  <2> QED BY <1>1, <1>3, <2>1, <2>2
<1> HIDE DEF t
<1>11. \A i \in 0 .. b : LenBehind(t, pos, m)[i] = m
  <2> HIDE DEF b
  <2>1. Clear(t, pos, m, b)
    BY <1>10 DEF Clear
  <2> QED BY ONLY <1>10, <2>1, pos \in Nat \ {0}, m \in Nat \ {0}, BehindSame
<1>12. b \in 0 .. b
  BY <1>4
<1> QED BY <1>9, <1>11, <1>12 DEF t, left, s


(* A change of the string moves the sections of one Vstr_sects, and        *)
(* nothing else of it.                                                     *)
SameArray(s, t) == SOK(t) /\ t.num = s.num /\ t.sz = s.sz

(* An add moves each section of a Vstr_sects by itself, ... *)
LEMMA AddAllIs ==
  ASSUME NEW s, NEW pos \in Nat, NEW m \in Nat, SOK(s)
  PROVE  /\ SameArray(s, UpdateAddAll(s, pos, m))
         /\ \A n \in 1 .. s.num :
              UpdateAddAll(s, pos, m).ptr[n] = UpdateAddOne(s.ptr[n], pos, m)
<1> DEFINE p == [n \in DOMAIN s.ptr |->
                   IF n <= s.num THEN UpdateAddOne(s.ptr[n], pos, m) ELSE s.ptr[n]]
<1>1. s.num \in Nat /\ s.sz \in Nat /\ s.num <= s.sz /\ s.ptr \in [1 .. s.sz -> SectOf]
  BY DEF SOK, SRec
<1>2. \A n \in 1 .. s.sz : s.ptr[n] \in SectOf /\ UpdateAddOne(s.ptr[n], pos, m) \in SectOf
  BY <1>1, AddOneType
<1>3. p \in [1 .. s.sz -> SectOf]
  BY <1>1, <1>2
<1>4. \A n \in 1 .. s.num : p[n] = UpdateAddOne(s.ptr[n], pos, m)
  BY <1>1
<1>5. UpdateAddAll(s, pos, m) = [s EXCEPT !.ptr = p]
  BY DEF UpdateAddAll
<1> HIDE DEF p
<1> QED BY <1>3, <1>4, <1>5, SPtr DEF SameArray

(* ... and a delete by what the sections in front of it left of len. *)
LEMMA DelAllIs ==
  ASSUME NEW s, NEW pos \in Nat \ {0}, NEW m \in Nat \ {0}, SOK(s)
  PROVE  /\ SameArray(s, UpdateDelAll(s, pos, m))
         /\ \A n \in 1 .. s.num :
              UpdateDelAll(s, pos, m).ptr[n]
                = UpdateDelOne(s.ptr[n], pos, LenBehind(s, pos, m)[n - 1]).e
<1> DEFINE left == LenBehind(s, pos, m)
           p == [n \in DOMAIN s.ptr |->
                   IF n <= s.num THEN UpdateDelOne(s.ptr[n], pos, left[n - 1]).e ELSE s.ptr[n]]
<1>1. s.num \in Nat /\ s.sz \in Nat /\ s.num <= s.sz /\ s.ptr \in [1 .. s.sz -> SectOf]
  BY DEF SOK, SRec
<1>2. \A n \in 0 .. s.num : left[n] \in Nat \ {0}
  BY BehindIs
<1>3. UpdateDelAll(s, pos, m) = [s EXCEPT !.ptr = p]
  BY DEF UpdateDelAll
<1> HIDE DEF left
<1>4. \A n \in 1 .. s.num : UpdateDelOne(s.ptr[n], pos, left[n - 1]).e \in SectOf
  <2> TAKE n \in 1 .. s.num
  <2>1. n - 1 \in 0 .. s.num /\ n \in 1 .. s.sz
    BY <1>1
  <2>2. left[n - 1] \in Nat \ {0} /\ s.ptr[n] \in SectOf
    BY <1>1, <1>2, <2>1
  <2> QED BY <2>2, DelOneType
<1>5. p \in [1 .. s.sz -> SectOf]
  <2>1. \A n \in 1 .. s.sz : n <= s.num => n \in 1 .. s.num
    BY <1>1
  <2> QED BY <1>1, <1>4, <2>1
<1>6. \A n \in 1 .. s.num : p[n] = UpdateDelOne(s.ptr[n], pos, left[n - 1]).e
  BY <1>1
<1> HIDE DEF p
<1> QED BY <1>3, <1>5, <1>6, SPtr DEF SameArray, left

(* ... and so of all of them. *)
LEMMA AddsAre ==
  ASSUME Types, NEW pos \in Nat, NEW m \in Nat
  PROVE  /\ UpdateAdds(pos, m) \in [Sects -> SRec]
         /\ \A i \in Sects :
              /\ SameArray(sects[i], UpdateAdds(pos, m)[i])
              /\ i \in Range(updates) => \A n \in 1 .. sects[i].num :
                   UpdateAdds(pos, m)[i].ptr[n] = UpdateAddOne(sects[i].ptr[n], pos, m)
              /\ i \notin Range(updates) => UpdateAdds(pos, m)[i] = sects[i]
<1> DEFINE ts == UpdateAdds(pos, m)
<1>1. /\ DOMAIN ts = Sects
      /\ ts = [i \in Sects |-> ts[i]]
      /\ \A i \in Sects : ts[i] = IF i \in Range(updates) THEN UpdateAddAll(sects[i], pos, m)
                                                           ELSE sects[i]
  BY DEF UpdateAdds
<1> HIDE DEF ts
<1>2. ASSUME NEW i \in Sects
      PROVE  /\ SameArray(sects[i], ts[i])
             /\ i \in Range(updates) => \A n \in 1 .. sects[i].num :
                  ts[i].ptr[n] = UpdateAddOne(sects[i].ptr[n], pos, m)
             /\ i \notin Range(updates) => ts[i] = sects[i]
  <2> DEFINE s == sects[i]
  <2>1. SOK(s)
    BY DEF Types
  <2>2. ts[i] = IF i \in Range(updates) THEN UpdateAddAll(s, pos, m) ELSE s
    BY <1>1
  <2> HIDE DEF s
  <2>3. /\ SameArray(s, UpdateAddAll(s, pos, m))
        /\ \A n \in 1 .. s.num : UpdateAddAll(s, pos, m).ptr[n] = UpdateAddOne(s.ptr[n], pos, m)
    BY <2>1, AddAllIs
  <2>4. SameArray(s, s)
    BY <2>1 DEF SameArray
  <2> QED BY <2>2, <2>3, <2>4 DEF s
<1>3. \A i \in Sects : ts[i] \in SRec
  BY <1>2 DEF SameArray, SOK
<1> QED BY <1>1, <1>2, <1>3 DEF ts

(* vstr__sects_update_srch() finds a Vstr_sects that is kept up to date. *)
LEMMA PlaceIs ==
  ASSUME Types, NEW i \in Range(updates)
  PROVE  PlaceOf(i) \in 1 .. Len(updates) /\ updates[PlaceOf(i)] = i
<1>1. DOMAIN updates = 1 .. Len(updates)
  BY DEF Types
<1>2. \E k \in DOMAIN updates : updates[k] = i
  BY DEF Range
<1> QED BY <1>1, <1>2 DEF PlaceOf

(* A plain delete moves every section as if it were the only one. *)
LEMMA DelsAre ==
  ASSUME IInv, NEW pos \in Nat \ {0}, NEW m \in Nat \ {0}
  PROVE  /\ UpdateDels(pos, m) \in [Sects -> SRec]
         /\ \A i \in Sects :
              /\ SameArray(sects[i], UpdateDels(pos, m)[i])
              /\ i \in Range(updates) /\ PlainDel(pos, m) => \A n \in 1 .. sects[i].num :
                   UpdateDels(pos, m)[i].ptr[n] = UpdateDelOne(sects[i].ptr[n], pos, m).e
<1> DEFINE ts == UpdateDels(pos, m)
           left == LenAfter(pos, m)
<1>1. /\ DOMAIN ts = Sects
      /\ ts = [i \in Sects |-> ts[i]]
      /\ \A i \in Sects : ts[i] = IF i \in Range(updates)
                                  THEN UpdateDelAll(sects[i], pos, left[PlaceOf(i) - 1])
                                  ELSE sects[i]
  BY DEF UpdateDels
<1>2. /\ Types /\ Len(updates) \in Nat
      /\ \A k \in 0 .. Len(updates) : left[k] \in Nat \ {0}
  BY AfterIs DEF IInv, Types
<1> HIDE DEF ts
<1>3. ASSUME NEW i \in Sects
      PROVE  /\ SameArray(sects[i], ts[i])
             /\ i \in Range(updates) /\ PlainDel(pos, m) => \A n \in 1 .. sects[i].num :
                  ts[i].ptr[n] = UpdateDelOne(sects[i].ptr[n], pos, m).e
  <2> DEFINE s == sects[i]
  <2>1. SOK(s)
    BY <1>2 DEF Types
  <2>2. CASE i \notin Range(updates)
    BY <1>1, <2>1, <2>2 DEF SameArray
  <2>3. CASE i \in Range(updates)
    <3> DEFINE k == PlaceOf(i)
               x == left[k - 1]
    <3>1. k \in 1 .. Len(updates) /\ updates[k] = i
      BY <1>2, <2>3, PlaceIs
    <3>2. k - 1 \in 0 .. Len(updates)
      BY <1>2, <3>1
    <3>3. x \in Nat \ {0}
      BY <1>2, <3>2
    <3>4. ts[i] = UpdateDelAll(s, pos, x)
      BY <1>1, <2>3
    <3>5. ASSUME PlainDel(pos, m), NEW n \in 1 .. s.num
          PROVE  LenBehind(s, pos, x)[n - 1] = m
      <4> HIDE DEF k
      <4> QED BY <3>1, <3>5, AfterSame
    <3> HIDE DEF s, x
    <3>6. /\ SameArray(s, UpdateDelAll(s, pos, x))
          /\ \A n \in 1 .. s.num :
               UpdateDelAll(s, pos, x).ptr[n]
                 = UpdateDelOne(s.ptr[n], pos, LenBehind(s, pos, x)[n - 1]).e
      BY <2>1, <3>3, DelAllIs
    <3>7. PlainDel(pos, m) => \A n \in 1 .. s.num :
            ts[i].ptr[n] = UpdateDelOne(s.ptr[n], pos, m).e
      BY <3>4, <3>5, <3>6
    <3> QED BY <3>4, <3>6, <3>7 DEF s
  <2> QED BY <2>2, <2>3
<1>4. \A i \in Sects : ts[i] \in SRec
  BY <1>3 DEF SameArray, SOK
<1> QED BY <1>1, <1>3, <1>4 DEF ts


(* A step that leaves the frame of vstr_sects_foreach() as it was: the     *)
(* array it goes through has not become smaller, and what is left of the   *)
(* sections it began with is still there.                                  *)
LEMMA IterStays ==
  ASSUME Types, Types', iter.on => IterOK(iter, sects[iter.i]), iter' = iter,
         \A i \in Sects :
           /\ sects'[i].sz >= sects[i].sz /\ sects'[i].num >= sects[i].num
           /\ \A n \in 1 .. sects[i].num :
                /\ sects'[i].ptr[n].pos > 0 <=> sects[i].ptr[n].pos > 0
                /\ sects'[i].ptr[n].len > 0 <=> sects[i].ptr[n].len > 0
  PROVE  IInv'
<1>1. ASSUME iter'.on PROVE IterOK(iter', sects'[iter'.i])
  <2> DEFINE s == sects[iter.i]
             t == sects'[iter.i]
  <2>1. iter.on /\ iter \in IterRec
    BY <1>1 DEF Types, NoIter
  <2>2. iter.i \in Sects /\ iter.scan \in Nat
    BY <2>1 DEF IterRec
  <2>3. s.num \in Nat /\ s.sz \in Nat /\ t.num \in Nat /\ t.sz \in Nat
    BY <2>2 DEF Types, SOK, SRec
  <2>4. t.sz >= s.sz /\ t.num >= s.num
    BY <2>2
  <2>5. \A n \in 1 .. s.num : /\ t.ptr[n].pos > 0 <=> s.ptr[n].pos > 0
                              /\ t.ptr[n].len > 0 <=> s.ptr[n].len > 0
    BY <2>2
  <2>6. IterOK(iter, s)
    BY <2>1
  <2> HIDE DEF s, t
  <2>7. iter.keep \subseteq 1 .. s.num /\ iter.keep \subseteq 1 .. t.num
    BY <2>3, <2>4, <2>6 DEF IterOK
  <2>8. \A n \in iter.keep : Passes(t.ptr[n], iter.null)
    BY <2>5, <2>6, <2>7 DEF IterOK, Passes
  <2>9. /\ ~AnyDel /\ iter.back => iter.scan <= t.sz
        /\ ~AnyDel /\ iter.called => iter.scan <= t.sz
    BY <2>2, <2>3, <2>4, <2>6 DEF IterOK
  <2>10. IterOK(iter, t)
    BY <2>6, <2>7, <2>8, <2>9 DEF IterOK
  <2> QED BY <2>10 DEF t
<1> QED BY <1>1 DEF IInv

(* A step after which the sections that are left are looked at again. *)
LEMMA IterFollows ==
  ASSUME Types, iter.on => IterOK(iter, sects[iter.i]), Follow,
         sects' \in [Sects -> SRec], \A i \in Sects : SOK(sects'[i]),
         iter.on /\ ~AnyDel => \/ iter.scan <= sects'[iter.i].sz
                               \/ sects[iter.i].sz <= sects'[iter.i].sz
  PROVE  iter' \in IterRec \cup {NoIter} /\ (iter'.on => IterOK(iter', sects'[iter'.i]))
<1>1. CASE ~iter.on
  BY <1>1 DEF Types, Follow
<1>2. CASE iter.on
  <2> DEFINE s == sects[iter.i]
             t == sects'[iter.i]
             keep == {n \in iter.keep : n <= t.num /\ Passes(t.ptr[n], iter.null)}
  <2>1. iter \in IterRec
    BY <1>2 DEF Types, NoIter
  <2>2. iter.i \in Sects /\ iter.scan \in Nat /\ iter.keep \in SUBSET Nat
    BY <2>1 DEF IterRec
  <2>3. /\ s.num \in Nat /\ s.sz \in Nat /\ t.num \in Nat /\ t.sz \in Nat
        /\ ~AnyDel => iter.scan <= t.sz \/ s.sz <= t.sz
    BY <1>2, <2>2 DEF Types, SOK, SRec
  <2>4. iter' = [iter EXCEPT !.keep = keep]
    BY <1>2 DEF Follow
  <2>5. IterOK(iter, s)
    BY <1>2
  <2>6. /\ keep \in SUBSET Nat /\ keep \subseteq iter.keep
        /\ keep \subseteq 1 .. t.num
        /\ \A n \in keep : Passes(t.ptr[n], iter.null)
    BY <2>2, <2>3, <2>5 DEF IterOK
  <2> HIDE DEF s, keep
  <2>7. /\ iter' \in IterRec /\ iter'.i = iter.i /\ iter'.back = iter.back
        /\ iter'.null = iter.null /\ iter'.called = iter.called /\ iter'.scan = iter.scan
        /\ iter'.seen = iter.seen /\ iter'.keep = keep
    BY <2>1, <2>4, <2>6 DEF IterRec
  <2> HIDE DEF t
  <2>8. IterOK(iter', t)
    <3>1. \A n \in keep : Past(iter', n) => n \in iter'.seen
      BY <2>5, <2>6, <2>7 DEF IterOK, Past
    <3>2. /\ ~AnyDel /\ iter'.back => iter'.scan <= t.sz
          /\ ~iter'.back => iter'.scan > 0
          /\ iter'.called => iter'.scan > 0 /\ iter'.scan \in iter'.seen
          /\ ~AnyDel /\ iter'.called => iter'.scan <= t.sz
      BY <2>2, <2>3, <2>5, <2>7 DEF IterOK
    <3>3. iter'.keep \subseteq 1 .. t.num /\ \A n \in iter'.keep : Passes(t.ptr[n], iter'.null)
      BY <2>6, <2>7
    <3> QED BY <2>7, <3>1, <3>2, <3>3 DEF IterOK
  <2> QED BY <2>7, <2>8 DEF t
<1> QED BY <1>1, <1>2

(* vstr_add_buf() *)
LEMMA AddStrInv ==
  ASSUME IInv, NEW pos \in 0 .. Len(str), NEW cs \in Texts, AddStr(pos, cs)
  PROVE  IInv' /\ (Track => Track')
<1> DEFINE L == Len(str)
           m == Len(cs)
           new == [k \in 1 .. m |-> [c |-> cs[k], in |-> Inner(pos)]]
<1>1. Types /\ L \in Nat /\ pos \in Nat /\ pos <= L /\ str \in Seq(ByteRec)
  BY DEF IInv, Types
<1>2. cs \in Seq({"a", ":"}) /\ m \in Nat /\ \A k \in 1 .. m : cs[k] \in {"a", ":"}
  BY SectsAssumption
<1>3. /\ Inner(pos) = IF pos \in 1 .. L - 1 THEN str[pos].in \cap str[pos + 1].in ELSE {}
      /\ Inner(pos) \in SUBSET (Sects \X Nat)
  <2>1. \A k \in 1 .. L : str[k] \in ByteRec
    BY <1>1
  <2>2. pos \in 1 .. L - 1 => str[pos].in \in SUBSET (Sects \X Nat)
    BY <1>1, <2>1 DEF ByteRec
  <2> QED BY <2>2 DEF Inner
<1>4. new \in Seq(ByteRec) /\ Len(new) = m /\ \A k \in 1 .. m : new[k].in = Inner(pos)
  <2>1. \A k \in 1 .. m : [c |-> cs[k], in |-> Inner(pos)] \in ByteRec
    BY <1>2, <1>3 DEF ByteRec
  <2>2. new \in [1 .. m -> ByteRec]
    BY <2>1
  <2> QED BY <1>2, <2>2
<1>5. str' = Spliced(str, pos, new) /\ sects' = UpdateAdds(pos, m)
      /\ updates' = updates /\ iter' = iter
  BY DEF AddStr, Spliced
<1> HIDE DEF new, m
<1>6. /\ str' \in Seq(ByteRec) /\ Len(str') = L + m
      /\ \A k \in 1 .. L + m : str'[k] = IF k <= pos THEN str[k]
                                         ELSE IF k <= pos + m THEN new[k - pos]
                                         ELSE str[k - m]
  <2>1. /\ Spliced(str, pos, new) \in Seq(ByteRec)
        /\ Len(Spliced(str, pos, new)) = Len(str) + Len(new)
        /\ \A k \in 1 .. Len(str) + Len(new) :
             Spliced(str, pos, new)[k] = IF k <= pos THEN str[k]
                                         ELSE IF k <= pos + Len(new) THEN new[k - pos]
                                         ELSE str[k - Len(new)]
    BY ONLY <1>1, <1>4, pos \in 0 .. Len(str), SplicedIs, ZenonT(40)
  <2> QED BY ONLY <1>4, <1>5, <2>1
<1>7. /\ sects' \in [Sects -> SRec]
      /\ \A i \in Sects :
           /\ SameArray(sects[i], sects'[i])
           /\ i \in Range(updates) => \A n \in 1 .. sects[i].num :
                sects'[i].ptr[n] = UpdateAddOne(sects[i].ptr[n], pos, m)
           /\ i \notin Range(updates) => sects'[i] = sects[i]
  <2>1. /\ UpdateAdds(pos, m) \in [Sects -> SRec]
        /\ \A i \in Sects :
             /\ SameArray(sects[i], UpdateAdds(pos, m)[i])
             /\ i \in Range(updates) => \A n \in 1 .. sects[i].num :
                  UpdateAdds(pos, m)[i].ptr[n] = UpdateAddOne(sects[i].ptr[n], pos, m)
             /\ i \notin Range(updates) => UpdateAdds(pos, m)[i] = sects[i]
    BY ONLY <1>1, <1>2, AddsAre
  <2> QED BY ONLY <1>5, <2>1
<1>8. Types'
  BY <1>1, <1>5, <1>6, <1>7 DEF Types, SameArray
<1>9. \A i \in Sects : \A n \in 1 .. sects[i].num : sects[i].ptr[n] \in SectOf
  BY <1>1, EntryType DEF Types
<1>10. \A i \in Sects :
         /\ sects'[i].sz >= sects[i].sz /\ sects'[i].num >= sects[i].num
         /\ \A n \in 1 .. sects[i].num :
              /\ sects'[i].ptr[n].pos > 0 <=> sects[i].ptr[n].pos > 0
              /\ sects'[i].ptr[n].len > 0 <=> sects[i].ptr[n].len > 0
  <2> TAKE i \in Sects
  <2>1. sects'[i].sz = sects[i].sz /\ sects'[i].num = sects[i].num
        /\ sects[i].sz \in Nat /\ sects[i].num \in Nat
    BY <1>1, <1>7 DEF SameArray, Types, SOK, SRec
  <2>2. ASSUME NEW n \in 1 .. sects[i].num
        PROVE  /\ sects'[i].ptr[n].pos > 0 <=> sects[i].ptr[n].pos > 0
               /\ sects'[i].ptr[n].len > 0 <=> sects[i].ptr[n].len > 0
    <3>1. CASE i \in Range(updates)
      <4> DEFINE e == sects[i].ptr[n]
      <4>1. sects'[i].ptr[n] = UpdateAddOne(e, pos, m) /\ e \in SectOf
        BY <1>7, <1>9, <3>1
      <4>2. m \in Nat
        BY <1>2 DEF m
      <4> HIDE DEF e
      <4>3. /\ UpdateAddOne(e, pos, m).pos > 0 <=> e.pos > 0
            /\ UpdateAddOne(e, pos, m).len > 0 <=> e.len > 0
        BY ONLY <1>1, <4>1, <4>2, AddOneType
      <4> QED BY <4>1, <4>3 DEF e
    <3>2. CASE i \notin Range(updates)
      BY <1>7, <3>2
    <3> QED BY <3>1, <3>2
  <2> QED BY <2>1, <2>2
<1>11. IInv'
  BY <1>1, <1>5, <1>8, <1>10, IterStays DEF IInv
<1>12. ASSUME Track PROVE Track'
  <2>1. ASSUME NEW i \in Sects, i \in Range(updates), NEW n \in 1 .. sects[i].num
        PROVE  /\ \A k \in 1 .. L + m : <<i, n>> \in str'[k].in <=> In(sects'[i].ptr[n], k)
               /\ Fits(sects'[i].ptr[n], L + m)
    <3> DEFINE e == sects[i].ptr[n]
               d == UpdateAddOne(e, pos, m)
    <3>1. sects'[i].ptr[n] = d /\ e \in SectOf
      BY <1>7, <1>9, <2>1
    <3>2. \A k \in 1 .. L : <<i, n>> \in str[k].in <=> In(e, k)
      BY <1>12, <2>1 DEF Track
    <3>3. Fits(e, L)
      BY <1>12, <2>1 DEF Track
    <3>4. m \in Nat
      BY <1>2 DEF m
    <3> HIDE DEF e, L
    <3>5. ASSUME NEW k \in 1 .. L + m PROVE <<i, n>> \in str'[k].in <=> In(d, k)
      <4>1. In(d, k) <=> IF k <= pos THEN In(e, k)
                         ELSE IF k > pos + m THEN In(e, k - m)
                         ELSE pos \in 1 .. L - 1 /\ In(e, pos) /\ In(e, pos + 1)
        BY <1>1, <3>1, <3>3, <3>4, AddOneTracks, SMTT(30)
      <4> HIDE DEF d
      <4>2. CASE k <= pos
        <5>1. k \in 1 .. L /\ str'[k] = str[k]
          BY <1>1, <1>6, <4>2
        <5> QED BY <3>2, <4>1, <4>2, <5>1
      <4>3. CASE k > pos + m
        <5>1. k - m \in 1 .. L /\ ~(k <= pos) /\ ~(k <= pos + m)
          BY <1>1, <3>4, <4>3
        <5>2. str'[k] = str[k - m]
          BY <1>6, <5>1
        <5> QED BY <3>2, <4>1, <4>3, <5>1, <5>2
      <4>4. CASE k > pos /\ k <= pos + m
        <5>1. k - pos \in 1 .. m /\ ~(k <= pos) /\ ~(k > pos + m)
          BY <1>1, <3>4, <4>4
        <5>2. str'[k].in = Inner(pos)
          BY <1>4, <1>6, <4>4, <5>1
        <5>3. pos \in 1 .. L - 1 => /\ <<i, n>> \in str[pos].in <=> In(e, pos)
                                    /\ <<i, n>> \in str[pos + 1].in <=> In(e, pos + 1)
          BY <1>1, <3>2, SMTT(30)
        <5>4. <<i, n>> \in Inner(pos) <=> pos \in 1 .. L - 1 /\ In(e, pos) /\ In(e, pos + 1)
          BY <1>3, <5>3
        <5> QED BY <4>1, <5>1, <5>2, <5>4
      <4> QED BY <1>1, <3>4, <4>2, <4>3, <4>4
    <3>6. Fits(d, L + m)
      <4>1. CASE L + m = 0
        <5>1. L = 0 /\ m = 0
          BY <1>1, <3>4, <4>1
        <5>2. e.pos \in Nat /\ e.len \in Nat
          BY <3>1 DEF SectOf
        <5>3. e.pos = 0 \/ e.len = 0
          BY <3>3, <5>1, <5>2 DEF Fits, Live
        <5>4. d = e
          BY <5>2, <5>3 DEF UpdateAddOne
        <5> QED BY <3>3, <4>1, <5>1, <5>4
      <4>2. CASE L + m # 0
        <5>1. 1 \in 1 .. L + m
          BY <1>1, <3>4, <4>2
        <5> QED BY <1>1, <3>1, <3>3, <3>4, <5>1, AddOneTracks
      <4> QED BY <4>1, <4>2
    <3> HIDE DEF d
    <3> QED BY <3>1, <3>5, <3>6
  <2>2. \A i \in Sects : sects'[i].num = sects[i].num
    BY <1>7 DEF SameArray
  <2> QED BY <1>5, <1>6, <2>1, <2>2 DEF Track
<1> QED BY <1>11, <1>12


(* vstr_del() *)
LEMMA DelStrInv ==
  ASSUME IInv, NEW pos \in 1 .. Len(str), NEW m \in 1 .. Len(str) - pos + 1, DelStr(pos, m)
  PROVE  IInv' /\ (~AnyUpdate /\ Track => Track')
<1> DEFINE L == Len(str)
<1>1. Types /\ L \in Nat /\ pos \in Nat \ {0} /\ pos <= L /\ str \in Seq(ByteRec)
  BY DEF IInv, Types
<1>2. m \in Nat \ {0} /\ pos + m - 1 <= L
  BY <1>1
<1>3. str' = Cut(str, pos, m) /\ sects' = UpdateDels(pos, m)
      /\ updates' = updates /\ Follow
  BY DEF DelStr, Cut
<1>4. /\ str' \in Seq(ByteRec) /\ Len(str') = L - m
      /\ \A k \in 1 .. L - m : str'[k] = IF k < pos THEN str[k] ELSE str[k + m]
  <2>1. /\ Cut(str, pos, m) \in Seq(ByteRec)
        /\ Len(Cut(str, pos, m)) = Len(str) - m
        /\ \A k \in 1 .. Len(str) - m :
             Cut(str, pos, m)[k] = IF k < pos THEN str[k] ELSE str[k + m]
    <3>1. m \in Nat
      BY <1>2
    <3> QED BY <1>1, <1>2, <3>1, CutIs
  <2> QED BY ONLY <1>3, <2>1
<1>5. /\ sects' \in [Sects -> SRec]
      /\ \A i \in Sects :
           /\ SameArray(sects[i], sects'[i])
           /\ i \in Range(updates) /\ PlainDel(pos, m) => \A n \in 1 .. sects[i].num :
                sects'[i].ptr[n] = UpdateDelOne(sects[i].ptr[n], pos, m).e
  BY <1>1, <1>2, <1>3, DelsAre
<1>6. \A i \in Sects : SOK(sects'[i]) /\ sects'[i].sz >= sects[i].sz
  BY <1>1, <1>5 DEF SameArray, Types, SOK, SRec
<1>7. iter' \in IterRec \cup {NoIter} /\ (iter'.on => IterOK(iter', sects'[iter'.i]))
  <2>a. iter.on => iter \in IterRec
    BY <1>1 DEF Types, NoIter
  <2>1. iter.on => iter.i \in Sects
    BY <2>a DEF IterRec
  <2>2. iter.on => sects'[iter.i].sz >= sects[iter.i].sz
    BY <1>6, <2>1
  <2> QED BY <1>1, <1>3, <1>5, <1>6, <2>2, IterFollows DEF IInv
<1>8. IInv'
  BY <1>1, <1>3, <1>4, <1>5, <1>6, <1>7 DEF IInv, Types
<1>9. ASSUME ~AnyUpdate, Track PROVE Track'
  <2>1. PlainDel(pos, m)
    BY <1>9 DEF DelStr
  <2>2. ASSUME NEW i \in Sects, i \in Range(updates), NEW n \in 1 .. sects[i].num
        PROVE  /\ \A k \in 1 .. L - m : <<i, n>> \in str'[k].in <=> In(sects'[i].ptr[n], k)
               /\ Fits(sects'[i].ptr[n], L - m)
    <3> DEFINE e == sects[i].ptr[n]
               d == UpdateDelOne(e, pos, m).e
    <3>1. sects'[i].ptr[n] = d /\ e \in SectOf
      BY <1>1, <1>5, <2>1, <2>2, EntryType DEF Types
    <3>2. \A k \in 1 .. L : <<i, n>> \in str[k].in <=> In(e, k)
      BY <1>9, <2>2 DEF Track
    <3>3. Fits(e, L)
      BY <1>9, <2>2 DEF Track
    <3> HIDE DEF e, L
    <3>4. ASSUME NEW k \in 1 .. L - m PROVE <<i, n>> \in str'[k].in <=> In(d, k)
      <4> DEFINE j == IF k < pos THEN k ELSE k + m
      <4>1. In(d, k) <=> In(e, j)
        BY <1>1, <1>2, <3>1, <3>3, DelOneTracks
      <4> HIDE DEF d
      <4>2. j \in 1 .. L
        BY <1>1, <1>2
      <4>3. str'[k] = str[j]
        BY <1>4
      <4> HIDE DEF j
      <4> QED BY <3>2, <4>1, <4>2, <4>3
    <3>5. Fits(d, L - m)
      BY <1>1, <1>2, <3>1, <3>3, DelOneFits
    <3> HIDE DEF d
    <3> QED BY <3>1, <3>4, <3>5
  <2>3. \A i \in Sects : sects'[i].num = sects[i].num
    BY <1>5 DEF SameArray
  <2> QED BY <1>3, <1>4, <2>2, <2>3 DEF Track
<1> QED BY <1>8, <1>9

(* Every other change of sections: those of one Vstr_sects are replaced.   *)
LEMMA MarkedIs ==
  ASSUME Types, NEW i \in Sects, NEW s, NEW on \in BOOLEAN, SOK(s)
  PROVE  /\ Marked(i, s, on) \in Seq(ByteRec) /\ Len(Marked(i, s, on)) = Len(str)
         /\ \A k \in 1 .. Len(str) :
              /\ \A j \in Sects, n \in Nat : j # i =>
                   (<<j, n>> \in Marked(i, s, on)[k].in <=> <<j, n>> \in str[k].in)
              /\ on => \A n \in 1 .. s.num :
                   <<i, n>> \in Marked(i, s, on)[k].in <=> In(s.ptr[n], k)
<1> DEFINE own(k) == IF on THEN {<<i, n>> : n \in {m \in 1 .. s.num : Covers(s, m, k)}} ELSE {}
           new(k) == {x \in str[k].in : x[1] # i} \cup own(k)
           t == Marked(i, s, on)
<1>1. Len(str) \in Nat /\ DOMAIN str = 1 .. Len(str) /\ \A k \in 1 .. Len(str) : str[k] \in ByteRec
  BY DEF Types
<1>2. s.num \in Nat
  BY DEF SOK, SRec
<1>3. t = [k \in 1 .. Len(str) |-> [str[k] EXCEPT !.in = new(k)]]
  BY <1>1 DEF Marked
<1>4. \A k \in 1 .. Len(str) : new(k) \in SUBSET (Sects \X Nat)
  <2> TAKE k \in 1 .. Len(str)
  <2>1. str[k].in \in SUBSET (Sects \X Nat)
    BY <1>1 DEF ByteRec
  <2>2. own(k) \in SUBSET (Sects \X Nat)
    BY <1>2
  <2> HIDE DEF own
  <2> QED BY <2>1, <2>2
<1> HIDE DEF new, t
<1>5. \A k \in 1 .. Len(str) : [str[k] EXCEPT !.in = new(k)] \in ByteRec
  <2> TAKE k \in 1 .. Len(str)
  <2>1. str[k] \in ByteRec /\ new(k) \in SUBSET (Sects \X Nat)
    BY <1>1, <1>4
  <2> QED BY <2>1 DEF ByteRec
<1>6. \A k \in 1 .. Len(str) : t[k].in = new(k)
  <2> TAKE k \in 1 .. Len(str)
  <2>1. str[k] \in ByteRec /\ t[k] = [str[k] EXCEPT !.in = new(k)]
    BY <1>1, <1>3
  <2> QED BY <2>1 DEF ByteRec
<1>7. t \in [1 .. Len(str) -> ByteRec]
  BY <1>3, <1>5
<1>8. t \in Seq(ByteRec) /\ Len(t) = Len(str)
  BY <1>1, <1>7
<1>9. ASSUME NEW k \in 1 .. Len(str), NEW j \in Sects, NEW n \in Nat, j # i
      PROVE  <<j, n>> \in t[k].in <=> <<j, n>> \in str[k].in
  <2>1. <<j, n>> \in new(k) <=> <<j, n>> \in str[k].in
    BY <1>9 DEF new
  <2> QED BY <1>6, <2>1
<1>10. ASSUME NEW k \in 1 .. Len(str), on, NEW n \in 1 .. s.num
       PROVE  <<i, n>> \in t[k].in <=> In(s.ptr[n], k)
  <2>1. <<i, n>> \in own(k) <=> Covers(s, n, k)
    BY <1>10
  <2>2. <<i, n>>[1] = i
    OBVIOUS
  <2>3. <<i, n>> \in new(k) <=> Covers(s, n, k)
    BY <2>1, <2>2 DEF new
  <2> QED BY <1>6, <2>3 DEF Covers, In
<1> QED BY <1>8, <1>9, <1>10 DEF t

(* A call changes the sections of one Vstr_sects: the bytes are in the     *)
(* sections they should be in when the new ones are within the string.     *)
LEMMA ChangesTrack ==
  ASSUME Types, NEW i \in Sects, NEW s, SOK(s), Changes(i, s), updates' = updates
  PROVE  /\ str' \in Seq(ByteRec) /\ Len(str') = Len(str)
         /\ sects' \in [Sects -> SRec] /\ sects'[i] = s
         /\ \A j \in Sects : j # i => sects'[j] = sects[j]
         /\ \A j \in Sects : SOK(sects'[j])
         /\ Track /\ (i \in Range(updates) => \A n \in 1 .. s.num : Fits(s.ptr[n], Len(str)))
              => Track'
<1> DEFINE on == i \in Range(updates)
<1>1. sects' = [sects EXCEPT ![i] = s] /\ str' = Marked(i, s, on)
  BY DEF Changes
<1>2. on \in BOOLEAN /\ s \in SRec
  BY DEF SOK
<1>3. /\ sects' \in [Sects -> SRec] /\ sects'[i] = s
      /\ \A j \in Sects : j # i => sects'[j] = sects[j]
  BY <1>1, <1>2 DEF Types
<1>4. \A j \in Sects : SOK(sects'[j])
  BY <1>3 DEF Types
<1>5. /\ str' \in Seq(ByteRec) /\ Len(str') = Len(str)
      /\ \A k \in 1 .. Len(str) :
           /\ \A j \in Sects, n \in Nat : j # i =>
                (<<j, n>> \in str'[k].in <=> <<j, n>> \in str[k].in)
           /\ on => \A n \in 1 .. s.num : <<i, n>> \in str'[k].in <=> In(s.ptr[n], k)
  <2> HIDE DEF on
  <2> QED BY <1>1, <1>2, MarkedIs
<1>6. ASSUME Track, i \in Range(updates) => \A n \in 1 .. s.num : Fits(s.ptr[n], Len(str))
      PROVE  Track'
  <2>1. ASSUME NEW j \in Sects, j \in Range(updates), NEW n \in 1 .. sects'[j].num
        PROVE  /\ \A k \in 1 .. Len(str) : <<j, n>> \in str'[k].in <=> In(sects'[j].ptr[n], k)
               /\ Fits(sects'[j].ptr[n], Len(str))
    <3>1. CASE j = i
      <4>1. on /\ n \in 1 .. s.num /\ sects'[j] = s
        BY <1>3, <2>1, <3>1
      <4>2. Fits(s.ptr[n], Len(str))
        BY <1>6, <4>1
      <4>3. \A k \in 1 .. Len(str) : <<i, n>> \in str'[k].in <=> In(s.ptr[n], k)
        BY <1>5, <4>1
      <4> QED BY <3>1, <4>1, <4>2, <4>3
    <3>2. CASE j # i
      <4>1. sects'[j] = sects[j] /\ n \in 1 .. sects[j].num
        BY <1>3, <2>1, <3>2
      <4>2. sects[j].num \in Nat
        BY DEF Types, SOK, SRec
      <4>3. n \in Nat
        BY <4>1, <4>2
      <4>4. \A k \in 1 .. Len(str) : <<j, n>> \in str[k].in <=> In(sects[j].ptr[n], k)
        BY <1>6, <2>1, <4>1 DEF Track
      <4>5. Fits(sects[j].ptr[n], Len(str))
        BY <1>6, <2>1, <4>1 DEF Track
      <4>6. \A k \in 1 .. Len(str) : <<j, n>> \in str'[k].in <=> <<j, n>> \in str[k].in
        BY <1>5, <3>2, <4>3
      <4> QED BY <4>1, <4>4, <4>5, <4>6
    <3> QED BY <3>1, <3>2
  <2> QED BY <1>5, <2>1 DEF Track
<1> QED BY <1>3, <1>4, <1>5, <1>6


-----------------------------------------------------------------------------
(* Splitting *)

(* The loop of vstr_split_buf() stays inside of the string, of which it    *)
(* has pos .. pos + len - 1 still to do; there are as many sections as it  *)
(* has counted wherever it could take them off again; and the sections are *)
(* those it began with, or new ones that are inside of the string.         *)
LoopRec(i) ==
  [i : {i}, s : SRec, pos : Nat \ {0}, len : Nat, at : Nat, added : Nat, limit : Nat,
   flags : SUBSET Flags, mem : BOOLEAN, done : BOOLEAN, ret : Nat]

LoopOK(i, t) ==
  /\ t \in LoopRec(i)
  /\ SOK(t.s)
  /\ t.pos + t.len = Len(str) + 1
  /\ ~t.done /\ (CanAdd[i] \/ t.s.bad) => t.added <= t.s.num
  /\ \A n \in 1 .. t.s.num :
       \/ Fits(t.s.ptr[n], Len(str))
       \/ n <= sects[i].num /\ t.s.ptr[n] = sects[i].ptr[n]

(* The types of its fields. *)
LEMMA LoopTypes ==
  ASSUME NEW i, NEW t, LoopOK(i, t)
  PROVE  /\ t.i = i /\ t.s \in SRec /\ t.pos \in Nat \ {0} /\ t.len \in Nat /\ t.at \in Nat
         /\ t.added \in Nat /\ t.limit \in Nat /\ t.flags \in SUBSET Flags
         /\ t.mem \in BOOLEAN /\ t.done \in BOOLEAN /\ t.ret \in Nat
         /\ SOK(t.s) /\ t.s.num \in Nat /\ t.s.bad \in BOOLEAN
         /\ t.pos + t.len = Len(str) + 1
BY DEF LoopOK, LoopRec, SRec

(* The loop may stop anywhere. *)
LEMMA StopOK ==
  ASSUME NEW i, NEW t, NEW ret \in Nat, LoopOK(i, t)
  PROVE  LoopOK(i, Stop(t, ret)) /\ Stop(t, ret).done
<1> DEFINE u == Stop(t, ret)
<1>1. t \in LoopRec(i)
  BY DEF LoopOK
<1>2. /\ u \in LoopRec(i) /\ u.done = TRUE /\ u.s = t.s /\ u.pos = t.pos /\ u.len = t.len
  BY <1>1 DEF LoopRec, Stop
<1> HIDE DEF u
<1>3. LoopOK(i, u)
  BY <1>2 DEF LoopOK
<1> QED BY <1>2, <1>3 DEF u

(* A turn leaves its arguments alone. *)
SameArgs(t, u) ==
  u.pos = t.pos /\ u.len = t.len /\ u.at = t.at /\ u.flags = t.flags /\ u.limit = t.limit

Sound(i, s) ==
  \A n \in 1 .. s.num : \/ Fits(s.ptr[n], Len(str))
                        \/ n <= sects[i].num /\ s.ptr[n] = sects[i].ptr[n]

(* A section within the string may be added. *)
LEMMA SplitAddOK ==
  ASSUME NEW i \in Sects, NEW t, NEW pos \in Nat, NEW len \in Nat, LoopOK(i, t),
         Len(str) \in Nat, pos + len <= Len(str) + 1
  PROVE  LoopOK(i, SplitAdd(t, pos, len)) /\ SameArgs(t, SplitAdd(t, pos, len))
<1> DEFINE r == AddSect(i, t.s, pos, len, t.mem)
           u == SplitAdd(t, pos, len)
           s == r.s
<1>1. /\ t.i = i /\ t.s \in SRec /\ t.added \in Nat /\ t.mem \in BOOLEAN /\ t.done \in BOOLEAN
      /\ SOK(t.s) /\ t.s.num \in Nat /\ t.s.bad \in BOOLEAN /\ t.flags \in SUBSET Flags
      /\ t.pos + t.len = Len(str) + 1 /\ t \in LoopRec(i) /\ Sound(i, t.s)
  BY LoopTypes DEF LoopOK, Sound
<1>2. CASE t.done
  BY <1>2 DEF SplitAdd, SameArgs
<1>3. CASE ~t.done
  <2>1. u = Added(t, r)
    BY <1>1, <1>3 DEF SplitAdd
  <2>2. r.ok \in BOOLEAN /\ AddedTo(i, t.s, pos, len, s, r.ok)
    BY <1>1, AddSectOK
  <2> DEFINE ok == r.ok
  <2>3. ok \in BOOLEAN /\ ok = r.ok /\ s = r.s
    BY <2>2
  <2> HIDE DEF r, u, s, ok
  <2>4. SOK(s) /\ s \in SRec /\ s.num \in Nat /\ s.bad \in BOOLEAN
    BY <2>2 DEF AddedTo, SOK, SRec
  <2>5. /\ CanAdd[i] \in BOOLEAN
        /\ t.s.bad \/ CanAdd[i] => t.added <= t.s.num
    BY <1>3, SectsAssumption DEF LoopOK
  <2>6. CASE ok
    <3> DEFINE m == t.added + 1
    <3>1. u = [t EXCEPT !.s = s, !.added = m]
      BY <2>1, <2>3, <2>6 DEF Added
    <3>2. m \in Nat /\ m = t.added + 1
      BY <1>1
    <3> HIDE DEF m
    <3>3. /\ u \in LoopRec(i) /\ u.s = s /\ u.added = m /\ u.done = t.done
          /\ u.pos = t.pos /\ u.len = t.len /\ u.at = t.at /\ u.flags = t.flags
          /\ u.limit = t.limit
      BY <1>1, <2>4, <3>1, <3>2 DEF LoopRec
    <3>4. /\ s.num = t.s.num + 1 /\ s.bad = t.s.bad
          /\ s.ptr[t.s.num + 1] = [pos |-> pos, len |-> len]
          /\ \A k \in 1 .. t.s.num : s.ptr[k] = t.s.ptr[k]
      BY <2>2, <2>3, <2>6 DEF AddedTo
    <3>5. Sound(i, s)
      <4>1. ASSUME NEW n \in 1 .. s.num
            PROVE  \/ Fits(s.ptr[n], Len(str))
                   \/ n <= sects[i].num /\ s.ptr[n] = sects[i].ptr[n]
        <5>1. CASE n = t.s.num + 1
          <6>1. s.ptr[n].pos = pos /\ s.ptr[n].len = len
            BY <3>4, <5>1
          <6> QED BY <6>1 DEF Fits, Live
        <5>2. CASE n # t.s.num + 1
          <6>1. n \in 1 .. t.s.num
            BY <1>1, <3>4, <5>2
          <6> QED BY <1>1, <3>4, <6>1 DEF Sound
        <5> QED BY <5>1, <5>2
      <4> QED BY <4>1 DEF Sound
    <3>6. CanAdd[i] \/ s.bad => m <= s.num
      BY <1>1, <2>5, <3>2, <3>4
    <3> QED BY <1>1, <2>4, <3>3, <3>5, <3>6 DEF LoopOK, Sound, SameArgs, u
  <2>7. CASE ~ok
    <3>1. /\ s.num = t.s.num
          /\ \A k \in 1 .. t.s.num : s.ptr[k] = t.s.ptr[k]
          /\ CanAdd[i] => s.bad
          /\ ~CanAdd[i] => s = t.s
      BY <2>2, <2>3, <2>7 DEF AddedTo
    <3>2. CASE s.bad
      <4> DEFINE m == s.num - t.added
                 v == [s EXCEPT !.num = m]
                 w == [t EXCEPT !.s = v]
      <4>1. u = Stop(w, 0)
        BY <2>1, <2>3, <2>7, <3>2 DEF Added
      <4>2. t.added <= s.num
        BY <2>5, <3>1, <3>2
      <4>3. m \in 0 .. s.sz /\ m <= s.num
        BY <1>1, <2>4, <4>2 DEF SOK, SRec
      <4> HIDE DEF m
      <4>4. SOK(v) /\ v.num = m /\ v.ptr = s.ptr
        BY <2>4, <4>3, SNum
      <4> HIDE DEF v
      <4>5. /\ w \in LoopRec(i) /\ w.s = v /\ w.pos = t.pos /\ w.len = t.len
            /\ w.at = t.at /\ w.flags = t.flags /\ w.limit = t.limit
        <5>1. v \in SRec
          BY <4>4 DEF SOK
        <5> QED BY <1>1, <5>1 DEF LoopRec
      <4> HIDE DEF w
      <4>6. /\ u \in LoopRec(i) /\ u.s = v /\ u.pos = t.pos /\ u.len = t.len /\ u.done = TRUE
            /\ u.at = t.at /\ u.flags = t.flags /\ u.limit = t.limit
        BY <4>1, <4>5 DEF LoopRec, Stop
      <4>7. Sound(i, v)
        <5>1. \A n \in 1 .. v.num : n \in 1 .. t.s.num /\ v.ptr[n] = t.s.ptr[n]
          BY <1>1, <2>4, <3>1, <4>3, <4>4
        <5> QED BY <1>1, <5>1 DEF Sound
      <4> QED BY <1>1, <4>4, <4>6, <4>7 DEF LoopOK, Sound, SameArgs, u
    <3>3. CASE ~s.bad /\ "NO_RET" \in t.flags
      <4>1. u = Stop(t, 1)
        BY <2>1, <2>3, <2>7, <3>3 DEF Added
      <4>2. LoopOK(i, Stop(t, 1))
        BY StopOK
      <4>3. SameArgs(t, Stop(t, 1))
        BY <1>1 DEF SameArgs, Stop, LoopRec
      <4> QED BY <4>1, <4>2, <4>3 DEF u
    <3>4. CASE ~s.bad /\ "NO_RET" \notin t.flags
      <4> DEFINE m == t.added + 1
      <4>1. u = [t EXCEPT !.added = m]
        BY <2>1, <2>3, <2>7, <3>4 DEF Added
      <4>2. m \in Nat
        BY <1>1
      <4> HIDE DEF m
      <4>3. /\ u \in LoopRec(i) /\ u.s = t.s /\ u.pos = t.pos /\ u.len = t.len
            /\ u.at = t.at /\ u.flags = t.flags /\ u.limit = t.limit
        BY <1>1, <4>1, <4>2 DEF LoopRec
      <4>4. ~(CanAdd[i] \/ u.s.bad)
        BY <2>5, <3>1, <3>4, <4>3
      <4> QED BY <1>1, <4>3, <4>4 DEF LoopOK, Sound, SameArgs, u
    <3> QED BY <2>4, <3>2, <3>3, <3>4
  <2> QED BY <2>3, <2>6, <2>7
<1> QED BY <1>1, <1>2, <1>3

(* Going on behind n bytes. *)
LEMMA SkipOK ==
  ASSUME NEW i \in Sects, NEW t, NEW n \in Nat, LoopOK(i, t), Len(str) \in Nat,
         t.done \/ n <= t.len
  PROVE  /\ LoopOK(i, Skip(t, n))
         /\ Skip(t, n).done = t.done /\ Skip(t, n).flags = t.flags
         /\ ~t.done => Skip(t, n).len = t.len - n
<1>1. /\ t.pos \in Nat \ {0} /\ t.len \in Nat /\ t.pos + t.len = Len(str) + 1
      /\ t \in LoopRec(i) /\ t.done \in BOOLEAN
  BY LoopTypes DEF LoopOK
<1>2. CASE t.done
  BY <1>1, <1>2 DEF Skip
<1>3. CASE ~t.done
  <2> DEFINE p == t.pos + n
             l == t.len - n
             u == [t EXCEPT !.pos = p, !.len = l]
  <2>1. p \in Nat \ {0} /\ l \in Nat /\ p + l = Len(str) + 1 /\ l = t.len - n
    BY <1>1, <1>3
  <2>2. Skip(t, n) = u
    BY <1>3 DEF Skip
  <2> HIDE DEF p, l
  <2>3. /\ u \in LoopRec(i) /\ u.s = t.s /\ u.pos = p /\ u.len = l /\ u.done = t.done
        /\ u.added = t.added /\ u.flags = t.flags
    BY <1>1, <2>1 DEF LoopRec
  <2> HIDE DEF u
  <2>4. LoopOK(i, u)
    BY <2>1, <2>3 DEF LoopOK
  <2> QED BY <2>1, <2>2, <2>3, <2>4
<1> QED BY <1>1, <1>2, <1>3


(* One null section. *)
LEMMA HdlNullOneOK ==
  ASSUME NEW i \in Sects, NEW t, NEW flag, LoopOK(i, t), Len(str) \in Nat,
         t.done \/ 1 <= t.len
  PROVE  /\ LoopOK(i, HdlNullOne(t, flag))
         /\ HdlNullOne(t, flag).done \/ HdlNullOne(t, flag).len = t.len - 1
<1> DEFINE u == IF flag \in t.flags THEN SplitAdd(t, t.pos, 0) ELSE t
<1>1. /\ t.pos \in Nat /\ t.len \in Nat /\ t.pos + 0 <= Len(str) + 1 /\ 0 \in Nat
      /\ t.done \in BOOLEAN
  BY LoopTypes
<1>2. LoopOK(i, SplitAdd(t, t.pos, 0)) /\ SameArgs(t, SplitAdd(t, t.pos, 0))
  BY <1>1, SplitAddOK
<1>3. LoopOK(i, u) /\ u.len = t.len /\ (t.done => u.done)
  BY <1>2 DEF SameArgs, SplitAdd
<1>4. HdlNullOne(t, flag) = Skip(u, 1)
  BY DEF HdlNullOne
<1> HIDE DEF u
<1>5. u.done \in BOOLEAN /\ (u.done \/ 1 <= u.len)
  BY <1>3, LoopTypes
<1>6. /\ LoopOK(i, Skip(u, 1)) /\ Skip(u, 1).done = u.done
      /\ ~u.done => Skip(u, 1).len = u.len - 1
  BY <1>3, <1>5, SkipOK
<1> QED BY <1>3, <1>4, <1>5, <1>6

(* Several. *)
LEMMA HdlNullOK ==
  ASSUME NEW i \in Sects, NEW t, NEW flag, NEW count \in Nat, LoopOK(i, t), Len(str) \in Nat,
         ~t.done, count <= t.len, t.limit = 0 \/ t.added < t.limit - Remains(t)
  PROVE  LoopOK(i, HdlNull(t, flag, count))
<1> DEFINE N == Allowed(t, count)
           Q(f) == f = [k \in 0 .. N |-> IF k = 0 THEN t ELSE HdlNullOne(f[k - 1], flag)]
           U == {u \in LoopRec(i) : LoopOK(i, u)}
           S == [k \in 0 .. N |-> {u \in U : u.done \/ u.len = t.len - k}]
           g == [x \in (1 .. N) \X U |-> HdlNullOne(x[2], flag)]
           h == CHOOSE f : Q(f)
<1>1. /\ t.len \in Nat /\ t.added \in Nat /\ t.limit \in Nat /\ Remains(t) \in {0, 1}
      /\ t \in LoopRec(i)
  BY LoopTypes DEF Remains, LoopOK
<1>2. N \in Nat /\ N <= count
  BY <1>1 DEF Allowed
<1>3. HdlNull(t, flag, count) = h[N]
  BY DEF HdlNull
<1> HIDE DEF N
<1>4. t \in S[0]
  BY <1>1, <1>2
<1>5. ASSUME NEW k \in 1 .. N, NEW u \in S[k - 1]
      PROVE  HdlNullOne(u, flag) \in S[k] /\ u \in U /\ g[<<k, u>>] = HdlNullOne(u, flag)
  <2>1. k \in 0 .. N /\ k - 1 \in 0 .. N
    BY <1>2
  <2>2. LoopOK(i, u) /\ u \in U /\ (u.done \/ u.len = t.len - (k - 1))
    BY <1>5, <2>1
  <2>3. u.done \in BOOLEAN /\ u.len \in Nat
    BY <2>2, LoopTypes
  <2>4. u.done \/ 1 <= u.len
    BY <1>1, <1>2, <2>2
  <2> DEFINE v == HdlNullOne(u, flag)
  <2>5. LoopOK(i, v) /\ (v.done \/ v.len = u.len - 1)
    BY <2>2, <2>4, HdlNullOneOK
  <2>6. u.done => v.done
    <3>1. ASSUME u.done PROVE v.done
      <4>1. v = u
        BY <2>3, <3>1 DEF HdlNullOne, Skip, SplitAdd
      <4> QED BY <3>1, <4>1
    <3> QED BY <3>1
  <2>7. g[<<k, u>>] = v
    BY <2>2
  <2> HIDE DEF v
  <2>8. v.done \/ v.len = t.len - k
    BY <1>1, <1>2, <2>2, <2>3, <2>5, <2>6
  <2>9. v \in S[k]
    BY <2>1, <2>5, <2>8 DEF LoopOK
  <2> QED BY <2>2, <2>7, <2>9 DEF v
<1> HIDE DEF S, g, U
<1>6. PICK f : IsRec(f, N, t, g)
  BY ONLY <1>2, RecExists
<1>7. f = [k \in 0 .. N |-> IF k = 0 THEN t ELSE g[<<k, f[k - 1]>>]]
  BY ONLY <1>6 DEF IsRec
<1>8. \A k \in 0 .. N : f[k] \in S[k]
  <2>1. f[0] \in S[0]
    BY <1>2, <1>4, <1>7
  <2>2. ASSUME NEW k \in 1 .. N, f[k - 1] \in S[k - 1] PROVE f[k] \in S[k]
    <3>1. k \in 0 .. N /\ k # 0
      BY <1>2
    <3>2. f[k] = g[<<k, f[k - 1]>>]
      BY <1>7, <3>1
    <3> QED BY <1>5, <2>2, <3>2
  <2> QED BY <1>2, <2>1, <2>2, RecKeeps
<1>9. Q(f)
  <2>1. \A k \in 0 .. N : f[k] = IF k = 0 THEN t ELSE HdlNullOne(f[k - 1], flag)
    <3> TAKE k \in 0 .. N
    <3>1. f[k] = IF k = 0 THEN t ELSE g[<<k, f[k - 1]>>]
      BY <1>7
    <3>2. k # 0 => k \in 1 .. N /\ k - 1 \in 0 .. N
      BY <1>2
    <3>3. k # 0 => f[k - 1] \in S[k - 1]
      BY <1>8, <3>2
    <3> QED BY <1>5, <3>1, <3>2, <3>3
  <2>2. f = [k \in 0 .. N |-> f[k]]
    BY <1>7
  <2> QED BY <2>1, <2>2
<1>10. Q(h)
  <2> HIDE DEF Q
  <2> QED BY <1>9
<1> HIDE DEF h
<1>11. h[0] = t /\ \A k \in 1 .. N : h[k] = HdlNullOne(h[k - 1], flag)
  BY <1>2, <1>10
<1>12. \A k \in 0 .. N : h[k] \in S[k]
  <2>1. h[0] \in S[0]
    BY <1>4, <1>11
  <2>2. ASSUME NEW k \in 1 .. N, h[k - 1] \in S[k - 1] PROVE h[k] \in S[k]
    BY <1>5, <1>11, <2>2
  <2> QED BY <1>2, <2>1, <2>2, RecKeeps
<1>13. h[N] \in S[N] /\ N \in 0 .. N
  BY <1>2, <1>12
<1>14. LoopOK(i, h[N])
  BY <1>13 DEF S, U
<1> QED BY <1>3, <1>14

(* The end of the loop. *)
LEMMA FinishedOK ==
  ASSUME NEW i \in Sects, NEW t, LoopOK(i, t)
  PROVE  LoopOK(i, Finished(t))
<1>1. t.added \in Nat /\ t.done \in BOOLEAN
  BY LoopTypes
<1>2. LoopOK(i, Stop(t, t.added))
  BY <1>1, StopOK
<1> QED BY <1>2 DEF Finished

(* Null sections up to the end. *)
LEMMA HdlNullEndOK ==
  ASSUME NEW i \in Sects, NEW t, NEW count \in Nat, LoopOK(i, t), Len(str) \in Nat,
         ~t.done, count <= t.len, t.limit = 0 \/ t.added < t.limit - Remains(t)
  PROVE  LoopOK(i, HdlNullEnd(t, count))
<1> DEFINE u == IF "END_NULL" \in t.flags THEN HdlNull(t, "END_NULL", count) ELSE t
<1>1. LoopOK(i, u)
  BY HdlNullOK
<1>2. HdlNullEnd(t, count) = Finished(NullEndRest(u))
  BY DEF HdlNullEnd
<1> HIDE DEF u
<1>3. u.pos \in Nat /\ u.len \in Nat /\ u.pos + u.len <= Len(str) + 1
  BY <1>1, LoopTypes
<1>4. LoopOK(i, SplitAdd(u, u.pos, u.len))
  BY <1>1, <1>3, SplitAddOK
<1>5. LoopOK(i, NullEndRest(u))
  BY <1>1, <1>4 DEF NullEndRest
<1> QED BY <1>2, <1>5, FinishedOK

(* A section up to the delimiter that was found. *)
LEMMA HdlDefOK ==
  ASSUME NEW i \in Sects, NEW t, LoopOK(i, t), Len(str) \in Nat,
         t.at \in t.pos .. Len(str)
  PROVE  LoopOK(i, HdlDef(t))
<1> DEFINE n == t.at - t.pos
           u == SplitAdd(t, t.pos, n)
<1>1. t.pos \in Nat \ {0} /\ t.len \in Nat /\ t.pos + t.len = Len(str) + 1
  BY LoopTypes
<1>2. n \in Nat /\ n + 1 \in Nat /\ n + 1 <= t.len /\ t.pos + n <= Len(str) + 1
  BY <1>1
<1>3. HdlDef(t) = Skip(u, n + 1)
  BY DEF HdlDef
<1> HIDE DEF n
<1>4. LoopOK(i, u) /\ SameArgs(t, u)
  BY <1>1, <1>2, SplitAddOK
<1> HIDE DEF u
<1>5. n + 1 <= u.len
  BY <1>2, <1>4 DEF SameArgs
<1> QED BY <1>2, <1>3, <1>4, <1>5, SkipOK

(* The rest. *)
LEMMA HdlEndOK ==
  ASSUME NEW i \in Sects, NEW t, LoopOK(i, t), Len(str) \in Nat
  PROVE  LoopOK(i, HdlEnd(t))
<1> DEFINE more == ~t.done /\ t.len > 0 /\ ("REMAIN" \in t.flags \/ t.at = 0)
           null == ~t.done /\ t.len = 0 /\ "POST_NULL" \in t.flags
                     /\ (t.limit = 0 \/ t.added < t.limit)
           u == CASE t.done -> t
                  [] more -> SplitAdd(t, t.pos, t.len)
                  [] null -> SplitAdd(t, t.pos, 0)
                  [] OTHER -> t
<1>1. t.pos \in Nat /\ t.len \in Nat /\ t.pos + t.len <= Len(str) + 1 /\ t.done \in BOOLEAN
      /\ 0 \in Nat /\ t.pos + 0 <= Len(str) + 1
  BY LoopTypes
<1>2. LoopOK(i, SplitAdd(t, t.pos, t.len))
  BY <1>1, SplitAddOK
<1>3. LoopOK(i, SplitAdd(t, t.pos, 0))
  BY <1>1, SplitAddOK
<1>4. HdlEnd(t) = Finished(u)
  BY DEF HdlEnd
<1>5. more => ~t.done /\ ~null
  BY <1>1
<1>6. null => ~t.done
  BY <1>1
<1> HIDE DEF more, null
<1>7. u \in {t, SplitAdd(t, t.pos, t.len), SplitAdd(t, t.pos, 0)}
  BY <1>5, <1>6
<1> HIDE DEF u
<1>8. LoopOK(i, u)
  BY <1>2, <1>3, <1>7
<1> QED BY <1>4, <1>8, FinishedOK


(* What is searched for is found inside of the string. *)
LEMMA NullCountIs ==
  ASSUME Len(str) \in Nat, NEW pos \in 1 .. Len(str)
  PROVE  NullCount(pos) \in 0 .. Len(str) - pos + 1
<1> DEFINE L == Len(str)
           Ok(n) == /\ \A k \in pos .. pos + n - 1 : str[k].c = ":"
                    /\ pos + n <= L => str[pos + n].c # ":"
           T == {n \in 0 .. L - pos + 1 : pos + n > L \/ str[pos + n].c # ":"}
<1>1. L \in Nat /\ pos \in Nat /\ pos <= L
  OBVIOUS
<1> HIDE DEF L
<1>2. T \in SUBSET Nat /\ T # {}
  <2>1. L - pos + 1 \in T
    BY <1>1
  <2> QED BY <2>1
<1>3. PICK m \in T : \A n \in T : m <= n
  <2> HIDE DEF T
  <2> QED BY <1>2, LeastNat
<1>4. m \in 0 .. L - pos + 1 /\ Ok(m)
  <2>1. m \in 0 .. L - pos + 1 /\ (pos + m <= L => str[pos + m].c # ":")
    BY <1>1, <1>3
  <2>2. ASSUME NEW k \in pos .. pos + m - 1 PROVE str[k].c = ":"
    <3>1. k - pos \in 0 .. L - pos + 1 /\ k - pos < m /\ pos + (k - pos) = k /\ k <= L
      BY <1>1, <2>1
    <3>2. k - pos \notin T
      BY <1>3, <2>1, <3>1
    <3> QED BY <1>1, <3>1, <3>2
  <2> QED BY <2>1, <2>2
<1>5. NullCount(pos) = CHOOSE n \in 0 .. L - pos + 1 : Ok(n)
  BY DEF NullCount, L
<1> HIDE DEF Ok
<1>6. NullCount(pos) \in 0 .. L - pos + 1
  BY <1>4, <1>5
<1> QED BY <1>6 DEF L

(* The search finds nothing, or a place within the string. *)
LEMMA SrchFwdIs ==
  ASSUME Len(str) \in Nat, NEW pos \in Nat \ {0}
  PROVE  SrchFwd(pos) = 0 \/ SrchFwd(pos) \in pos .. Len(str)
<1>1. Delims(pos) \in SUBSET (pos .. Len(str)) /\ Delims(pos) \in SUBSET Nat
  BY DEF Delims
<1>2. CASE Delims(pos) = {}
  BY <1>2 DEF SrchFwd
<1>3. CASE Delims(pos) # {}
  <2>1. \E k \in Delims(pos) : \A j \in Delims(pos) : k <= j
    BY <1>1, <1>3, LeastNat
  <2>2. SrchFwd(pos) \in Delims(pos)
    BY <1>3, <2>1 DEF SrchFwd
  <2> QED BY <1>1, <2>2
<1> QED BY <1>2, <1>3

(* Where the delimiter was found is remembered. *)
LEMMA AtOK ==
  ASSUME NEW i \in Sects, NEW t, NEW at \in Nat, LoopOK(i, t)
  PROVE  LET u == [t EXCEPT !.at = at]
         IN  /\ LoopOK(i, u) /\ u.at = at /\ u.pos = t.pos /\ u.len = t.len
             /\ u.added = t.added /\ u.limit = t.limit /\ u.flags = t.flags
             /\ u.done = t.done
<1> DEFINE u == [t EXCEPT !.at = at]
<1>1. t \in LoopRec(i)
  BY DEF LoopOK
<1>2. /\ u \in LoopRec(i) /\ u.at = at /\ u.pos = t.pos /\ u.len = t.len /\ u.s = t.s
      /\ u.added = t.added /\ u.limit = t.limit /\ u.flags = t.flags /\ u.done = t.done
  BY <1>1 DEF LoopRec
<1> HIDE DEF u
<1>3. LoopOK(i, u)
  BY <1>2 DEF LoopOK
<1> QED BY <1>2, <1>3 DEF u

(* A delimiter is found. *)
LEMMA SplitFoundOK ==
  ASSUME NEW i \in Sects, NEW t, LoopOK(i, t), Len(str) \in Nat, ~t.done,
         t.at \in t.pos .. Len(str), t.limit = 0 \/ t.added < t.limit - Remains(t)
  PROVE  LoopOK(i, SplitFound(t))
<1> DEFINE n == NullCount(t.pos)
<1>1. /\ t.pos \in Nat \ {0} /\ t.len \in Nat /\ t.pos + t.len = Len(str) + 1
      /\ t.at \in Nat \ {0}
  BY LoopTypes
<1>2. n \in Nat /\ n <= t.len
  <2>1. t.pos \in 1 .. Len(str)
    BY <1>1
  <2>2. n \in 0 .. Len(str) - t.pos + 1
    BY <2>1, NullCountIs
  <2> HIDE DEF n
  <2> QED BY <1>1, <2>2
<1>3. t.at = 1 => NullCount(1) = n
  <2>1. t.at = 1 => t.pos = 1
    BY <1>1
  <2> QED BY <2>1
<1>4. LoopOK(i, HdlNullEnd(t, n)) /\ LoopOK(i, Stop(t, 0)) /\ LoopOK(i, HdlDef(t))
  <2> HIDE DEF n
  <2> QED BY <1>2, HdlNullEndOK, StopOK, HdlDefOK
<1>5. LoopOK(i, HdlNull(t, "BEG_NULL", n)) /\ LoopOK(i, HdlNull(t, "MID_NULL", n))
  <2> HIDE DEF n
  <2> QED BY <1>2, HdlNullOK
<1>6. CASE t.at = 1
  <2>1. CASE n = t.len
    <3>1. SplitFound(t) = IF "BEG_NULL" \in t.flags THEN HdlNullEnd(t, NullCount(1))
                                                    ELSE Stop(t, 0)
      BY <1>1, <1>3, <1>6, <2>1 DEF SplitFound
    <3> QED BY <1>3, <1>4, <1>6, <3>1
  <2>2. CASE n # t.len
    <3>1. SplitFound(t) = HdlNull(t, "BEG_NULL", NullCount(1))
      BY <1>1, <1>2, <1>3, <1>6, <2>2 DEF SplitFound
    <3> QED BY <1>3, <1>5, <1>6, <3>1
  <2> QED BY <2>1, <2>2
<1>7. CASE t.at # 1 /\ t.at = t.pos
  <2>1. CASE n = t.len
    <3>1. SplitFound(t) = HdlNullEnd(t, n)
      BY <1>1, <1>2, <1>7, <2>1 DEF SplitFound
    <3> QED BY <1>4, <3>1
  <2>2. CASE n # t.len
    <3>1. SplitFound(t) = HdlNull(t, "MID_NULL", n)
      BY <1>1, <1>2, <1>7, <2>2 DEF SplitFound
    <3> QED BY <1>5, <3>1
  <2> QED BY <2>1, <2>2
<1>8. CASE t.at # 1 /\ t.at # t.pos
  <2>1. SplitFound(t) = HdlDef(t)
    BY <1>1, <1>8 DEF SplitFound
  <2> QED BY <1>4, <2>1
<1> QED BY <1>6, <1>7, <1>8

(* One turn of the loop of vstr_split_buf(). *)
LEMMA SplitLoopOK ==
  ASSUME NEW i \in Sects, NEW t, LoopOK(i, t), Len(str) \in Nat
  PROVE  LoopOK(i, SplitLoop(t))
<1> DEFINE on == t.len > 0 /\ (t.limit = 0 \/ t.added < t.limit - Remains(t))
           at == SrchFwd(t.pos)
           u == [t EXCEPT !.at = at]
<1>1. t.done \in BOOLEAN /\ t.pos \in Nat \ {0}
  BY LoopTypes
<1>2. at = 0 \/ at \in t.pos .. Len(str)
  BY <1>1, SrchFwdIs
<1>3. at \in Nat
  BY <1>1, <1>2
<1>4. /\ LoopOK(i, u) /\ u.at = at /\ u.pos = t.pos /\ u.len = t.len
      /\ u.added = t.added /\ u.limit = t.limit /\ u.flags = t.flags
      /\ u.done = t.done
  <2> HIDE DEF at
  <2> QED BY <1>3, AtOK
<1>5. CASE t.done
  BY <1>5 DEF SplitLoop
<1>6. CASE ~t.done /\ on
  <2>1. SplitLoop(t) = SplitSrch(t, at)
    BY <1>6 DEF SplitLoop
  <2>2. CASE at = 0
    <3>1. SplitLoop(t) = HdlEnd(u)
      BY <2>1, <2>2 DEF SplitSrch
    <3> HIDE DEF u
    <3> QED BY <1>4, <3>1, HdlEndOK
  <2>3. CASE at # 0
    <3>1. SplitLoop(t) = SplitFound(u)
      BY <2>1, <2>3 DEF SplitSrch
    <3>2. u.limit = 0 \/ u.added < u.limit - Remains(u)
      BY <1>4, <1>6 DEF Remains
    <3>3. ~u.done /\ u.at \in u.pos .. Len(str)
      BY <1>2, <1>4, <1>6, <2>3
    <3> HIDE DEF u
    <3> QED BY <1>4, <3>1, <3>2, <3>3, SplitFoundOK
  <2> QED BY <2>2, <2>3
<1>7. CASE ~t.done /\ ~on
  <2>1. SplitLoop(t) = HdlEnd(t)
    BY <1>7 DEF SplitLoop
  <2> QED BY <2>1, HdlEndOK
<1> QED BY <1>1, <1>5, <1>6, <1>7

(* vstr_split_buf() *)
LEMMA SplitOpOK ==
  ASSUME Types, NEW i \in Sects, NEW limit \in Limits, NEW flags \in FlagSets,
         NEW mem \in BOOLEAN
  PROVE  LoopOK(i, SplitOp(i, limit, flags, mem))
<1> DEFINE N == Len(str) + 2
           t == SplitBeg(i, limit, flags, mem)
           Q(f) == f = [k \in 0 .. N |-> IF k = 0 THEN t ELSE SplitLoop(f[k - 1])]
           U == {u \in LoopRec(i) : LoopOK(i, u)}
           S == [k \in 0 .. N |-> U]
           g == [x \in (1 .. N) \X U |-> SplitLoop(x[2])]
           h == CHOOSE f : Q(f)
<1>1. Len(str) \in Nat /\ N \in Nat
  BY DEF Types
<1>2. LoopOK(i, t)
  <2>1. limit \in Nat /\ flags \in SUBSET Flags
    BY SectsAssumption
  <2>2. sects[i] \in SRec /\ SOK(sects[i]) /\ sects[i].num \in Nat
    BY DEF Types, SRec
  <2>3. /\ t \in LoopRec(i) /\ t.s = sects[i] /\ t.pos = 1 /\ t.len = Len(str)
        /\ t.added = 0
    BY <1>1, <2>1, <2>2 DEF SplitBeg, LoopRec
  <2> HIDE DEF t
  <2>4. \A n \in 1 .. t.s.num : n <= sects[i].num /\ t.s.ptr[n] = sects[i].ptr[n]
    BY <2>2, <2>3
  <2> QED BY <1>1, <2>2, <2>3, <2>4 DEF LoopOK
<1>3. SplitOp(i, limit, flags, mem) = h[N]
  BY DEF SplitOp
<1> HIDE DEF N, t
<1>4. t \in U
  BY <1>2 DEF LoopOK
<1>5. ASSUME NEW k \in 1 .. N, NEW u \in U
      PROVE  SplitLoop(u) \in U /\ g[<<k, u>>] = SplitLoop(u)
  <2>1. LoopOK(i, SplitLoop(u))
    BY <1>1, SplitLoopOK
  <2> QED BY <2>1 DEF LoopOK
<1>6. \A k \in 0 .. N : S[k] = U
  OBVIOUS
<1>7. \A k \in 1 .. N : k \in 0 .. N /\ k - 1 \in 0 .. N /\ k # 0
  BY <1>1
<1> HIDE DEF S, g, U
<1>8. PICK f : IsRec(f, N, t, g)
  BY ONLY <1>1, RecExists
<1>9. f = [k \in 0 .. N |-> IF k = 0 THEN t ELSE g[<<k, f[k - 1]>>]]
  BY ONLY <1>8 DEF IsRec
<1>10. \A k \in 0 .. N : f[k] \in S[k]
  <2>1. f[0] \in S[0]
    BY <1>1, <1>4, <1>6, <1>9
  <2>2. ASSUME NEW k \in 1 .. N, f[k - 1] \in S[k - 1] PROVE f[k] \in S[k]
    <3>1. f[k] = g[<<k, f[k - 1]>>]
      BY <1>7, <1>9
    <3> QED BY <1>5, <1>6, <1>7, <2>2, <3>1
  <2> QED BY <1>1, <2>1, <2>2, RecKeeps
<1>11. Q(f)
  <2>1. \A k \in 0 .. N : f[k] = IF k = 0 THEN t ELSE SplitLoop(f[k - 1])
    <3> TAKE k \in 0 .. N
    <3>1. f[k] = IF k = 0 THEN t ELSE g[<<k, f[k - 1]>>]
      BY <1>9
    <3>2. k # 0 => k \in 1 .. N /\ k - 1 \in 0 .. N
      BY <1>1
    <3>3. k # 0 => f[k - 1] \in U
      BY <1>6, <1>10, <3>2
    <3> QED BY <1>5, <3>1, <3>2, <3>3
  <2>2. f = [k \in 0 .. N |-> f[k]]
    BY <1>9
  <2> QED BY <2>1, <2>2
<1>12. Q(h)
  <2> HIDE DEF Q
  <2> QED BY <1>11
<1> HIDE DEF h
<1>13. h[0] = t /\ \A k \in 1 .. N : h[k] = SplitLoop(h[k - 1])
  BY <1>1, <1>12
<1>14. \A k \in 0 .. N : h[k] \in S[k]
  <2>1. h[0] \in S[0]
    BY <1>1, <1>4, <1>6, <1>13
  <2>2. ASSUME NEW k \in 1 .. N, h[k - 1] \in S[k - 1] PROVE h[k] \in S[k]
    BY <1>5, <1>6, <1>7, <1>13, <2>2
  <2> QED BY <1>1, <2>1, <2>2, RecKeeps
<1>15. N \in 0 .. N /\ h[N] \in U
  BY <1>1, <1>6, <1>14
<1>16. LoopOK(i, h[N])
  BY <1>15 DEF U
<1> QED BY <1>3, <1>16


-----------------------------------------------------------------------------
(* The steps *)

(* vstr_sects_make() makes arrays in which nothing is used. *)
LEMMA InitInv ==
  ASSUME Init
  PROVE  IInv /\ Track
<1>1. PICK cs \in Strs : str = [k \in DOMAIN cs |-> [c |-> cs[k], in |-> {}]]
  BY DEF Init
<1>2. cs \in Seq({"a", ":"})
  BY SectsAssumption
<1>3. Len(cs) \in Nat /\ DOMAIN cs = 1 .. Len(cs) /\ \A k \in 1 .. Len(cs) : cs[k] \in {"a", ":"}
  BY <1>2
<1>4. \A k \in 1 .. Len(cs) : [c |-> cs[k], in |-> {}] \in ByteRec
  BY <1>3 DEF ByteRec
<1>5. str \in [1 .. Len(cs) -> ByteRec]
  BY <1>1, <1>3, <1>4
<1>6. str \in Seq(ByteRec)
  BY <1>3, <1>5
<1>7. ASSUME NEW i \in Sects PROVE SOK(sects[i])
  <2> DEFINE n == BegSz[i]
             p == [k \in 1 .. n |-> NoSect]
  <2>1. n \in Nat
    BY SectsAssumption
  <2>2. p \in [1 .. n -> SectOf]
    BY DEF NoSect, SectOf
  <2>3. sects[i] = [num |-> 0, sz |-> n, bad |-> FALSE, ptr |-> p]
    BY DEF Init
  <2> HIDE DEF n, p
  <2>4. SOK([num |-> 0, sz |-> n, bad |-> FALSE, ptr |-> p])
    <3>1. 0 <= n /\ 0 \in Nat /\ FALSE \in BOOLEAN
      BY <2>1
    <3> QED BY ONLY <2>1, <2>2, <3>1, SMade
  <2> QED BY <2>3, <2>4
<1>8. sects \in [Sects -> SRec]
  <2>1. \A i \in Sects : sects[i] \in SRec
    BY <1>7 DEF SOK
  <2>2. sects = [i \in Sects |-> sects[i]]
    BY DEF Init
  <2> QED BY <2>1, <2>2
<1>9. updates \in Seq(Sects) /\ IsInjective(updates) /\ Range(updates) = {}
  <2>1. updates = <<>> /\ DOMAIN updates = {}
    BY DEF Init
  <2> QED BY <2>1 DEF IsInjective, Range
<1>10. iter \in IterRec \cup {NoIter} /\ ~iter.on
  BY DEF Init, NoIter
<1> QED BY <1>6, <1>7, <1>8, <1>9, <1>10 DEF IInv, Types, Track

(* vstr_sects_add() *)
LEMMA SectsAddInv ==
  ASSUME IInv, NEW i \in Sects, NEW pos \in 1 .. Len(str),
         NEW len \in 0 .. Len(str) - pos + 1, NEW mem \in BOOLEAN, SectsAdd(i, pos, len, mem)
  PROVE  IInv' /\ (Track => Track')
<1> DEFINE r == AddSect(i, sects[i], pos, len, mem)
           s == r.s
           ok == r.ok
<1>1. /\ Types /\ Len(str) \in Nat /\ pos \in Nat /\ len \in Nat /\ pos + len - 1 <= Len(str)
      /\ SOK(sects[i]) /\ sects[i].num \in Nat /\ sects[i].sz \in Nat
  BY DEF IInv, Types, SOK, SRec
<1>2. Changes(i, s) /\ updates' = updates /\ iter' = iter
  BY DEF SectsAdd
<1>3. ok \in BOOLEAN /\ AddedTo(i, sects[i], pos, len, s, ok)
  BY <1>1, AddSectOK
<1> HIDE DEF s, ok
<1>4. /\ SOK(s) /\ s.sz >= sects[i].sz /\ s.num \in Nat /\ s.num >= sects[i].num
      /\ \A n \in 1 .. sects[i].num : s.ptr[n] = sects[i].ptr[n]
      /\ \A n \in 1 .. s.num : \/ n \in 1 .. sects[i].num
                               \/ s.ptr[n] = [pos |-> pos, len |-> len]
  <2>1. SOK(s) /\ s.sz >= sects[i].sz /\ s.num \in Nat
        /\ \A n \in 1 .. sects[i].num : s.ptr[n] = sects[i].ptr[n]
    BY <1>3 DEF AddedTo, SOK, SRec
  <2>2. \/ s.num = sects[i].num
        \/ /\ s.num = sects[i].num + 1
           /\ s.ptr[sects[i].num + 1] = [pos |-> pos, len |-> len]
    BY <1>3 DEF AddedTo
  <2> QED BY SMTT(30), <1>1, <2>1, <2>2
<1>5. /\ str' \in Seq(ByteRec) /\ Len(str') = Len(str)
      /\ sects' \in [Sects -> SRec] /\ sects'[i] = s
      /\ \A j \in Sects : j # i => sects'[j] = sects[j]
      /\ \A j \in Sects : SOK(sects'[j])
      /\ Track /\ (i \in Range(updates) => \A n \in 1 .. s.num : Fits(s.ptr[n], Len(str)))
           => Track'
  BY <1>1, <1>2, <1>4, ChangesTrack
<1>6. Types'
  BY <1>1, <1>2, <1>5 DEF Types
<1>7. IInv'
  <2>1. \A j \in Sects :
         /\ sects'[j].sz >= sects[j].sz /\ sects'[j].num >= sects[j].num
         /\ \A n \in 1 .. sects[j].num :
              /\ sects'[j].ptr[n].pos > 0 <=> sects[j].ptr[n].pos > 0
              /\ sects'[j].ptr[n].len > 0 <=> sects[j].ptr[n].len > 0
    <3> TAKE j \in Sects
    <3>1. sects[j].sz \in Nat /\ sects[j].num \in Nat
      BY <1>1 DEF Types, SOK, SRec
    <3>2. CASE j = i
      BY <1>4, <1>5, <3>2
    <3>3. CASE j # i
      BY <1>5, <3>1, <3>3
    <3> QED BY <3>2, <3>3
  <2> QED BY <1>1, <1>2, <1>6, <2>1, IterStays DEF IInv
<1>8. ASSUME Track PROVE Track'
  <2>1. ASSUME i \in Range(updates), NEW n \in 1 .. s.num PROVE Fits(s.ptr[n], Len(str))
    <3>1. CASE n \in 1 .. sects[i].num
      BY <1>4, <1>8, <2>1, <3>1 DEF Track
    <3>2. CASE s.ptr[n] = [pos |-> pos, len |-> len]
      <4>1. s.ptr[n].pos = pos /\ s.ptr[n].len = len
        BY <3>2
      <4> QED BY <1>1, <4>1 DEF Fits
    <3> QED BY <1>4, <3>1, <3>2
  <2> QED BY <1>5, <1>8, <2>1
<1> QED BY <1>7, <1>8

(* Deleting sections leaves the others where they are. *)
LEMMA LessTracks ==
  ASSUME Types, NEW i \in Sects, NEW s, SOK(s), Changes(i, s), updates' = updates,
         s.num <= sects[i].num,
         \A n \in 1 .. s.num : s.ptr[n] = sects[i].ptr[n] \/ s.ptr[n].pos = 0
  PROVE  Track => Track'
<1>1. s.num \in Nat /\ sects[i].num \in Nat
  BY DEF Types, SOK, SRec
<1>2. ASSUME Track PROVE Track'
  <2>1. ASSUME i \in Range(updates), NEW n \in 1 .. s.num PROVE Fits(s.ptr[n], Len(str))
    <3>1. n \in 1 .. sects[i].num
      BY <1>1
    <3>2. CASE s.ptr[n] = sects[i].ptr[n]
      BY <1>2, <2>1, <3>1, <3>2 DEF Track
    <3>3. CASE s.ptr[n].pos = 0
      BY <3>3 DEF Fits, Live
    <3> QED BY <3>2, <3>3
  <2> QED BY <1>2, <2>1, ChangesTrack
<1> QED BY <1>2

(* One section is deleted. *)
Blanked(s, n) == [s EXCEPT !.ptr[n].pos = 0]

(* The entry stays in the array. *)
LEMMA BlankedIs ==
  ASSUME NEW s, NEW n \in 1 .. s.sz, SOK(s)
  PROVE  /\ SOK(Blanked(s, n)) /\ Blanked(s, n).num = s.num /\ Blanked(s, n).sz = s.sz
         /\ Blanked(s, n).ptr[n].pos = 0
         /\ \A k \in 1 .. s.sz : k # n => Blanked(s, n).ptr[k] = s.ptr[k]
<1> DEFINE e == [s.ptr[n] EXCEPT !.pos = 0]
           p == [s.ptr EXCEPT ![n] = e]
<1>1. s.num \in Nat /\ s.sz \in Nat /\ s.num <= s.sz /\ s.ptr \in [1 .. s.sz -> SectOf]
      /\ s \in SRec
  BY DEF SOK, SRec
<1>2. e \in SectOf /\ e.pos = 0
  <2>1. s.ptr[n] \in SectOf
    BY <1>1
  <2> QED BY <2>1 DEF SectOf
<1>3. Blanked(s, n) = [s EXCEPT !.ptr = p]
  BY DEF Blanked
<1> HIDE DEF e
<1>4. p \in [1 .. s.sz -> SectOf] /\ p[n] = e /\ \A k \in 1 .. s.sz : k # n => p[k] = s.ptr[k]
  BY <1>1, <1>2
<1> HIDE DEF p
<1> QED BY <1>2, <1>3, <1>4, SPtr


(* vstr_sects_del() *)
LEMMA SectsDelInv ==
  ASSUME IInv, NEW i \in Sects, NEW n \in 1 .. sects[i].num, NEW mem \in BOOLEAN,
         SectsDel(i, n, mem)
  PROVE  IInv' /\ (Track => Track')
<1> DEFINE b == Blanked(sects[i], n)
           c == Shorten(b)
           s == Shrink(i, c, mem)
<1>1. /\ Types /\ SOK(sects[i]) /\ sects[i].num \in Nat /\ sects[i].sz \in Nat
      /\ sects[i].num <= sects[i].sz /\ n \in 1 .. sects[i].sz
  BY DEF IInv, Types, SOK, SRec
<1>2. Changes(i, s) /\ updates' = updates /\ Follow
      /\ (iter.on /\ iter.i = i /\ ~AnyDel => iter.scan <= s.sz)
  BY DEF SectsDel, Blanked, PlainSectsDel
<1>3. /\ SOK(b) /\ b.num = sects[i].num /\ b.sz = sects[i].sz
      /\ b.ptr[n].pos = 0
      /\ \A k \in 1 .. sects[i].sz : k # n => b.ptr[k] = sects[i].ptr[k]
  BY <1>1, BlankedIs
<1> HIDE DEF b
<1>4. /\ SOK(c) /\ c.num <= b.num /\ c.sz = b.sz /\ c.ptr = b.ptr
  BY <1>3, ShortenOK
<1> HIDE DEF c
<1>5. /\ SOK(s) /\ s.num = c.num /\ \A k \in 1 .. c.num : s.ptr[k] = c.ptr[k]
      /\ ~CanDel[i] => s = c
  BY <1>4, ShrinkOK
<1> HIDE DEF s
<1>6. s.num \in Nat /\ s.num <= sects[i].num
  BY <1>3, <1>4, <1>5 DEF SOK, SRec
<1>7. \A k \in 1 .. s.num : s.ptr[k] = sects[i].ptr[k] \/ s.ptr[k].pos = 0
  <2> TAKE k \in 1 .. s.num
  <2>1. k \in 1 .. c.num /\ k \in 1 .. sects[i].sz
    BY <1>1, <1>5, <1>6
  <2>2. s.ptr[k] = b.ptr[k]
    BY <1>4, <1>5, <2>1
  <2> QED BY <1>3, <2>1, <2>2
<1>8. Track => Track'
  BY <1>1, <1>2, <1>5, <1>6, <1>7, LessTracks
<1>9. /\ str' \in Seq(ByteRec) /\ sects' \in [Sects -> SRec] /\ sects'[i] = s
      /\ \A j \in Sects : j # i => sects'[j] = sects[j]
      /\ \A j \in Sects : SOK(sects'[j])
  BY <1>1, <1>2, <1>5, ChangesTrack
<1>10. iter' \in IterRec \cup {NoIter} /\ (iter'.on => IterOK(iter', sects'[iter'.i]))
  <2>1. iter.on => iter \in IterRec
    BY <1>1 DEF Types, NoIter
  <2>2. iter.on => iter.i \in Sects
    BY <2>1 DEF IterRec
  <2>3. iter.on /\ ~AnyDel => \/ iter.scan <= sects'[iter.i].sz
                              \/ sects[iter.i].sz <= sects'[iter.i].sz
    <3> SUFFICES ASSUME iter.on, ~AnyDel
                 PROVE  \/ iter.scan <= sects'[iter.i].sz
                        \/ sects[iter.i].sz <= sects'[iter.i].sz
      OBVIOUS
    <3>1. CASE iter.i = i
      BY <1>2, <1>9, <3>1
    <3>2. CASE iter.i # i
      <4>1. sects'[iter.i] = sects[iter.i] /\ sects[iter.i].sz \in Nat
        BY <1>1, <1>9, <2>2, <3>2 DEF Types, SOK, SRec
      <4> QED BY <4>1
    <3> QED BY <3>1, <3>2
  <2> QED BY <1>1, <1>2, <1>9, <2>3, IterFollows DEF IInv
<1> QED BY <1>1, <1>2, <1>8, <1>9, <1>10 DEF IInv, Types

(* vstr_sects_update_add() *)
LEMMA UpdateAddInv ==
  ASSUME IInv, NEW i \in Sects, UpdateAdd(i)
  PROVE  IInv' /\ (Track => Track')
<1> DEFINE s == sects[i]
           t == Marked(i, s, TRUE)
           ups == Append(updates, i)
<1>1. /\ Types /\ SOK(s) /\ Len(str) \in Nat /\ updates \in Seq(Sects) /\ IsInjective(updates)
      /\ Len(updates) \in Nat
  BY DEF IInv, Types
<1>2. /\ i \notin Range(updates) /\ Within(s) /\ updates' = ups /\ str' = t
      /\ sects' = sects /\ iter' = iter
  BY DEF UpdateAdd
<1>3. /\ ups \in Seq(Sects) /\ Len(ups) = Len(updates) + 1
      /\ DOMAIN ups = 1 .. Len(updates) + 1 /\ ups[Len(updates) + 1] = i
      /\ \A k \in 1 .. Len(updates) : ups[k] = updates[k]
  BY <1>1
<1> HIDE DEF ups
<1>4. DOMAIN updates = 1 .. Len(updates)
  BY <1>1
<1>5. \A j : j \in Range(ups) <=> j \in Range(updates) \/ j = i
  <2>1. ASSUME NEW j, j \in Range(ups) PROVE j \in Range(updates) \/ j = i
    <3>1. PICK k \in 1 .. Len(updates) + 1 : j = ups[k]
      BY <1>3, <2>1 DEF Range
    <3>2. k \in 1 .. Len(updates) \/ k = Len(updates) + 1
      BY <1>1
    <3> QED BY <1>3, <1>4, <3>1, <3>2 DEF Range
  <2>2. ASSUME NEW j, j \in Range(updates) PROVE j \in Range(ups)
    <3>1. PICK k \in 1 .. Len(updates) : j = updates[k]
      BY <1>4, <2>2 DEF Range
    <3>2. k \in 1 .. Len(updates) + 1
      BY <1>1
    <3> QED BY <1>3, <3>1, <3>2 DEF Range
  <2>3. i \in Range(ups)
    <3>1. Len(updates) + 1 \in 1 .. Len(updates) + 1
      BY <1>1
    <3> QED BY <1>3, <3>1 DEF Range
  <2> QED BY <2>1, <2>2, <2>3
<1>6. IsInjective(ups)
  <2> SUFFICES ASSUME NEW a \in DOMAIN ups, NEW b \in DOMAIN ups, ups[a] = ups[b]
               PROVE  a = b
    BY DEF IsInjective
  <2>1. \A k \in 1 .. Len(updates) : updates[k] # i
    BY <1>2, <1>4 DEF Range
  <2>2. \A c, d \in 1 .. Len(updates) : updates[c] = updates[d] => c = d
    BY <1>1, <1>4 DEF IsInjective
  <2>3. /\ a \in 1 .. Len(updates) \/ a = Len(updates) + 1
        /\ b \in 1 .. Len(updates) \/ b = Len(updates) + 1
    BY <1>1, <1>3
  <2> QED BY <1>3, <2>1, <2>2, <2>3
<1>7. /\ t \in Seq(ByteRec) /\ Len(t) = Len(str)
      /\ \A k \in 1 .. Len(str) :
           /\ \A j \in Sects, n \in Nat : j # i =>
                (<<j, n>> \in t[k].in <=> <<j, n>> \in str[k].in)
           /\ \A n \in 1 .. s.num : <<i, n>> \in t[k].in <=> In(s.ptr[n], k)
  <2> HIDE DEF s
  <2>1. TRUE \in BOOLEAN
    OBVIOUS
  <2> QED BY <1>1, <2>1, MarkedIs
<1> HIDE DEF t
<1>8. Types'
  BY <1>1, <1>2, <1>3, <1>6, <1>7 DEF Types
<1>9. IInv'
  BY <1>2, <1>8 DEF IInv
<1>10. ASSUME Track PROVE Track'
  <2>1. ASSUME NEW j \in Sects, j \in Range(ups), NEW n \in 1 .. sects[j].num
        PROVE  /\ \A k \in 1 .. Len(str) : <<j, n>> \in t[k].in <=> In(sects[j].ptr[n], k)
               /\ Fits(sects[j].ptr[n], Len(str))
    <3>1. CASE j = i
      BY <1>2, <1>7, <3>1 DEF Within, Fits
    <3>2. CASE j # i
      <4>1. j \in Range(updates)
        BY <1>5, <2>1, <3>2
      <4>2. n \in Nat
        BY <1>1 DEF Types, SOK, SRec
      <4>3. \A k \in 1 .. Len(str) : <<j, n>> \in str[k].in <=> In(sects[j].ptr[n], k)
        BY <1>10, <4>1 DEF Track
      <4>4. Fits(sects[j].ptr[n], Len(str))
        BY <1>10, <4>1 DEF Track
      <4> QED BY <1>7, <3>2, <4>2, <4>3, <4>4
    <3> QED BY <3>1, <3>2
  <2> QED BY <1>2, <1>7, <2>1 DEF Track
<1> QED BY <1>9, <1>10


(* vstr_sects_update_del() *)
LEMMA UpdateDelInv ==
  ASSUME IInv, NEW i \in Sects, UpdateDel(i)
  PROVE  IInv' /\ (Track => Track')
<1> DEFINE s == sects[i]
           t == Marked(i, s, FALSE)
           p == PlaceOf(i)
           ups == Cut(updates, p, 1)
           N == Len(updates)
<1>1. /\ Types /\ SOK(s) /\ Len(str) \in Nat /\ updates \in Seq(Sects) /\ IsInjective(updates)
      /\ N \in Nat /\ DOMAIN updates = 1 .. N
  BY DEF IInv, Types
<1>2. /\ i \in Range(updates) /\ updates' = ups /\ str' = t
      /\ sects' = sects /\ iter' = iter
  BY DEF UpdateDel, RemoveAt, Cut
<1>3. p \in 1 .. N /\ updates[p] = i
  BY <1>1, <1>2, PlaceIs
<1>4. /\ ups \in Seq(Sects) /\ Len(ups) = N - 1
      /\ \A k \in 1 .. N - 1 : ups[k] = IF k < p THEN updates[k] ELSE updates[k + 1]
  <2> HIDE DEF p
  <2>1. 1 \in Nat /\ p + 1 - 1 <= Len(updates)
    BY <1>1, <1>3
  <2> QED BY <1>1, <1>3, <2>1, CutIs
<1> HIDE DEF ups, p, N
<1>5. DOMAIN ups = 1 .. N - 1
  BY <1>1, <1>4
<1>6. \A c, d \in 1 .. N : updates[c] = updates[d] => c = d
  BY <1>1 DEF IsInjective
<1> DEFINE at(k) == IF k < p THEN k ELSE k + 1
<1>7. /\ \A k \in 1 .. N - 1 : at(k) \in 1 .. N /\ at(k) # p /\ ups[k] = updates[at(k)]
      /\ \A c, d \in 1 .. N - 1 : at(c) = at(d) => c = d
  BY <1>1, <1>3, <1>4
<1> HIDE DEF at
<1>8. \A j \in Range(ups) : j \in Range(updates) /\ j # i
  <2> TAKE j \in Range(ups)
  <2>1. PICK k \in 1 .. N - 1 : j = ups[k]
    BY <1>5 DEF Range
  <2>2. at(k) \in 1 .. N /\ at(k) # p /\ j = updates[at(k)]
    BY <1>7, <2>1
  <2>3. j # i
    BY <1>3, <1>6, <2>2
  <2> QED BY <1>1, <2>2, <2>3 DEF Range
<1>9. IsInjective(ups)
  BY <1>5, <1>6, <1>7 DEF IsInjective
<1>10. /\ t \in Seq(ByteRec) /\ Len(t) = Len(str)
       /\ \A k \in 1 .. Len(str) : \A j \in Sects, n \in Nat : j # i =>
            (<<j, n>> \in t[k].in <=> <<j, n>> \in str[k].in)
  <2> HIDE DEF s
  <2>1. FALSE \in BOOLEAN
    OBVIOUS
  <2> QED BY <1>1, <2>1, MarkedIs
<1> HIDE DEF t
<1>11. Types'
  BY <1>1, <1>2, <1>4, <1>9, <1>10 DEF Types
<1>12. IInv'
  BY <1>2, <1>11 DEF IInv
<1>13. ASSUME Track PROVE Track'
  <2>1. ASSUME NEW j \in Sects, j \in Range(ups), NEW n \in 1 .. sects[j].num
        PROVE  /\ \A k \in 1 .. Len(str) : <<j, n>> \in t[k].in <=> In(sects[j].ptr[n], k)
               /\ Fits(sects[j].ptr[n], Len(str))
    <3>1. j \in Range(updates) /\ j # i
      BY <1>8, <2>1
    <3>2. n \in Nat
      BY <1>1 DEF Types, SOK, SRec
    <3>3. \A k \in 1 .. Len(str) : <<j, n>> \in str[k].in <=> In(sects[j].ptr[n], k)
      BY <1>13, <3>1 DEF Track
    <3>4. Fits(sects[j].ptr[n], Len(str))
      BY <1>13, <3>1 DEF Track
    <3> QED BY <1>10, <3>1, <3>2, <3>3, <3>4
  <2> QED BY <1>2, <1>10, <2>1 DEF Track
<1> QED BY <1>12, <1>13

(* vstr_split_buf() *)
LEMMA SplitInv ==
  ASSUME IInv, NEW i \in Sects, NEW limit \in Limits, NEW flags \in FlagSets,
         NEW mem \in BOOLEAN, Split(i, limit, flags, mem)
  PROVE  IInv' /\ (Track => Track')
<1> DEFINE t == SplitOp(i, limit, flags, mem)
           s == t.s
<1>1. Types
  BY DEF IInv
<1>2. /\ ~iter.on /\ Changes(i, s) /\ updates' = updates /\ iter' = iter
  BY DEF Split
<1>3. LoopOK(i, t)
  BY <1>1, SplitOpOK
<1> HIDE DEF t
<1>4. SOK(s) /\ Sound(i, s)
  BY <1>3 DEF LoopOK, Sound
<1> HIDE DEF s
<1>5. /\ str' \in Seq(ByteRec) /\ sects' \in [Sects -> SRec]
      /\ \A j \in Sects : SOK(sects'[j])
      /\ Track /\ (i \in Range(updates) => \A n \in 1 .. s.num : Fits(s.ptr[n], Len(str)))
           => Track'
  BY <1>1, <1>2, <1>4, ChangesTrack
<1>6. IInv'
  BY <1>1, <1>2, <1>5 DEF IInv, Types
<1>7. ASSUME Track PROVE Track'
  <2>1. ASSUME i \in Range(updates), NEW n \in 1 .. s.num PROVE Fits(s.ptr[n], Len(str))
    <3>1. CASE n <= sects[i].num /\ s.ptr[n] = sects[i].ptr[n]
      <4>1. n \in 1 .. sects[i].num
        BY <1>1, <1>4, <3>1 DEF Types, SOK, SRec
      <4> QED BY <1>7, <2>1, <3>1, <4>1 DEF Track
    <3> QED BY <1>4, <3>1 DEF Sound
  <2> QED BY <1>5, <1>7, <2>1
<1> QED BY <1>6, <1>7

(* vstr_sects_foreach() begins, ... *)
LEMMA ForeachBegInv ==
  ASSUME IInv, NEW i \in Sects, NEW back \in BOOLEAN, NEW null \in BOOLEAN,
         ForeachBeg(i, back, null)
  PROVE  IInv' /\ (Track => Track')
<1> DEFINE s == sects[i]
           scan == IF back THEN s.num ELSE 1
           keep == {n \in 1 .. s.num : Passes(s.ptr[n], null)}
           r == [on |-> TRUE, i |-> i, back |-> back, null |-> null, called |-> FALSE,
                 scan |-> scan, seen |-> {}, keep |-> keep]
<1>1. Types /\ SOK(s) /\ s.num \in Nat /\ s.sz \in Nat /\ s.num <= s.sz
  BY DEF IInv, Types, SOK, SRec
<1>2. iter' = r /\ UNCHANGED <<str, sects, updates>>
  BY DEF ForeachBeg
<1>3. scan \in Nat /\ (back => scan <= s.sz) /\ (~back => scan > 0)
      /\ (back => scan = s.num) /\ (~back => scan = 1)
  BY <1>1
<1>4. keep \in SUBSET Nat /\ keep \subseteq 1 .. s.num
      /\ \A n \in keep : Passes(s.ptr[n], null)
  BY <1>1
<1> HIDE DEF s, scan, keep
<1>5. /\ r \in IterRec /\ r.i = i /\ r.back = back /\ r.null = null /\ r.called = FALSE
      /\ r.scan = scan /\ r.seen = {} /\ r.keep = keep
  BY <1>3, <1>4 DEF IterRec
<1> HIDE DEF r
<1>6. \A n \in r.keep : ~Past(r, n)
  <2> TAKE n \in r.keep
  <2>1. n \in 1 .. s.num
    BY <1>4, <1>5
  <2>2. CASE back
    <3>1. r.back /\ r.scan = s.num
      BY <1>3, <1>5, <2>2
    <3> QED BY ONLY <1>1, <2>1, <3>1 DEF Past
  <2>3. CASE ~back
    <3>1. ~r.back /\ r.scan = 1
      BY <1>3, <1>5, <2>3
    <3> QED BY ONLY <1>1, <2>1, <3>1 DEF Past
  <2> QED BY <2>2, <2>3
<1>7. IterOK(r, s)
  BY <1>1, <1>3, <1>4, <1>5, <1>6 DEF IterOK
<1>8. IInv'
  BY <1>1, <1>2, <1>5, <1>7 DEF IInv, Types, s
<1> QED BY <1>2, <1>8 DEF Track

(* ... looks at a section, ... *)
LEMMA ForeachCallInv ==
  ASSUME IInv, NEW pass \in BOOLEAN, ForeachCall(pass)
  PROVE  IInv' /\ (Track => Track')
<1> DEFINE s == sects[iter.i]
           n == iter.scan
           m == NextScan
<1>1. /\ iter.on /\ ~iter.called /\ More /\ UNCHANGED <<str, sects, updates>>
      /\ n \in 1 .. s.sz => pass = Passes(s.ptr[n], iter.null)
      /\ iter' = IF pass THEN [iter EXCEPT !.called = TRUE, !.seen = iter.seen \cup {n}]
                         ELSE [iter EXCEPT !.scan = m]
  BY DEF ForeachCall, InArray
<1>2. Types /\ iter \in IterRec /\ IterOK(iter, s)
  BY <1>1 DEF IInv, Types, NoIter
<1>3. /\ iter.i \in Sects /\ iter.back \in BOOLEAN /\ n \in Nat /\ iter.seen \in SUBSET Nat
      /\ iter.keep \in SUBSET Nat
  BY <1>2 DEF IterRec
<1>4. s.num \in Nat /\ s.sz \in Nat /\ s.num <= s.sz
  BY <1>2, <1>3 DEF Types, SOK, SRec
<1>5. IF iter.back THEN n > 0 ELSE n <= s.num
  BY <1>1 DEF More
<1>6. n > 0 /\ (~AnyDel => n <= s.sz)
  BY <1>2, <1>3, <1>4, <1>5 DEF IterOK
<1>7. m = IF iter.back THEN n - 1 ELSE n + 1
  BY DEF NextScan
<1> HIDE DEF s, m
<1>8. CASE pass
  <2> DEFINE seen == iter.seen \cup {n}
  <2>1. seen \in SUBSET Nat /\ iter' = [iter EXCEPT !.called = TRUE, !.seen = seen]
    BY <1>1, <1>3, <1>8
  <2>2. n \in seen /\ iter.seen \subseteq seen
    OBVIOUS
  <2> HIDE DEF seen
  <2>3. /\ iter' \in IterRec /\ iter'.i = iter.i /\ iter'.back = iter.back
        /\ iter'.null = iter.null /\ iter'.called = TRUE /\ iter'.scan = n
        /\ iter'.seen = seen /\ iter'.keep = iter.keep
    BY <1>2, <2>1 DEF IterRec
  <2>4. \A k \in iter'.keep : Past(iter', k) => k \in iter'.seen
    BY <1>2, <2>2, <2>3 DEF IterOK, Past
  <2>5. IterOK(iter', s)
    BY <1>2, <1>6, <2>2, <2>3, <2>4 DEF IterOK
  <2>6. IInv'
    BY <1>1, <1>2, <2>3, <2>5 DEF IInv, Types, s
  <2> QED BY <1>1, <2>6 DEF Track
<1>9. CASE ~pass
  <2>1. m \in Nat /\ iter' = [iter EXCEPT !.scan = m]
    BY <1>1, <1>3, <1>6, <1>7, <1>9
  <2>2. /\ iter' \in IterRec /\ iter'.i = iter.i /\ iter'.back = iter.back
        /\ iter'.null = iter.null /\ iter'.called = iter.called /\ iter'.scan = m
        /\ iter'.seen = iter.seen /\ iter'.keep = iter.keep
    BY <1>2, <2>1 DEF IterRec
  <2>3. n \notin iter.keep
    <3>1. n \in iter.keep => n \in 1 .. s.num /\ Passes(s.ptr[n], iter.null)
      BY <1>2 DEF IterOK
    <3> QED BY <1>1, <1>4, <1>9, <3>1
  <2>4. ASSUME NEW k \in iter.keep, Past(iter', k) PROVE k \in iter.seen
    <3>1. k \in Nat /\ k # n
      BY <1>3, <2>3
    <3>2. Past(iter, k)
      BY <1>3, <1>7, <2>2, <2>4, <3>1 DEF Past
    <3> QED BY <1>2, <3>2 DEF IterOK
  <2>5. (~AnyDel /\ iter.back => m <= s.sz) /\ (~iter.back => m > 0)
    BY <1>3, <1>4, <1>6, <1>7
  <2>6. IterOK(iter', s)
    BY <1>1, <1>2, <2>2, <2>4, <2>5 DEF IterOK
  <2>7. IInv'
    BY <1>1, <1>2, <2>2, <2>6 DEF IInv, Types, s
  <2> QED BY <1>1, <2>7 DEF Track
<1> QED BY <1>8, <1>9

(* ... has what its callback returned, ... *)
LEMMA ForeachReturnInv ==
  ASSUME IInv, NEW del \in BOOLEAN, ForeachReturn(del)
  PROVE  IInv' /\ (Track => Track')
<1> DEFINE i == iter.i
           s == sects[i]
           n == iter.scan
           m == NextScan
           kept == IF del THEN iter.keep \ {n} ELSE iter.keep
           b == Blanked(s, n)
<1>1. /\ iter.on /\ iter.called /\ updates' = updates
      /\ iter' = [iter EXCEPT !.called = FALSE, !.scan = m, !.keep = kept]
      /\ IF del /\ n \in 1 .. s.sz THEN Changes(i, b) ELSE UNCHANGED <<sects, str>>
  BY DEF ForeachReturn, Blanked, InArray
<1>2. Types /\ iter \in IterRec /\ IterOK(iter, s)
  BY <1>1 DEF IInv, Types, NoIter
<1>3. /\ i \in Sects /\ iter.back \in BOOLEAN /\ n \in Nat /\ iter.seen \in SUBSET Nat
      /\ iter.keep \in SUBSET Nat
  BY <1>2 DEF IterRec
<1>4. SOK(s) /\ s.num \in Nat /\ s.sz \in Nat /\ s.num <= s.sz
  BY <1>2, <1>3 DEF Types, SOK, SRec
<1>5. n > 0 /\ (~AnyDel => n <= s.sz) /\ n \in iter.seen
  BY <1>1, <1>2 DEF IterOK
<1>6. m = IF iter.back THEN n - 1 ELSE n + 1
  BY DEF NextScan
<1>7. n \in 1 .. s.sz =>
        /\ SOK(b) /\ b.num = s.num /\ b.sz = s.sz /\ b.ptr[n].pos = 0
        /\ \A k \in 1 .. s.sz : k # n => b.ptr[k] = s.ptr[k]
  BY <1>4, BlankedIs
<1>8. kept \in SUBSET Nat /\ kept \subseteq iter.keep /\ (del => n \notin kept)
  BY <1>3
<1> HIDE DEF s, m, kept, b
<1>9. m \in Nat /\ (~AnyDel /\ iter.back => m <= s.sz) /\ (~iter.back => m > 0)
  BY <1>3, <1>4, <1>5, <1>6
<1>10. /\ iter' \in IterRec /\ iter'.i = i /\ iter'.back = iter.back /\ iter'.on
       /\ iter'.null = iter.null /\ iter'.called = FALSE /\ iter'.scan = m
       /\ iter'.seen = iter.seen /\ iter'.keep = kept
  BY <1>1, <1>2, <1>8, <1>9 DEF IterRec
<1>11. ASSUME NEW k \in kept, Past(iter', k) PROVE k \in iter.seen
  <2>1. k \in Nat /\ k \in iter.keep
    BY <1>3, <1>8
  <2>2. CASE k = n
    BY <1>5, <2>2
  <2>3. CASE k # n
    <3>1. Past(iter, k)
      BY <1>3, <1>6, <1>10, <1>11, <2>1, <2>3 DEF Past
    <3> QED BY <1>2, <2>1, <3>1 DEF IterOK
  <2> QED BY <2>2, <2>3
<1>12. CASE ~(del /\ n \in 1 .. s.sz)
  <2>1. sects' = sects /\ str' = str
    BY <1>1, <1>12
  <2>2. IterOK(iter', s)
    BY <1>2, <1>8, <1>9, <1>10, <1>11 DEF IterOK
  <2>3. IInv'
    BY <1>1, <1>2, <1>10, <2>1, <2>2 DEF IInv, Types, s
  <2> QED BY <1>1, <2>1, <2>3 DEF Track
<1>13. CASE del /\ n \in 1 .. s.sz
  <2>0. /\ SOK(b) /\ b.num = s.num /\ b.sz = s.sz /\ b.ptr[n].pos = 0
        /\ \A k \in 1 .. s.sz : k # n => b.ptr[k] = s.ptr[k]
    BY <1>7, <1>13
  <2>1. Changes(i, b)
    BY <1>1, <1>13
  <2>2. /\ str' \in Seq(ByteRec) /\ sects' \in [Sects -> SRec] /\ sects'[i] = b
        /\ \A j \in Sects : SOK(sects'[j])
    BY <1>1, <1>2, <1>3, <2>0, <2>1, ChangesTrack
  <2>3. \A k \in 1 .. b.num : b.ptr[k] = sects[i].ptr[k] \/ b.ptr[k].pos = 0
    <3> TAKE k \in 1 .. b.num
    <3>1. k \in 1 .. s.sz
      BY <1>4, <2>0
    <3> QED BY <2>0, <3>1 DEF s
  <2>4. b.num <= sects[i].num
    BY <1>4, <2>0 DEF s
  <2>5. Track => Track'
    BY <1>1, <1>2, <1>3, <2>0, <2>1, <2>3, <2>4, LessTracks
  <2>6. \A k \in kept : k \in 1 .. b.num /\ Passes(b.ptr[k], iter.null)
    <3> TAKE k \in kept
    <3>1. k \in iter.keep /\ k # n
      BY <1>8, <1>13
    <3>2. k \in 1 .. s.num /\ Passes(s.ptr[k], iter.null)
      BY <1>2, <3>1 DEF IterOK
    <3>3. k \in 1 .. s.sz
      BY <1>4, <3>2
    <3> QED BY <2>0, <3>1, <3>2, <3>3
  <2>7. IterOK(iter', b)
    BY <2>0, <1>9, <1>10, <1>11, <2>6 DEF IterOK
  <2>8. IInv'
    BY <1>1, <1>2, <1>10, <2>2, <2>7 DEF IInv, Types
  <2> QED BY <2>5, <2>8
<1> QED BY <1>12, <1>13

(* ... and ends. *)
LEMMA ForeachEndInv ==
  ASSUME IInv, NEW mem \in BOOLEAN, ForeachEnd(mem)
  PROVE  IInv' /\ (Track => Track')
<1> DEFINE i == iter.i
           c == Shorten(sects[i])
           s == Shrink(i, c, mem)
<1>1. /\ iter.on /\ Changes(i, s) /\ iter' = NoIter /\ updates' = updates
  BY DEF ForeachEnd
<1>2. Types /\ iter \in IterRec
  BY <1>1 DEF IInv, Types, NoIter
<1>3. i \in Sects
  BY <1>2 DEF IterRec
<1>4. SOK(sects[i]) /\ sects[i].num \in Nat
  BY <1>2, <1>3 DEF Types, SOK, SRec
<1>5. SOK(c) /\ c.num <= sects[i].num /\ c.ptr = sects[i].ptr
  BY <1>4, ShortenOK
<1> HIDE DEF c
<1>6. SOK(s) /\ s.num = c.num /\ \A k \in 1 .. c.num : s.ptr[k] = c.ptr[k]
  BY <1>3, <1>5, ShrinkOK
<1> HIDE DEF s, i
<1>7. \A k \in 1 .. s.num : s.ptr[k] = sects[i].ptr[k] \/ s.ptr[k].pos = 0
  BY <1>5, <1>6
<1>8. s.num <= sects[i].num
  BY <1>5, <1>6
<1>9. Track => Track'
  BY <1>1, <1>2, <1>3, <1>6, <1>7, <1>8, LessTracks
<1>10. /\ str' \in Seq(ByteRec) /\ sects' \in [Sects -> SRec]
       /\ \A j \in Sects : SOK(sects'[j])
  BY <1>1, <1>2, <1>3, <1>6, ChangesTrack
<1>11. ~NoIter.on
  BY DEF NoIter
<1>12. IInv'
  BY <1>1, <1>2, <1>10, <1>11 DEF IInv, Types
<1> QED BY <1>9, <1>12

-----------------------------------------------------------------------------
(* Every step of the specification keeps both; the sections are only kept  *)
(* on their bytes when no delete is made that the update gets wrong.       *)
LEMMA NextInv ==
  ASSUME IInv, [Next]_vars
  PROVE  IInv' /\ (~AnyUpdate /\ Track => Track')
<1>1. Types
  BY DEF IInv
<1>2. ASSUME NEW pos \in 0 .. Len(str), NEW cs \in Texts, AddStr(pos, cs)
      PROVE  IInv' /\ (Track => Track')
  BY <1>2, AddStrInv
<1>3. ASSUME NEW pos \in 1 .. Len(str), NEW len \in 1 .. Len(str) - pos + 1, DelStr(pos, len)
      PROVE  IInv' /\ (~AnyUpdate /\ Track => Track')
  BY <1>3, DelStrInv
<1>4. ASSUME NEW i \in Sects, NEW mem \in BOOLEAN, NEW pos \in 1 .. Len(str),
             NEW len \in 0 .. Len(str) - pos + 1, SectsAdd(i, pos, len, mem)
      PROVE  IInv' /\ (Track => Track')
  BY <1>4, SectsAddInv
<1>5. ASSUME NEW i \in Sects, NEW mem \in BOOLEAN, NEW n \in 1 .. sects[i].num,
             SectsDel(i, n, mem)
      PROVE  IInv' /\ (Track => Track')
  BY <1>5, SectsDelInv
<1>6. ASSUME NEW i \in Sects, NEW mem \in BOOLEAN, NEW limit \in Limits,
             NEW flags \in FlagSets, Split(i, limit, flags, mem)
      PROVE  IInv' /\ (Track => Track')
  BY <1>6, SplitInv
<1>7. ASSUME NEW i \in Sects, UpdateAdd(i) PROVE IInv' /\ (Track => Track')
  BY <1>7, UpdateAddInv
<1>8. ASSUME NEW i \in Sects, UpdateDel(i) PROVE IInv' /\ (Track => Track')
  BY <1>8, UpdateDelInv
<1>9. ASSUME NEW i \in Sects, NEW back \in BOOLEAN, NEW null \in BOOLEAN,
             ForeachBeg(i, back, null)
      PROVE  IInv' /\ (Track => Track')
  BY <1>9, ForeachBegInv
<1>10. ASSUME NEW pass \in BOOLEAN, ForeachCall(pass) PROVE IInv' /\ (Track => Track')
  BY <1>10, ForeachCallInv
<1>11. ASSUME NEW del \in BOOLEAN, ForeachReturn(del) PROVE IInv' /\ (Track => Track')
  BY <1>11, ForeachReturnInv
<1>12. ASSUME NEW mem \in BOOLEAN, ForeachEnd(mem) PROVE IInv' /\ (Track => Track')
  BY <1>12, ForeachEndInv
<1>13. CASE UNCHANGED vars
  BY <1>13 DEF vars, IInv, Types, Track
<1>14. CASE Next
  BY <1>2, <1>3, <1>4, <1>5, <1>6, <1>7, <1>8, <1>9, <1>10, <1>11, <1>12, <1>14 DEF Next
<1> QED BY <1>13, <1>14

(* The arrays of sections keep their shape under vstr_sects_add(),         *)
(* vstr_sects_del(), the splits, the updates and a callback that calls any *)
(* of them, and vstr_sects_foreach() never looks outside of its array, as  *)
(* long as no vstr_sects_del() of its callback makes that array too small  *)
(* for the section the callback was called for.                            *)
THEOREM SectsKept == ~AnyDel => (Spec => []SectsInv)
<1> SUFFICES ASSUME ~AnyDel PROVE Spec => []SectsInv
  OBVIOUS
<1>1. Init => IInv
  BY InitInv
<1>2. IInv /\ [Next]_vars => IInv'
  BY NextInv
<1>3. IInv => SectsInv
  BY InvImplies
<1> QED BY <1>1, <1>2, <1>3, PTL DEF Spec

(* vstr_sects_foreach() has called its callback for every section it began *)
(* with that is still there when its loop is over, in either direction and *)
(* whatever the callback does to the string and to the sections, also when *)
(* it makes the array smaller that is gone through.                        *)
THEOREM EverySectVisited == Spec => []ForeachVisits
<1>1. Init => IInv
  BY InitInv
<1>2. IInv /\ [Next]_vars => IInv'
  BY NextInv
<1>3. IInv => ForeachVisits
  BY InvImplies
<1> QED BY <1>1, <1>2, <1>3, PTL DEF Spec

(* vstr__sects_update_cb() keeps a section on its bytes through every add, *)
(* and every delete but the ones it is known to get wrong (PlainDel).      *)
THEOREM SectsFollow == ~AnyUpdate => (Spec => []SectsTrack)
<1> SUFFICES ASSUME ~AnyUpdate PROVE Spec => []SectsTrack
  OBVIOUS
<1>1. Init => IInv /\ Track
  BY InitInv
<1>2. IInv /\ Track /\ [Next]_vars => (IInv /\ Track)'
  BY NextInv
<1>3. IInv /\ Track => SectsTrack
  BY TrackImplies
<1> QED BY <1>1, <1>2, <1>3, PTL DEF Spec

=============================================================================
