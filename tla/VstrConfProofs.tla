--------------------------- MODULE VstrConfProofs ---------------------------
(***************************************************************************)
(* Proofs about VstrConf, for every number of configurations, strings,     *)
(* nodes and blocks of links, every size of a block and every set of user  *)
(* caches.                                                                 *)
(***************************************************************************)
EXTENDS VstrConf, VstrFacts

ConfRec == [st : {"none", "live", "freed"}, ref : Nat, user_ref : Nat,
            buf_sz : BufSizes, grpalloc : Grps, ref_link : Link \cup {Nil},
            cbs : Seq(Caches)]

BaseRec == [st : {"none", "live", "spare"}, conf : Conf \cup {Nil}, grp : Grps,
            data : [Slots -> Caches \cup {Nil}]]

NodeRec == [st : {"none", "spare", "base", "export"}, sz : BufSizes,
            in : Conf \cup Base \cup Link \cup {Nil}]

LinkRec == [conf : Conf \cup {Nil}, l_ref : Nat]

(* What counts for a configuration or a block of links, in any state of    *)
(* the strings, blocks and nodes: one call passes through several states   *)
(* before it returns.                                                      *)
LiveB(bs, c) == {b \in Base : bs[b].st = "live" /\ bs[b].conf = c}

LinksOf(ls, c) == {l \in Link : ls[l].conf = c}

Exported(ns, l) == {n \in Node : ns[n].st = "export" /\ ns[n].in = l}

Types(cs, bs, ns, ls, d, us) ==
  /\ cs \in [Conf -> ConfRec] /\ bs \in [Base -> BaseRec]
  /\ ns \in [Node -> NodeRec] /\ ls \in [Link -> LinkRec]
  /\ d \in Conf \cup {Nil} /\ us \in [Conf -> Nat]

(* Whatever exists belongs somewhere: a node of a string to a live one. *)
Homes(bs, ns) ==
  /\ \A b \in Base : bs[b].st # "none" => bs[b].conf \in Conf
  /\ \A n \in Node :
       /\ ns[n].st = "spare" => ns[n].in \in Conf
       /\ ns[n].st = "base" => ns[n].in \in Base /\ bs[ns[n].in].st = "live"
       /\ ns[n].st = "export" => ns[n].in \in Link

Refs(cs, bs, ls, d, us) ==
  \A c \in Conf :
    /\ cs[c].user_ref = us[c] + (IF d = c THEN 1 ELSE 0)
    /\ cs[c].ref = cs[c].user_ref + Cardinality(LiveB(bs, c))
                   + Cardinality(LinksOf(ls, c))

Alive(cs) == \A c \in Conf : cs[c].st = "live" <=> cs[c].ref > 0

(* No spare node or string is kept on a configuration that is none. *)
SparesOn(cs, bs, ns, sts) ==
  /\ \A b \in Base : bs[b].st = "spare" => cs[bs[b].conf].st \in sts
  /\ \A n \in Node : ns[n].st = "spare" => cs[ns[n].in].st \in sts

Blocks(cs, ns, ls) ==
  /\ \A l \in Link :
       /\ ls[l].l_ref = Cardinality(Exported(ns, l))
       /\ ls[l].l_ref <= LinkSz
       /\ ls[l].conf # Nil <=> ls[l].l_ref > 0
  /\ \A c \in Conf : cs[c].ref_link # Nil =>
       ls[cs[c].ref_link].conf = c /\ ls[cs[c].ref_link].l_ref < LinkSz

(* The size of the nodes, and what a spare string looks like. *)
Fit(cs, bs, ns, ls) ==
  /\ \A n \in Node :
       /\ ns[n].st = "spare" => ns[n].sz = cs[ns[n].in].buf_sz
       /\ ns[n].st = "base" => ns[n].sz = cs[bs[ns[n].in].conf].buf_sz
       /\ ns[n].st = "export" => ns[n].sz = cs[ls[ns[n].in].conf].buf_sz
  /\ \A b \in Base : bs[b].st = "spare" =>
       bs[b].grp = cs[bs[b].conf].grpalloc /\ bs[b].data = NoData

(* The invariant, and what it is in the middle of a call, when the spare   *)
(* nodes and strings of a configuration that is freed are not yet gone.    *)
InvOf(cs, bs, ns, ls, d, us, sts) ==
  /\ Types(cs, bs, ns, ls, d, us)
  /\ Homes(bs, ns)
  /\ Refs(cs, bs, ls, d, us)
  /\ Alive(cs)
  /\ SparesOn(cs, bs, ns, sts)
  /\ Blocks(cs, ns, ls)
  /\ Fit(cs, bs, ns, ls)

Kept == {"live"}
Leaving == {"live", "freed"}

IInv == InvOf(conf, base, node, link, def, users, Kept)

-----------------------------------------------------------------------------
(* Counting *)

(* The strings and links that are counted are finitely many. *)
LEMMA CountsFinite ==
  ASSUME NEW x
  PROVE  /\ \A bs : IsFiniteSet(LiveB(bs, x)) /\ Cardinality(LiveB(bs, x)) \in Nat
         /\ \A ls : IsFiniteSet(LinksOf(ls, x)) /\ Cardinality(LinksOf(ls, x)) \in Nat
         /\ \A ns : IsFiniteSet(Exported(ns, x)) /\ Cardinality(Exported(ns, x)) \in Nat
<1>1. IsFiniteSet(Base) /\ IsFiniteSet(Link) /\ IsFiniteSet(Node)
  BY ConfAssumption
<1>2. /\ \A bs : LiveB(bs, x) \in SUBSET Base
      /\ \A ls : LinksOf(ls, x) \in SUBSET Link
      /\ \A ns : Exported(ns, x) \in SUBSET Node
  BY DEF LiveB, LinksOf, Exported
<1> QED
  BY <1>1, <1>2, FS_Subset, FS_CardinalityType

(* No reference but the users': nothing else depends on c. *)
LEMMA NoneCounted ==
  ASSUME NEW bs, NEW ls, NEW c,
         Cardinality(LiveB(bs, c)) + Cardinality(LinksOf(ls, c)) = 0
  PROVE  LiveB(bs, c) = {} /\ LinksOf(ls, c) = {}
BY CountsFinite, FS_EmptySet

(* Taking the spares of freed configurations away ends a call. *)
LEMMA SweepInv ==
  ASSUME NEW cs, NEW bs, NEW ns, NEW ls, NEW d, NEW us,
         InvOf(cs, bs, ns, ls, d, us, Leaving)
  PROVE  InvOf(cs, BasesLeft(cs, bs), NodesLeft(cs, ns), ls, d, us, Kept)
<1> DEFINE fs == BasesLeft(cs, bs)
           ms == NodesLeft(cs, ns)
<1>1. /\ cs \in [Conf -> ConfRec] /\ bs \in [Base -> BaseRec]
      /\ ns \in [Node -> NodeRec] /\ ls \in [Link -> LinkRec]
      /\ d \in Conf \cup {Nil} /\ us \in [Conf -> Nat]
  BY DEF InvOf, Types
<1>2. /\ NoBase \in BaseRec /\ NoNode \in NodeRec
      /\ NoBase.st = "none" /\ NoNode.st = "none"
  BY ConfAssumption DEF NoBase, NoNode, BaseRec, NodeRec, NoData
<1>3. \A b \in Base : fs[b] = IF bs[b].st = "spare" /\ cs[bs[b].conf].st = "freed"
                              THEN NoBase ELSE bs[b]
  BY DEF BasesLeft
<1>4. \A n \in Node : ms[n] = IF ns[n].st = "spare" /\ cs[ns[n].in].st = "freed"
                              THEN NoNode ELSE ns[n]
  BY DEF NodesLeft
<1>5. fs \in [Base -> BaseRec]
  BY <1>1, <1>2 DEF BasesLeft
<1>6. ms \in [Node -> NodeRec]
  BY <1>1, <1>2 DEF NodesLeft
<1> HIDE DEF fs, ms
<1>7. \A c : LiveB(fs, c) = LiveB(bs, c)
  BY <1>2, <1>3 DEF LiveB
<1>8. \A l : Exported(ms, l) = Exported(ns, l)
  BY <1>2, <1>4 DEF Exported
<1>9. Homes(fs, ms)
  BY <1>2, <1>3, <1>4 DEF InvOf, Homes
<1>10. Refs(cs, fs, ls, d, us)
  BY <1>7 DEF InvOf, Refs
<1>11. SparesOn(cs, fs, ms, Kept)
  BY <1>2, <1>3, <1>4 DEF InvOf, SparesOn, Kept, Leaving
<1>12. Blocks(cs, ms, ls)
  BY <1>8 DEF InvOf, Blocks
<1>13. Fit(cs, fs, ms, ls)
  <2>1. \A n \in Node : ms[n].st # "none" => ms[n] = ns[n]
    BY <1>2, <1>4
  <2>2. \A b \in Base : fs[b].st # "none" => fs[b] = bs[b]
    BY <1>2, <1>3
  <2>3. \A n \in Node : ms[n].st = "base" => fs[ms[n].in] = bs[ms[n].in]
    BY <2>1, <2>2, <1>9 DEF Homes
  <2> QED
    BY <2>1, <2>2, <2>3 DEF InvOf, Fit
<1> QED
  BY <1>1, <1>5, <1>6, <1>9, <1>10, <1>11, <1>12, <1>13 DEF InvOf, Types, fs, ms

(* Every node and string that exists has its home on a live configuration. *)
LEMMA HomesLive ==
  ASSUME NEW cs, NEW bs, NEW ns, NEW ls, NEW d, NEW us,
         InvOf(cs, bs, ns, ls, d, us, Kept)
  PROVE  /\ \A b \in Base : bs[b].st # "none" =>
              bs[b].conf \in Conf /\ cs[bs[b].conf].st = "live"
         /\ \A l \in Link : ls[l].conf # Nil =>
              ls[l].conf \in Conf /\ cs[ls[l].conf].st = "live"
         /\ \A n \in Node :
              /\ ns[n].st = "spare" => ns[n].in \in Conf /\ cs[ns[n].in].st = "live"
              /\ ns[n].st = "base" =>
                   /\ ns[n].in \in Base /\ bs[ns[n].in].conf \in Conf
                   /\ cs[bs[ns[n].in].conf].st = "live"
              /\ ns[n].st = "export" =>
                   /\ ns[n].in \in Link /\ ls[ns[n].in].conf \in Conf
                   /\ cs[ls[ns[n].in].conf].st = "live"
         /\ \A c \in Conf : us[c] > 0 \/ d = c => cs[c].st = "live"
<1>1. Types(cs, bs, ns, ls, d, us) /\ Homes(bs, ns) /\ Refs(cs, bs, ls, d, us)
      /\ Alive(cs) /\ SparesOn(cs, bs, ns, Kept) /\ Blocks(cs, ns, ls)
  BY DEF InvOf
<1>2. \A c \in Conf : us[c] \in Nat
  BY <1>1 DEF Types
<1>3. ASSUME NEW c \in Conf, LiveB(bs, c) # {} \/ LinksOf(ls, c) # {} \/ us[c] > 0 \/ d = c
      PROVE  cs[c].st = "live"
  <2>1. /\ Cardinality(LiveB(bs, c)) \in Nat /\ Cardinality(LinksOf(ls, c)) \in Nat
        /\ LiveB(bs, c) # {} => Cardinality(LiveB(bs, c)) > 0
        /\ LinksOf(ls, c) # {} => Cardinality(LinksOf(ls, c)) > 0
    BY CountsFinite, FS_EmptySet
  <2>2. cs[c].ref = us[c] + (IF d = c THEN 1 ELSE 0) + Cardinality(LiveB(bs, c))
                    + Cardinality(LinksOf(ls, c))
    BY <1>1 DEF Refs
  <2>3. cs[c].ref > 0
    BY <1>2, <1>3, <2>1, <2>2
  <2> QED BY <1>1, <2>3 DEF Alive
<1>4. \A b \in Base : bs[b].st # "none" =>
              bs[b].conf \in Conf /\ cs[bs[b].conf].st = "live"
  <2> SUFFICES ASSUME NEW b \in Base, bs[b].st # "none"
               PROVE  bs[b].conf \in Conf /\ cs[bs[b].conf].st = "live"
    OBVIOUS
  <2>1. bs[b].conf \in Conf
    BY <1>1 DEF Homes
  <2>2. CASE bs[b].st = "spare"
    BY <1>1, <2>1, <2>2 DEF SparesOn, Kept
  <2>3. CASE bs[b].st = "live"
    <3>1. b \in LiveB(bs, bs[b].conf)
      BY <2>3 DEF LiveB
    <3> QED BY <1>3, <2>1, <3>1
  <2>4. bs[b].st \in {"none", "live", "spare"}
    BY <1>1 DEF Types, BaseRec
  <2> QED BY <2>1, <2>2, <2>3, <2>4
<1>5. \A l \in Link : ls[l].conf # Nil =>
              ls[l].conf \in Conf /\ cs[ls[l].conf].st = "live"
  <2> SUFFICES ASSUME NEW l \in Link, ls[l].conf # Nil
               PROVE  ls[l].conf \in Conf /\ cs[ls[l].conf].st = "live"
    OBVIOUS
  <2>1. ls[l].conf \in Conf
    BY <1>1 DEF Types, LinkRec
  <2>2. l \in LinksOf(ls, ls[l].conf)
    BY DEF LinksOf
  <2> QED BY <1>3, <2>1, <2>2
<1>6. \A n \in Node : ns[n].st = "export" => ls[ns[n].in].conf # Nil
  <2> SUFFICES ASSUME NEW n \in Node, ns[n].st = "export"
               PROVE  ls[ns[n].in].conf # Nil
    OBVIOUS
  <2>1. ns[n].in \in Link /\ n \in Exported(ns, ns[n].in)
    BY <1>1 DEF Homes, Exported
  <2>2. Cardinality(Exported(ns, ns[n].in)) > 0
    BY <2>1, CountsFinite, FS_EmptySet
  <2> QED BY <1>1, <2>1, <2>2 DEF Blocks
<1>7. \A n \in Node : ns[n].st = "spare" => ns[n].in \in Conf /\ cs[ns[n].in].st = "live"
  BY <1>1 DEF Homes, SparesOn, Kept
<1>8. \A n \in Node : ns[n].st = "base" =>
                   /\ ns[n].in \in Base /\ bs[ns[n].in].conf \in Conf
                   /\ cs[bs[ns[n].in].conf].st = "live"
  BY <1>1, <1>4 DEF Homes
<1>9. \A n \in Node : ns[n].st = "export" =>
                   /\ ns[n].in \in Link /\ ls[ns[n].in].conf \in Conf
                   /\ cs[ls[ns[n].in].conf].st = "live"
  BY <1>1, <1>5, <1>6 DEF Homes
<1> QED BY <1>3, <1>4, <1>5, <1>7, <1>8, <1>9

(* A new configuration has one reference, the one of its user. *)
LEMMA NewConfType ==
  /\ NewConf \in ConfRec /\ NoConf \in ConfRec
  /\ NewConf.st = "live" /\ NewConf.ref = 1 /\ NewConf.user_ref = 1
  /\ NewConf.ref_link = Nil /\ NewConf.cbs = <<>>
  /\ NoConf.st = "none" /\ NoConf.ref = 0 /\ NoConf.user_ref = 0 /\ NoConf.ref_link = Nil
<1>1. /\ NoConf \in ConfRec
      /\ NoConf.st = "none" /\ NoConf.ref = 0 /\ NoConf.user_ref = 0
      /\ NoConf.ref_link = Nil /\ NoConf.cbs = <<>>
  BY ConfAssumption DEF NoConf, ConfRec
<1>2. NewConf \in ConfRec
  BY <1>1 DEF NewConf, ConfRec
<1>3. NewConf.st = "live" /\ NewConf.ref = 1 /\ NewConf.user_ref = 1
  BY <1>1 DEF NewConf, ConfRec
<1>4. NewConf.ref_link = Nil /\ NewConf.cbs = <<>>
  BY <1>1 DEF NewConf, ConfRec
<1> QED
  BY <1>1, <1>2, <1>3, <1>4

(* What vstr_init() leaves satisfies the invariant. *)
LEMMA InitInv == Init => IInv
<1> SUFFICES ASSUME Init PROVE IInv
  OBVIOUS
<1>1. PICK c \in Conf : conf = [d \in Conf |-> IF d = c THEN NewConf ELSE NoConf]
                        /\ def = c
  BY DEF Init
<1>2. /\ base = [b \in Base |-> NoBase] /\ node = [n \in Node |-> NoNode]
      /\ link = [l \in Link |-> NoLink] /\ users = [x \in Conf |-> 0]
  BY DEF Init
<1>3. /\ NoBase \in BaseRec /\ NoNode \in NodeRec /\ NoLink \in LinkRec
      /\ NoBase.st = "none" /\ NoNode.st = "none" /\ NoLink.conf = Nil /\ NoLink.l_ref = 0
  BY ConfAssumption DEF NoBase, NoNode, NoLink, BaseRec, NodeRec, LinkRec, NoData
<1>4. Types(conf, base, node, link, def, users)
  BY <1>1, <1>2, <1>3, NewConfType DEF Types
<1>5. Homes(base, node) /\ SparesOn(conf, base, node, Kept)
  BY <1>2, <1>3 DEF Homes, SparesOn
<1>6. /\ \A x \in Conf : LiveB(base, x) = {} /\ LinksOf(link, x) = {}
      /\ \A l \in Link : Exported(node, l) = {}
  BY <1>2, <1>3, ConfAssumption DEF LiveB, LinksOf, Exported
<1>7. Refs(conf, base, link, def, users)
  <2>1. \A x \in Conf : Cardinality(LiveB(base, x)) = 0 /\ Cardinality(LinksOf(link, x)) = 0
    BY <1>6, FS_EmptySet
  <2>2. \A x \in Conf : conf[x].ref = conf[x].user_ref
                        /\ conf[x].user_ref = 0 + (IF def = x THEN 1 ELSE 0)
    BY <1>1, NewConfType
  <2>3. \A x \in Conf : users[x] = 0
    BY <1>2
  <2> QED BY <2>1, <2>2, <2>3 DEF Refs
<1>8. Alive(conf)
  BY <1>1, NewConfType DEF Alive
<1>9. Blocks(conf, node, link)
  <2>1. \A x \in Conf : conf[x].ref_link = Nil
    BY <1>1, NewConfType
  <2>2. \A l \in Link : link[l].l_ref = 0 /\ link[l].conf = Nil
                        /\ Cardinality(Exported(node, l)) = 0
    BY <1>2, <1>3, <1>6, FS_EmptySet
  <2> QED BY <2>1, <2>2, ConfAssumption DEF Blocks
<1>10. Fit(conf, base, node, link)
  BY <1>2, <1>3 DEF Fit
<1> QED
  BY <1>4, <1>5, <1>7, <1>8, <1>9, <1>10 DEF IInv, InvOf

(* The invariant says what the properties of VstrConf say. *)
LEMMA InvImplies == IInv => ConfInv /\ SparesFit
<1> SUFFICES ASSUME IInv PROVE ConfInv /\ SparesFit
  OBVIOUS
<1>1. InvOf(conf, base, node, link, def, users, Kept)
  BY DEF IInv
<1>2. TypeOK
  BY <1>1 DEF InvOf, Types, TypeOK, ConfRec, BaseRec, NodeRec, LinkRec
<1>3. RefExact
  BY <1>1 DEF InvOf, Refs, RefExact, LiveB, LiveBases, LinksOf, Links
<1>4. NoDangling
  <2> SUFFICES ASSUME NEW c \in Conf
               PROVE  /\ conf[c].st # "live" =>
                           /\ ~Named(c) /\ LiveBases(c) = {} /\ Links(c) = {}
                           /\ SpareBases(c) = {} /\ SpareNodes(c) = {}
                      /\ conf[c].st = "live" => conf[c].ref > 0
    BY DEF NoDangling
  <2>1. conf[c].st = "live" => conf[c].ref > 0
    BY <1>1 DEF InvOf, Alive
  <2>2. ASSUME conf[c].st # "live"
        PROVE  /\ ~Named(c) /\ LiveBases(c) = {} /\ Links(c) = {}
               /\ SpareBases(c) = {} /\ SpareNodes(c) = {}
    <3>1. c # Nil
      BY ConfAssumption
    <3> QED
      BY <1>1, <2>2, <3>1, HomesLive DEF Named, LiveBases, Links, SpareBases, SpareNodes
  <2> QED BY <2>1, <2>2
<1>5. LinksExact
  BY <1>1 DEF InvOf, Blocks, LinksExact, Exported
<1>6. SparesFit
  <2>1. \A n \in Node : node[n].st \in {"none", "spare", "base", "export"}
    BY <1>1 DEF InvOf, Types, NodeRec
  <2>2. \A n \in Node : node[n].st # "none" => node[n].sz = conf[HomeOf(n)].buf_sz
    BY <1>1, <2>1 DEF InvOf, Fit, HomeOf
  <2>3. \A c \in Conf : \A b \in SpareBases(c) : base[b].grp = conf[c].grpalloc
    BY <1>1 DEF InvOf, Fit, SpareBases
  <2> QED BY <2>2, <2>3 DEF SparesFit
<1> QED
  BY <1>2, <1>3, <1>4, <1>5, <1>6 DEF ConfInv

-----------------------------------------------------------------------------
(* Counting one reference up or down *)

(* Two states of the configurations that keep the same things. *)
SameShape(cs, ds) ==
  \A x \in Conf : /\ ds[x].buf_sz = cs[x].buf_sz /\ ds[x].grpalloc = cs[x].grpalloc
                  /\ ds[x].ref_link = cs[x].ref_link /\ ds[x].cbs = cs[x].cbs

(* vstr__add_conf() counts one reference more. *)
LEMMA AddConfIs ==
  ASSUME NEW cs \in [Conf -> ConfRec], NEW c \in Conf
  PROVE  LET ds == AddConf(cs, c) IN
         /\ ds \in [Conf -> ConfRec] /\ SameShape(cs, ds)
         /\ \A x \in Conf : /\ ds[x].st = cs[x].st /\ ds[x].user_ref = cs[x].user_ref
                            /\ ds[x].ref = cs[x].ref + (IF x = c THEN 1 ELSE 0)
<1> DEFINE r == [cs[c] EXCEPT !.ref = @ + 1]
<1>1. /\ \A x \in Conf : cs[x] \in ConfRec /\ cs[x].ref \in Nat
      /\ cs[c].ref + 1 \in Nat
  BY DEF ConfRec
<1>2. AddConf(cs, c) = [cs EXCEPT ![c] = r]
  BY DEF AddConf
<1>3. r \in ConfRec
  BY <1>1 DEF ConfRec
<1>4. r.st = cs[c].st /\ r.user_ref = cs[c].user_ref /\ r.ref = cs[c].ref + 1
  BY <1>1 DEF ConfRec
<1>5. /\ r.buf_sz = cs[c].buf_sz /\ r.grpalloc = cs[c].grpalloc
      /\ r.ref_link = cs[c].ref_link /\ r.cbs = cs[c].cbs
  BY <1>1 DEF ConfRec
<1> HIDE DEF r
<1> QED
  BY <1>1, <1>2, <1>3, <1>4, <1>5 DEF SameShape

(* vstr_make_conf() giving out one that exists counts a user and a         *)
(* reference more.                                                         *)
LEMMA AddUserIs ==
  ASSUME NEW cs \in [Conf -> ConfRec], NEW c \in Conf
  PROVE  LET ds == AddUser(cs, c) IN
         /\ ds \in [Conf -> ConfRec] /\ SameShape(cs, ds)
         /\ \A x \in Conf : /\ ds[x].st = cs[x].st
                            /\ ds[x].user_ref = cs[x].user_ref + (IF x = c THEN 1 ELSE 0)
                            /\ ds[x].ref = cs[x].ref + (IF x = c THEN 1 ELSE 0)
<1> DEFINE r == [cs[c] EXCEPT !.ref = @ + 1, !.user_ref = @ + 1]
<1>1. /\ \A x \in Conf : cs[x] \in ConfRec /\ cs[x].ref \in Nat /\ cs[x].user_ref \in Nat
      /\ cs[c].ref + 1 \in Nat /\ cs[c].user_ref + 1 \in Nat
  BY DEF ConfRec
<1>2. AddUser(cs, c) = [cs EXCEPT ![c] = r]
  BY DEF AddUser
<1>3. r \in ConfRec
  BY <1>1 DEF ConfRec
<1>4. r.st = cs[c].st /\ r.user_ref = cs[c].user_ref + 1 /\ r.ref = cs[c].ref + 1
  BY <1>1 DEF ConfRec
<1>5. /\ r.buf_sz = cs[c].buf_sz /\ r.grpalloc = cs[c].grpalloc
      /\ r.ref_link = cs[c].ref_link /\ r.cbs = cs[c].cbs
  BY <1>1 DEF ConfRec
<1> HIDE DEF r
<1> QED
  BY <1>1, <1>2, <1>3, <1>4, <1>5 DEF SameShape

(* vstr__del_conf() counts one reference less, and frees with the last     *)
(* one.                                                                    *)
LEMMA DelConfIs ==
  ASSUME NEW cs \in [Conf -> ConfRec], NEW c \in Conf, cs[c].ref > 0
  PROVE  LET ds == DelConf(cs, c) IN
         /\ ds \in [Conf -> ConfRec] /\ SameShape(cs, ds)
         /\ \A x \in Conf : /\ ds[x].st = IF x = c /\ cs[c].ref = 1 THEN "freed" ELSE cs[x].st
                            /\ ds[x].user_ref = cs[x].user_ref
                            /\ ds[x].ref = cs[x].ref - (IF x = c THEN 1 ELSE 0)
<1> DEFINE r == [cs[c] EXCEPT !.ref = @ - 1, !.st = IF cs[c].ref = 1 THEN "freed" ELSE @]
<1>1. /\ \A x \in Conf : cs[x] \in ConfRec /\ cs[x].ref \in Nat
      /\ cs[c].ref - 1 \in Nat
  BY DEF ConfRec
<1>2. DelConf(cs, c) = [cs EXCEPT ![c] = r]
  BY DEF DelConf
<1>3. r \in ConfRec
  BY <1>1 DEF ConfRec
<1>4. r.st = IF cs[c].ref = 1 THEN "freed" ELSE cs[c].st
  BY <1>1 DEF ConfRec
<1>5. r.user_ref = cs[c].user_ref /\ r.ref = cs[c].ref - 1
  BY <1>1 DEF ConfRec
<1>6. /\ r.buf_sz = cs[c].buf_sz /\ r.grpalloc = cs[c].grpalloc
      /\ r.ref_link = cs[c].ref_link /\ r.cbs = cs[c].cbs
  BY <1>1 DEF ConfRec
<1> HIDE DEF r
<1> QED
  BY <1>1, <1>2, <1>3, <1>4, <1>5, <1>6 DEF SameShape

(* vstr_free_conf() counts a user and a reference less, and frees with the *)
(* last one.                                                               *)
LEMMA FreeUserIs ==
  ASSUME NEW cs \in [Conf -> ConfRec], NEW c \in Conf, cs[c].ref > 0, cs[c].user_ref > 0
  PROVE  LET ds == FreeUser(cs, c) IN
         /\ ds \in [Conf -> ConfRec] /\ SameShape(cs, ds)
         /\ \A x \in Conf : /\ ds[x].st = IF x = c /\ cs[c].ref = 1 THEN "freed" ELSE cs[x].st
                            /\ ds[x].user_ref = cs[x].user_ref - (IF x = c THEN 1 ELSE 0)
                            /\ ds[x].ref = cs[x].ref - (IF x = c THEN 1 ELSE 0)
<1> DEFINE es == [cs EXCEPT ![c].user_ref = @ - 1]
           r == [cs[c] EXCEPT !.user_ref = @ - 1]
<1>1. /\ \A x \in Conf : cs[x] \in ConfRec /\ cs[x].user_ref \in Nat
      /\ cs[c].user_ref - 1 \in Nat
  BY DEF ConfRec
<1>2. es = [cs EXCEPT ![c] = r]
  OBVIOUS
<1>3. r \in ConfRec
  BY <1>1 DEF ConfRec
<1>4. r.st = cs[c].st /\ r.user_ref = cs[c].user_ref - 1 /\ r.ref = cs[c].ref
  BY <1>1 DEF ConfRec
<1>5. /\ r.buf_sz = cs[c].buf_sz /\ r.grpalloc = cs[c].grpalloc
      /\ r.ref_link = cs[c].ref_link /\ r.cbs = cs[c].cbs
  BY <1>1 DEF ConfRec
<1>6. FreeUser(cs, c) = DelConf(es, c)
  BY DEF FreeUser
<1> HIDE DEF r, es
<1>7. /\ es \in [Conf -> ConfRec] /\ SameShape(cs, es)
      /\ \A x \in Conf : /\ es[x].st = cs[x].st /\ es[x].ref = cs[x].ref
                         /\ es[x].user_ref = cs[x].user_ref - (IF x = c THEN 1 ELSE 0)
  BY <1>1, <1>2, <1>3, <1>4, <1>5 DEF SameShape
<1> QED
  BY <1>6, <1>7, DelConfIs DEF SameShape

-----------------------------------------------------------------------------
(* Steps that change configurations and handles only *)

(* What is on a configuration stays right when the configurations change   *)
(* nothing but their counts, by as much as the handles do.                 *)
LEMMA ConfOnly ==
  ASSUME NEW cs, NEW bs, NEW ns, NEW ls, NEW d, NEW us, NEW ds, NEW e, NEW vs,
         NEW sts, InvOf(cs, bs, ns, ls, d, us, Kept),
         ds \in [Conf -> ConfRec], e \in Conf \cup {Nil}, vs \in [Conf -> Nat],
         \A x \in Conf : cs[x].st = "live" =>
            /\ ds[x].buf_sz = cs[x].buf_sz /\ ds[x].grpalloc = cs[x].grpalloc
            /\ ds[x].st \in sts,
         \A x \in Conf : ds[x].ref_link \in {cs[x].ref_link, Nil},
         \A x \in Conf : /\ ds[x].user_ref = vs[x] + (IF e = x THEN 1 ELSE 0)
                         /\ ds[x].ref + cs[x].user_ref = cs[x].ref + ds[x].user_ref,
         Alive(ds)
  PROVE  InvOf(ds, bs, ns, ls, e, vs, sts)
<1>1. Types(cs, bs, ns, ls, d, us) /\ Homes(bs, ns) /\ Refs(cs, bs, ls, d, us)
      /\ Alive(cs) /\ SparesOn(cs, bs, ns, Kept) /\ Blocks(cs, ns, ls)
      /\ Fit(cs, bs, ns, ls)
  BY DEF InvOf
<1>2. Types(ds, bs, ns, ls, e, vs)
  BY <1>1 DEF Types
<1>3. Refs(ds, bs, ls, e, vs)
  <2> SUFFICES ASSUME NEW x \in Conf
               PROVE  /\ ds[x].user_ref = vs[x] + (IF e = x THEN 1 ELSE 0)
                      /\ ds[x].ref = ds[x].user_ref + Cardinality(LiveB(bs, x))
                                     + Cardinality(LinksOf(ls, x))
    BY DEF Refs
  <2>1. /\ cs[x].ref \in Nat /\ cs[x].user_ref \in Nat
        /\ ds[x].ref \in Nat /\ ds[x].user_ref \in Nat
    BY <1>1 DEF Types, ConfRec
  <2>2. Cardinality(LiveB(bs, x)) \in Nat /\ Cardinality(LinksOf(ls, x)) \in Nat
    BY CountsFinite
  <2>3. cs[x].ref = cs[x].user_ref + Cardinality(LiveB(bs, x)) + Cardinality(LinksOf(ls, x))
    BY <1>1 DEF Refs
  <2> QED BY <2>1, <2>2, <2>3
<1>4. SparesOn(ds, bs, ns, sts)
  BY <1>1 DEF SparesOn, Homes, Kept
<1>5. Blocks(ds, ns, ls)
  BY <1>1 DEF Blocks
<1>6. Fit(ds, bs, ns, ls)
  <2>1. \A n \in Node :
       /\ ns[n].st = "spare" => ns[n].sz = ds[ns[n].in].buf_sz
       /\ ns[n].st = "base" => ns[n].sz = ds[bs[ns[n].in].conf].buf_sz
       /\ ns[n].st = "export" => ns[n].sz = ds[ls[ns[n].in].conf].buf_sz
    BY <1>1, HomesLive DEF Fit
  <2>2. \A b \in Base : bs[b].st = "spare" =>
       bs[b].grp = ds[bs[b].conf].grpalloc /\ bs[b].data = NoData
    BY <1>1, HomesLive DEF Fit
  <2> QED BY <2>1, <2>2 DEF Fit
<1> QED
  BY <1>1, <1>2, <1>3, <1>4, <1>5, <1>6 DEF InvOf

(* What the invariant says of the counts of one configuration. *)
LEMMA CountsOf ==
  ASSUME IInv, NEW c \in Conf
  PROVE  /\ conf \in [Conf -> ConfRec] /\ users \in [Conf -> Nat]
         /\ def \in Conf \cup {Nil} /\ c # Nil
         /\ conf[c].ref \in Nat /\ conf[c].user_ref \in Nat /\ users[c] \in Nat
         /\ conf[c].user_ref = users[c] + (IF def = c THEN 1 ELSE 0)
         /\ conf[c].user_ref <= conf[c].ref
         /\ conf[c].st = "live" <=> conf[c].ref > 0
<1>1. Types(conf, base, node, link, def, users) /\ Refs(conf, base, link, def, users)
      /\ Alive(conf)
  BY DEF IInv, InvOf
<1>2. /\ conf \in [Conf -> ConfRec] /\ users \in [Conf -> Nat]
      /\ def \in Conf \cup {Nil} /\ c # Nil
  BY <1>1, ConfAssumption DEF Types
<1>3. conf[c].ref \in Nat /\ conf[c].user_ref \in Nat /\ users[c] \in Nat
  BY <1>2 DEF ConfRec
<1>4. Cardinality(LiveB(base, c)) \in Nat /\ Cardinality(LinksOf(link, c)) \in Nat
  BY CountsFinite
<1>5. /\ conf[c].user_ref = users[c] + (IF def = c THEN 1 ELSE 0)
      /\ conf[c].ref = conf[c].user_ref + Cardinality(LiveB(base, c))
                       + Cardinality(LinksOf(link, c))
  BY <1>1 DEF Refs
<1>6. conf[c].user_ref <= conf[c].ref
  BY <1>3, <1>4, <1>5
<1>7. conf[c].st = "live" <=> conf[c].ref > 0
  BY <1>1 DEF Alive
<1> QED
  BY <1>2, <1>3, <1>5, <1>6, <1>7

(* A configuration that is made, for the user or as the default, keeps the *)
(* invariant.                                                              *)
LEMMA NewConfInv ==
  ASSUME IInv, NEW c \in Conf, conf[c].st = "none", NEW e, NEW vs,
         \/ e = def /\ vs = [users EXCEPT ![c] = 1]
         \/ def = Nil /\ e = c /\ vs = users
  PROVE  InvOf([conf EXCEPT ![c] = NewConf], base, node, link, e, vs, Kept)
<1> DEFINE ds == [conf EXCEPT ![c] = NewConf]
<1>1. InvOf(conf, base, node, link, def, users, Kept)
  BY DEF IInv
<1>2. conf[c].ref = 0 /\ conf[c].user_ref = 0 /\ users[c] = 0 /\ def # c
  BY CountsOf
<1>3. ds \in [Conf -> ConfRec] /\ e \in Conf \cup {Nil} /\ vs \in [Conf -> Nat]
  BY CountsOf, NewConfType
<1>4. \A x \in Conf : ds[x] = IF x = c THEN NewConf ELSE conf[x]
  BY CountsOf
<1>5. \A x \in Conf : conf[x].st = "live" =>
            /\ ds[x].buf_sz = conf[x].buf_sz /\ ds[x].grpalloc = conf[x].grpalloc
            /\ ds[x].st \in Kept
  BY <1>4 DEF Kept
<1>6. \A x \in Conf : ds[x].ref_link \in {conf[x].ref_link, Nil}
  BY <1>4, NewConfType
<1>7. \A x \in Conf : /\ ds[x].user_ref = vs[x] + (IF e = x THEN 1 ELSE 0)
                      /\ ds[x].ref + conf[x].user_ref = conf[x].ref + ds[x].user_ref
  <2> SUFFICES ASSUME NEW x \in Conf
               PROVE  /\ ds[x].user_ref = vs[x] + (IF e = x THEN 1 ELSE 0)
                      /\ ds[x].ref + conf[x].user_ref = conf[x].ref + ds[x].user_ref
    OBVIOUS
  <2>1. /\ conf[x].ref \in Nat /\ conf[x].user_ref \in Nat /\ users[x] \in Nat
        /\ users \in [Conf -> Nat] /\ x # Nil
        /\ conf[x].user_ref = users[x] + (IF def = x THEN 1 ELSE 0)
    BY CountsOf
  <2>2. CASE x = c
    BY <1>2, <1>4, <2>1, <2>2, NewConfType
  <2>3. CASE x # c
    <3>1. ds[x] = conf[x]
      BY <1>4, <2>3
    <3>2. vs[x] = users[x] /\ (e = x <=> def = x)
      BY <2>1, <2>3
    <3> HIDE DEF ds
    <3> QED BY <2>1, <3>1, <3>2
  <2> QED BY <2>2, <2>3
<1>8. Alive(ds)
  BY <1>4, NewConfType, CountsOf DEF Alive
<1> HIDE DEF ds
<1>9. InvOf(ds, base, node, link, e, vs, Kept)
  BY <1>1, <1>3, <1>5, <1>6, <1>7, <1>8, ConfOnly
<1> QED BY <1>9 DEF ds

(* vstr_make_conf() keeps the invariant. *)
LEMMA MakeConfInv ==
  ASSUME IInv, NEW c \in Conf, MakeConf(c)
  PROVE  IInv'
<1>1. /\ conf[c].st = "none" /\ conf' = [conf EXCEPT ![c] = NewConf]
      /\ users' = [users EXCEPT ![c] = 1]
      /\ base' = base /\ node' = node /\ link' = link /\ def' = def
  BY DEF MakeConf
<1>2. InvOf([conf EXCEPT ![c] = NewConf], base, node, link, def, [users EXCEPT ![c] = 1], Kept)
  BY <1>1, NewConfInv
<1> QED BY <1>1, <1>2 DEF IInv

(* vstr_init() after vstr_exit() keeps the invariant. *)
LEMMA InitAgainInv ==
  ASSUME IInv, NEW c \in Conf, InitAgain(c)
  PROVE  IInv'
<1>1. /\ conf[c].st = "none" /\ conf' = [conf EXCEPT ![c] = NewConf] /\ def = Nil
      /\ users' = users
      /\ base' = base /\ node' = node /\ link' = link /\ def' = c
  BY DEF InitAgain
<1>2. InvOf([conf EXCEPT ![c] = NewConf], base, node, link, c, users, Kept)
  BY <1>1, NewConfInv
<1> QED BY <1>1, <1>2 DEF IInv

(* A user taking another reference keeps the invariant. *)
LEMMA GetConfInv ==
  ASSUME IInv, NEW c \in Conf, GetConf(c)
  PROVE  IInv'
<1> DEFINE ds == AddUser(conf, c)
           vs == [users EXCEPT ![c] = @ + 1]
<1>1. InvOf(conf, base, node, link, def, users, Kept)
  BY DEF IInv
<1>2. conf[c].st = "live"
  <2>1. def = c \/ \E b \in Base : base[b].st = "live" /\ base[b].conf = c
    BY DEF GetConf, LiveBases
  <2> QED BY <1>1, <2>1, HomesLive
<1>3. /\ ds \in [Conf -> ConfRec] /\ SameShape(conf, ds)
      /\ \A x \in Conf : /\ ds[x].st = conf[x].st
                         /\ ds[x].user_ref = conf[x].user_ref + (IF x = c THEN 1 ELSE 0)
                         /\ ds[x].ref = conf[x].ref + (IF x = c THEN 1 ELSE 0)
  BY AddUserIs, CountsOf
<1>4. vs \in [Conf -> Nat] /\ \A x \in Conf : vs[x] = users[x] + (IF x = c THEN 1 ELSE 0)
  BY CountsOf
<1>5. /\ conf' = ds /\ users' = vs /\ def \in Conf \cup {Nil}
      /\ base' = base /\ node' = node /\ link' = link /\ def' = def
  BY CountsOf DEF GetConf
<1> HIDE DEF ds, vs
<1>6. \A x \in Conf : conf[x].st = "live" =>
            /\ ds[x].buf_sz = conf[x].buf_sz /\ ds[x].grpalloc = conf[x].grpalloc
            /\ ds[x].st \in Kept
  BY <1>3 DEF SameShape, Kept
<1>7. \A x \in Conf : ds[x].ref_link \in {conf[x].ref_link, Nil}
  BY <1>3 DEF SameShape
<1>8. \A x \in Conf : /\ ds[x].user_ref = vs[x] + (IF def = x THEN 1 ELSE 0)
                      /\ ds[x].ref + conf[x].user_ref = conf[x].ref + ds[x].user_ref
  BY <1>3, <1>4, CountsOf
<1>9. Alive(ds)
  BY <1>2, <1>3, CountsOf DEF Alive
<1>10. InvOf(ds, base, node, link, def, vs, Kept)
  BY <1>1, <1>3, <1>4, <1>5, <1>6, <1>7, <1>8, <1>9, ConfOnly
<1> QED BY <1>5, <1>10 DEF IInv

(* One handle of o is dropped: by its user, for another default, at exit. *)
LEMMA FreeUserInv ==
  ASSUME IInv, NEW o \in Conf, conf[o].user_ref > 0, NEW e, NEW vs,
         e \in Conf \cup {Nil}, vs \in [Conf -> Nat],
         \A x \in Conf : vs[x] + (IF e = x THEN 1 ELSE 0) =
           users[x] + (IF def = x THEN 1 ELSE 0) - (IF x = o THEN 1 ELSE 0)
  PROVE  InvOf(FreeUser(conf, o), base, node, link, e, vs, Leaving)
<1> DEFINE ds == FreeUser(conf, o)
<1>1. InvOf(conf, base, node, link, def, users, Kept)
  BY DEF IInv
<1>2. conf[o].ref > 0 /\ conf[o].st = "live"
  BY CountsOf
<1>3. /\ ds \in [Conf -> ConfRec] /\ SameShape(conf, ds)
      /\ \A x \in Conf : /\ ds[x].st = IF x = o /\ conf[o].ref = 1 THEN "freed" ELSE conf[x].st
                         /\ ds[x].user_ref = conf[x].user_ref - (IF x = o THEN 1 ELSE 0)
                         /\ ds[x].ref = conf[x].ref - (IF x = o THEN 1 ELSE 0)
  BY <1>2, FreeUserIs, CountsOf
<1> HIDE DEF ds
<1>6. \A x \in Conf : conf[x].st = "live" =>
            /\ ds[x].buf_sz = conf[x].buf_sz /\ ds[x].grpalloc = conf[x].grpalloc
            /\ ds[x].st \in Leaving
  BY <1>3 DEF SameShape, Leaving
<1>7. \A x \in Conf : ds[x].ref_link \in {conf[x].ref_link, Nil}
  BY <1>3 DEF SameShape
<1>8. \A x \in Conf : /\ ds[x].user_ref = vs[x] + (IF e = x THEN 1 ELSE 0)
                      /\ ds[x].ref + conf[x].user_ref = conf[x].ref + ds[x].user_ref
  BY <1>3, CountsOf, SMTT(30)
<1>9. Alive(ds)
  BY <1>2, <1>3, CountsOf DEF Alive
<1>10. InvOf(ds, base, node, link, e, vs, Leaving)
  BY <1>1, <1>3, <1>6, <1>7, <1>8, <1>9, ConfOnly
<1> QED BY <1>10 DEF ds

(* vstr_free_conf() keeps the invariant, also with the last reference. *)
LEMMA FreeConfInv ==
  ASSUME IInv, NEW c \in Conf, FreeConf(c)
  PROVE  IInv'
<1> DEFINE vs == [users EXCEPT ![c] = @ - 1]
<1>1. /\ conf' = FreeUser(conf, c) /\ users' = vs /\ users[c] > 0
      /\ node' = NodesLeft(conf', node) /\ base' = BasesLeft(conf', base)
      /\ link' = link /\ def' = def
  BY DEF FreeConf
<1>2. /\ vs \in [Conf -> Nat] /\ def \in Conf \cup {Nil} /\ conf[c].user_ref > 0
      /\ \A x \in Conf : vs[x] = users[x] - (IF x = c THEN 1 ELSE 0)
  BY <1>1, CountsOf
<1> HIDE DEF vs
<1>3. InvOf(FreeUser(conf, c), base, node, link, def, vs, Leaving)
  BY <1>2, CountsOf, FreeUserInv
<1> QED BY <1>1, <1>3, SweepInv DEF IInv

(* vstr_exit() keeps the invariant. *)
LEMMA ExitInv ==
  ASSUME IInv, Exit
  PROVE  IInv'
<1>1. /\ conf' = FreeUser(conf, def) /\ users' = users /\ def # Nil
      /\ node' = NodesLeft(conf', node) /\ base' = BasesLeft(conf', base)
      /\ link' = link /\ def' = Nil
  BY DEF Exit
<1>2. def \in Conf
  BY <1>1 DEF IInv, InvOf, Types
<1>3. /\ users \in [Conf -> Nat] /\ conf[def].user_ref > 0
      /\ \A x \in Conf : users[x] + (IF Nil = x THEN 1 ELSE 0) =
           users[x] + (IF def = x THEN 1 ELSE 0) - (IF x = def THEN 1 ELSE 0)
  BY <1>2, CountsOf
<1>4. InvOf(FreeUser(conf, def), base, node, link, Nil, users, Leaving)
  BY <1>2, <1>3, FreeUserInv
<1> QED BY <1>1, <1>4, SweepInv DEF IInv

(* Changing the default configuration keeps the invariant. *)
LEMMA SetDefConfInv ==
  ASSUME IInv, NEW c \in Conf, SetDefConf(c)
  PROVE  IInv'
<1> DEFINE es == FreeUser(conf, def)
           ds == AddUser(es, c)
<1>1. /\ conf' = ds /\ users' = users /\ def # Nil /\ def # c /\ users[c] > 0
      /\ node' = NodesLeft(conf', node) /\ base' = BasesLeft(conf', base)
      /\ link' = link /\ def' = c
  BY DEF SetDefConf
<1>2. InvOf(conf, base, node, link, def, users, Kept)
  BY DEF IInv
<1>3. def \in Conf /\ users \in [Conf -> Nat] /\ conf \in [Conf -> ConfRec]
  BY <1>1, <1>2 DEF InvOf, Types
<1>4. conf[def].user_ref > 0 /\ conf[def].ref > 0 /\ conf[def].st = "live"
  BY <1>3, CountsOf
<1>5. /\ es \in [Conf -> ConfRec] /\ SameShape(conf, es)
      /\ \A x \in Conf :
           /\ es[x].st = IF x = def /\ conf[def].ref = 1 THEN "freed" ELSE conf[x].st
           /\ es[x].user_ref = conf[x].user_ref - (IF x = def THEN 1 ELSE 0)
           /\ es[x].ref = conf[x].ref - (IF x = def THEN 1 ELSE 0)
  BY <1>3, <1>4, FreeUserIs
<1> HIDE DEF es
<1>6. /\ ds \in [Conf -> ConfRec] /\ SameShape(es, ds)
      /\ \A x \in Conf : /\ ds[x].st = es[x].st
                         /\ ds[x].user_ref = es[x].user_ref + (IF x = c THEN 1 ELSE 0)
                         /\ ds[x].ref = es[x].ref + (IF x = c THEN 1 ELSE 0)
  BY <1>5, AddUserIs
<1> HIDE DEF ds
<1>7. \A x \in Conf : conf[x].st = "live" =>
            /\ ds[x].buf_sz = conf[x].buf_sz /\ ds[x].grpalloc = conf[x].grpalloc
            /\ ds[x].st \in Leaving
  BY <1>5, <1>6 DEF SameShape, Leaving
<1>8. \A x \in Conf : ds[x].ref_link \in {conf[x].ref_link, Nil}
  BY <1>5, <1>6 DEF SameShape
<1>9. \A x \in Conf : /\ ds[x].user_ref = users[x] + (IF c = x THEN 1 ELSE 0)
                      /\ ds[x].ref + conf[x].user_ref = conf[x].ref + ds[x].user_ref
  BY <1>1, <1>3, <1>5, <1>6, CountsOf
<1>10. Alive(ds)
  <2>1. conf[c].ref > 0 /\ conf[c].st = "live"
    BY <1>1, CountsOf
  <2> QED BY <1>1, <1>3, <1>4, <1>5, <1>6, <2>1, CountsOf DEF Alive
<1>11. InvOf(ds, base, node, link, c, users, Leaving)
  BY <1>2, <1>3, <1>6, <1>7, <1>8, <1>9, <1>10, ConfOnly
<1> QED BY <1>1, <1>11, SweepInv DEF IInv

-----------------------------------------------------------------------------
(* Steps that change a string *)

(* A string counts for the configuration it is live on, and no other. *)
On(r, x) == IF r.st = "live" /\ r.conf = x THEN 1 ELSE 0

(* How the number of live strings of a configuration changes with one      *)
(* string.                                                                 *)
LEMMA LiveCard ==
  ASSUME NEW bs, NEW fs, NEW b \in Base, NEW x,
         \A a \in Base : a # b => fs[a] = bs[a]
  PROVE  Cardinality(LiveB(fs, x)) =
           Cardinality(LiveB(bs, x)) + On(fs[b], x) - On(bs[b], x)
<1> DEFINE S == LiveB(bs, x)
           T == LiveB(fs, x)
<1>1. IsFiniteSet(S)
  BY CountsFinite
<1>2. /\ On(bs[b], x) = IF b \in S THEN 1 ELSE 0
      /\ On(fs[b], x) = IF b \in T THEN 1 ELSE 0
  BY DEF LiveB, On
<1>3. \A a : a # b => (a \in S <=> a \in T)
  BY DEF LiveB
<1> HIDE DEF S, T
<1>4. Cardinality(T) = Cardinality(S) + (IF b \in T THEN 1 ELSE 0)
                       - (IF b \in S THEN 1 ELSE 0)
  BY <1>1, <1>3, CardMove
<1> QED BY <1>2, <1>4 DEF S, T

(* String b becomes r, with the configurations counting it. *)
Becomes(cs, bs, ns, d, ds, fs, vs, sts, b, r) ==
  /\ ds \in [Conf -> ConfRec] /\ vs \in [Conf -> Nat]
  /\ b \in Base /\ r \in BaseRec /\ fs = [bs EXCEPT ![b] = r]
  /\ r.st # "none" => r.conf \in Conf
  /\ \A n \in Node : ns[n].st = "base" /\ ns[n].in = b =>
       r.st = "live" /\ ds[r.conf].buf_sz = cs[bs[b].conf].buf_sz
  /\ r.st = "spare" => /\ ds[r.conf].st \in sts /\ r.data = NoData
                       /\ r.grp = ds[r.conf].grpalloc
  /\ \A x \in Conf : cs[x].st = "live" =>
       /\ ds[x].buf_sz = cs[x].buf_sz /\ ds[x].grpalloc = cs[x].grpalloc
       /\ ds[x].st \in sts
  /\ \A x \in Conf : ds[x].ref_link \in {cs[x].ref_link, Nil}
  /\ \A x \in Conf :
       /\ ds[x].user_ref = vs[x] + (IF d = x THEN 1 ELSE 0)
       /\ ds[x].ref + cs[x].user_ref + On(bs[b], x) =
          cs[x].ref + ds[x].user_ref + On(r, x)
  /\ Alive(ds)

(* A step that changes one string, and the counts accordingly, keeps the   *)
(* invariant.                                                              *)
LEMMA BaseStep ==
  ASSUME NEW cs, NEW bs, NEW ns, NEW ls, NEW d, NEW us, NEW ds, NEW fs, NEW vs, NEW sts,
         NEW b, NEW r, InvOf(cs, bs, ns, ls, d, us, Kept),
         Becomes(cs, bs, ns, d, ds, fs, vs, sts, b, r)
  PROVE  InvOf(ds, fs, ns, ls, d, vs, sts)
<1> USE DEF Becomes
<1>1. Types(cs, bs, ns, ls, d, us) /\ Homes(bs, ns) /\ Refs(cs, bs, ls, d, us)
      /\ Alive(cs) /\ SparesOn(cs, bs, ns, Kept) /\ Blocks(cs, ns, ls)
      /\ Fit(cs, bs, ns, ls)
  BY DEF InvOf
<1>2. Types(ds, fs, ns, ls, d, vs)
  BY <1>1 DEF Types
<1>3. Refs(ds, fs, ls, d, vs)
  <2> SUFFICES ASSUME NEW x \in Conf
               PROVE  /\ ds[x].user_ref = vs[x] + (IF d = x THEN 1 ELSE 0)
                      /\ ds[x].ref = ds[x].user_ref + Cardinality(LiveB(fs, x))
                                     + Cardinality(LinksOf(ls, x))
    BY DEF Refs
  <2>1. /\ cs[x].ref \in Nat /\ cs[x].user_ref \in Nat
        /\ ds[x].ref \in Nat /\ ds[x].user_ref \in Nat
    BY <1>1 DEF Types, ConfRec
  <2>2. Cardinality(LiveB(bs, x)) \in Nat /\ Cardinality(LinksOf(ls, x)) \in Nat
    BY CountsFinite
  <2>3. cs[x].ref = cs[x].user_ref + Cardinality(LiveB(bs, x)) + Cardinality(LinksOf(ls, x))
    BY <1>1 DEF Refs
  <2>4. Cardinality(LiveB(fs, x)) = Cardinality(LiveB(bs, x)) + On(r, x) - On(bs[b], x)
    <3>1. fs[b] = r /\ \A a \in Base : a # b => fs[a] = bs[a]
      BY <1>1 DEF Types
    <3>2. Cardinality(LiveB(fs, x)) = Cardinality(LiveB(bs, x)) + On(fs[b], x) - On(bs[b], x)
      BY ONLY b \in Base, <3>1, LiveCard, ZenonT(40)
    <3> QED BY <3>1, <3>2
  <2>5. On(r, x) \in Int /\ On(bs[b], x) \in Int
    BY DEF On
  <2>6. ds[x].ref + cs[x].user_ref + On(bs[b], x) = cs[x].ref + ds[x].user_ref + On(r, x)
    OBVIOUS
  <2> QED BY <2>1, <2>2, <2>3, <2>4, <2>5, <2>6
<1>4. \A a \in Base : fs[a] = IF a = b THEN r ELSE bs[a]
  BY <1>1 DEF Types
<1>5. Homes(fs, ns)
  BY <1>1, <1>4 DEF Homes
<1>6. SparesOn(ds, fs, ns, sts)
  BY <1>1, <1>4 DEF SparesOn, Homes, Kept
<1>7. Blocks(ds, ns, ls)
  BY <1>1 DEF Blocks
<1>8. Fit(ds, fs, ns, ls)
  <2>1. \A n \in Node : ns[n].st = "spare" => ns[n].sz = ds[ns[n].in].buf_sz
    BY <1>1, HomesLive DEF Fit
  <2>2. \A n \in Node : ns[n].st = "export" => ns[n].sz = ds[ls[ns[n].in].conf].buf_sz
    BY <1>1, HomesLive DEF Fit
  <2>3. \A n \in Node : ns[n].st = "base" => ns[n].sz = ds[fs[ns[n].in].conf].buf_sz
    <3> SUFFICES ASSUME NEW n \in Node, ns[n].st = "base"
                 PROVE  ns[n].sz = ds[fs[ns[n].in].conf].buf_sz
      OBVIOUS
    <3>1. ns[n].in \in Base /\ ns[n].sz = cs[bs[ns[n].in].conf].buf_sz
      BY <1>1 DEF Fit, Homes
    <3>2. CASE ns[n].in = b
      BY <1>4, <3>1, <3>2
    <3>3. CASE ns[n].in # b
      BY <1>4, <3>1, <3>3, HomesLive
    <3> QED BY <3>2, <3>3
  <2>4. \A a \in Base : fs[a].st = "spare" =>
       fs[a].grp = ds[fs[a].conf].grpalloc /\ fs[a].data = NoData
    <3> SUFFICES ASSUME NEW a \in Base, fs[a].st = "spare"
                 PROVE  fs[a].grp = ds[fs[a].conf].grpalloc /\ fs[a].data = NoData
      OBVIOUS
    <3>1. CASE a = b
      BY <1>4, <3>1
    <3>2. CASE a # b
      <4>1. fs[a] = bs[a] /\ bs[a].st = "spare"
        BY <1>4, <3>2
      <4>2. bs[a].conf \in Conf /\ cs[bs[a].conf].st = "live"
        BY <4>1, HomesLive
      <4> QED BY <1>1, <4>1, <4>2 DEF Fit
    <3> QED BY <3>1, <3>2
  <2> QED BY <2>1, <2>2, <2>3, <2>4 DEF Fit
<1> QED
  BY <1>1, <1>2, <1>3, <1>5, <1>6, <1>7, <1>8 DEF InvOf

(* A string that is allocated has the layout its configuration asks for. *)
LEMMA MallocBaseType ==
  ASSUME NEW cf \in ConfRec, NEW c \in Conf
  PROVE  LET r == MallocBase(cf, c)
             s == [MallocBase(cf, c) EXCEPT !.st = "spare"] IN
         /\ r \in BaseRec /\ r.st = "live" /\ r.conf = c
         /\ r.grp = cf.grpalloc /\ r.data = NoData
         /\ s \in BaseRec /\ s.st = "spare" /\ s.conf = c
         /\ s.grp = cf.grpalloc /\ s.data = NoData
<1> DEFINE r == MallocBase(cf, c)
           s == [r EXCEPT !.st = "spare"]
<1>1. NoBase \in BaseRec /\ NoBase.data = NoData
  BY ConfAssumption DEF NoBase, BaseRec, NoData
<1>2. cf.grpalloc \in Grps
  BY DEF ConfRec
<1>3. r \in BaseRec
  BY <1>1, <1>2 DEF MallocBase, BaseRec
<1>4. r.st = "live" /\ r.conf = c /\ r.grp = cf.grpalloc /\ r.data = NoData
  BY <1>1, <1>2 DEF MallocBase, BaseRec
<1> HIDE DEF r
<1>5. s \in BaseRec
  BY <1>3 DEF BaseRec
<1>6. s.st = "spare" /\ s.conf = c /\ s.grp = cf.grpalloc /\ s.data = NoData
  BY <1>3, <1>4 DEF BaseRec
<1> QED BY <1>3, <1>4, <1>5, <1>6 DEF r

(* What the invariant says of the configurations that things are on. *)
LEMMA LiveOnes ==
  ASSUME IInv
  PROVE  /\ base \in [Base -> BaseRec] /\ node \in [Node -> NodeRec]
         /\ link \in [Link -> LinkRec] /\ conf \in [Conf -> ConfRec]
         /\ \A b \in Base : base[b].st # "none" =>
              base[b].conf \in Conf /\ conf[base[b].conf].st = "live"
         /\ \A l \in Link : link[l].conf # Nil =>
              link[l].conf \in Conf /\ conf[link[l].conf].st = "live"
         /\ \A n \in Node :
              /\ node[n].st = "spare" => node[n].in \in Conf /\ conf[node[n].in].st = "live"
              /\ node[n].st = "base" => node[n].in \in Base /\ base[node[n].in].st = "live"
              /\ node[n].st = "export" =>
                   /\ node[n].in \in Link /\ link[node[n].in].conf \in Conf
                   /\ conf[link[node[n].in].conf].st = "live"
         /\ \A c \in Conf : Named(c) => conf[c].st = "live"
<1>1. InvOf(conf, base, node, link, def, users, Kept)
  BY DEF IInv
<1>2. /\ base \in [Base -> BaseRec] /\ node \in [Node -> NodeRec]
      /\ link \in [Link -> LinkRec] /\ conf \in [Conf -> ConfRec]
  BY <1>1 DEF InvOf, Types
<1>3. \A c \in Conf : Named(c) => conf[c].st = "live"
  BY <1>1, HomesLive DEF Named
<1>4. \A n \in Node : node[n].st = "base" => node[n].in \in Base /\ base[node[n].in].st = "live"
  BY <1>1 DEF InvOf, Homes
<1> QED BY <1>1, <1>2, <1>3, <1>4, HomesLive

(* A string that no node is in becomes r, which counts for c or not. *)
LEMMA EmptyBaseStep ==
  ASSUME IInv, NEW b \in Base, base[b].st # "live",
         NEW c \in Conf, conf[c].st = "live", NEW r \in BaseRec,
         \/ /\ r.st = "live" /\ r.conf = c
            /\ conf' = AddConf(conf, c)
         \/ /\ r.st = "none" \/ /\ r.st = "spare" /\ r.conf = c
                                /\ r.data = NoData /\ r.grp = conf[c].grpalloc
            /\ conf' = conf,
         base' = [base EXCEPT ![b] = r],
         UNCHANGED <<node, link, def, users>>
  PROVE  IInv'
<1>1. InvOf(conf, base, node, link, def, users, Kept) /\ users \in [Conf -> Nat]
  BY CountsOf DEF IInv
<1>2. /\ conf' \in [Conf -> ConfRec] /\ SameShape(conf, conf')
      /\ \A x \in Conf : /\ conf'[x].st = conf[x].st /\ conf'[x].user_ref = conf[x].user_ref
                         /\ conf'[x].ref = conf[x].ref + On(r, x)
  <2>1. CASE conf' = AddConf(conf, c) /\ r.st = "live" /\ r.conf = c
    BY <2>1, CountsOf, AddConfIs DEF On
  <2>2. CASE conf' = conf /\ r.st # "live"
    BY <2>2, CountsOf DEF On, SameShape
  <2> QED BY <2>1, <2>2
<1>3. \A n \in Node : node[n].st = "base" /\ node[n].in = b =>
            r.st = "live" /\ conf'[r.conf].buf_sz = conf[base[b].conf].buf_sz
  BY LiveOnes
<1>4. r.st # "none" => r.conf \in Conf
  OBVIOUS
<1>5. r.st = "spare" => /\ conf'[r.conf].st \in Kept /\ r.data = NoData
                        /\ r.grp = conf'[r.conf].grpalloc
  BY <1>2 DEF Kept, SameShape
<1>6. \A x \in Conf : conf[x].st = "live" =>
            /\ conf'[x].buf_sz = conf[x].buf_sz /\ conf'[x].grpalloc = conf[x].grpalloc
            /\ conf'[x].st \in Kept
  BY <1>2 DEF SameShape, Kept
<1>7. \A x \in Conf : conf'[x].ref_link \in {conf[x].ref_link, Nil}
  BY <1>2 DEF SameShape
<1>8. \A x \in Conf :
            /\ conf'[x].user_ref = users[x] + (IF def = x THEN 1 ELSE 0)
            /\ conf'[x].ref + conf[x].user_ref + On(base[b], x) =
               conf[x].ref + conf'[x].user_ref + On(r, x)
  BY <1>2, CountsOf DEF On
<1>9. Alive(conf')
  <2>1. \A x \in Conf : On(r, x) \in {0, 1} /\ (On(r, x) = 1 => conf[x].st = "live")
    BY DEF On
  <2> QED BY <1>2, <2>1, CountsOf DEF Alive
<1>10. conf' \in [Conf -> ConfRec]
  BY <1>2
<1>11. Becomes(conf, base, node, def, conf', base', users, Kept, b, r)
  BY ONLY b \in Base, r \in BaseRec, base' = [base EXCEPT ![b] = r],
          <1>1, <1>3, <1>4, <1>5, <1>6, <1>7, <1>8, <1>9, <1>10 DEF Becomes
<1>12. InvOf(conf', base', node, link, def, users, Kept)
  BY <1>1, <1>11, BaseStep
<1> QED BY <1>12 DEF IInv

(* Making strings and spare strings, and freeing spare ones, keep the      *)
(* invariant.                                                              *)
LEMMA MakeBaseInv ==
  ASSUME IInv, NEW c \in Conf, NEW b \in Base,
         MakeBaseSpare(c, b) \/ MakeBase(c, b) \/ MakeSpareBase(c, b) \/ FreeSpareBase(c, b)
  PROVE  IInv'
<1>1. Named(c) /\ UNCHANGED <<node, link, def, users>>
  BY DEF MakeBaseSpare, MakeBase, MakeSpareBase, FreeSpareBase
<1>2. conf[c].st = "live" /\ conf[c] \in ConfRec /\ base[b] \in BaseRec
  BY <1>1, LiveOnes
<1>3. CASE MakeBaseSpare(c, b)
  <2> DEFINE r == [base[b] EXCEPT !.st = "live"]
  <2>1. /\ base' = [base EXCEPT ![b] = r] /\ conf' = AddConf(conf, c)
        /\ base[b].st = "spare" /\ base[b].conf = c
    BY <1>3 DEF MakeBaseSpare, SpareBases
  <2>2. r \in BaseRec
    BY <1>2 DEF BaseRec
  <2>3. r.st = "live" /\ r.conf = c
    BY <1>2, <2>1 DEF BaseRec
  <2> HIDE DEF r
  <2> QED BY <1>1, <1>2, <2>1, <2>2, <2>3, EmptyBaseStep
<1>4. CASE MakeBase(c, b)
  <2> DEFINE r == MallocBase(conf[c], c)
  <2>1. /\ base' = [base EXCEPT ![b] = r] /\ conf' = AddConf(conf, c)
        /\ base[b].st = "none"
    BY <1>4 DEF MakeBase
  <2>2. r \in BaseRec /\ r.st = "live" /\ r.conf = c
    BY <1>2, MallocBaseType, ZenonT(40)
  <2> HIDE DEF r
  <2> QED BY <1>1, <1>2, <2>1, <2>2, EmptyBaseStep
<1>5. CASE MakeSpareBase(c, b)
  <2> DEFINE r == [MallocBase(conf[c], c) EXCEPT !.st = "spare"]
  <2>1. /\ base' = [base EXCEPT ![b] = r] /\ conf' = conf
        /\ base[b].st = "none"
    BY <1>5 DEF MakeSpareBase
  <2>2. r \in BaseRec /\ r.st = "spare" /\ r.conf = c
        /\ r.data = NoData /\ r.grp = conf[c].grpalloc
    BY <1>2, MallocBaseType
  <2> HIDE DEF r
  <2> QED BY <1>1, <1>2, <2>1, <2>2, EmptyBaseStep
<1>6. CASE FreeSpareBase(c, b)
  <2>1. /\ base' = [base EXCEPT ![b] = NoBase] /\ conf' = conf
        /\ base[b].st = "spare" /\ base[b].conf = c
    BY <1>6 DEF FreeSpareBase, SpareBases
  <2>2. NoBase \in BaseRec /\ NoBase.st = "none"
    BY ConfAssumption DEF NoBase, BaseRec, NoData
  <2> QED BY <1>1, <1>2, <2>1, <2>2, EmptyBaseStep
<1> QED BY <1>3, <1>4, <1>5, <1>6

(* The user's data of a string changes, and nothing else. *)
LEMMA DataOnlyInv ==
  ASSUME IInv, NEW b \in Base, base[b].st = "live", NEW r \in BaseRec,
         r.st = "live", r.conf = base[b].conf,
         base' = [base EXCEPT ![b] = r],
         UNCHANGED <<conf, node, link, def, users>>
  PROVE  IInv'
<1>1. InvOf(conf, base, node, link, def, users, Kept)
  BY DEF IInv
<1>2. /\ base[b].conf \in Conf /\ conf[base[b].conf].st = "live"
      /\ conf \in [Conf -> ConfRec]
  BY LiveOnes
<1>3. users \in [Conf -> Nat] /\ Alive(conf)
  BY <1>1 DEF InvOf, Types
<1>4. \A x \in Conf :
            /\ conf[x].user_ref = users[x] + (IF def = x THEN 1 ELSE 0)
            /\ conf[x].ref + conf[x].user_ref + On(base[b], x) =
               conf[x].ref + conf[x].user_ref + On(r, x)
  BY CountsOf DEF On
<1>5. \A x \in Conf : conf[x].st = "live" => conf[x].st \in Kept
  BY DEF Kept
<1>6. Becomes(conf, base, node, def, conf, base', users, Kept, b, r)
  BY <1>2, <1>3, <1>4, <1>5 DEF Becomes
<1>7. InvOf(conf, base', node, link, def, users, Kept)
  BY <1>1, <1>6, BaseStep
<1> QED BY <1>7 DEF IInv

(* Setting data of a cache of a string keeps the invariant. *)
LEMMA CacheSetInv ==
  ASSUME IInv, NEW b \in Base, NEW i \in Slots, CacheSet(b, i)
  PROVE  IInv'
<1> DEFINE k == conf[base[b].conf].cbs[i]
           r == [base[b] EXCEPT !.data[i] = k]
<1>1. /\ base[b].st = "live" /\ i \in 1 .. Len(conf[base[b].conf].cbs)
      /\ base' = [base EXCEPT ![b] = r]
      /\ UNCHANGED <<conf, node, link, def, users>>
  BY DEF CacheSet
<1>2. base[b] \in BaseRec /\ base[b].conf \in Conf /\ conf \in [Conf -> ConfRec]
  BY <1>1, LiveOnes
<1>3. k \in Caches
  <2>1. conf[base[b].conf].cbs \in Seq(Caches)
    BY <1>2 DEF ConfRec
  <2> QED BY <1>1, <2>1
<1> HIDE DEF k
<1>4. r \in BaseRec
  <2>1. [base[b].data EXCEPT ![i] = k] \in [Slots -> Caches \cup {Nil}]
    BY <1>2, <1>3 DEF BaseRec
  <2> QED BY <1>2, <2>1 DEF BaseRec
<1>5. r.st = "live" /\ r.conf = base[b].conf
  BY <1>1, <1>2 DEF BaseRec
<1> HIDE DEF r
<1> QED BY <1>1, <1>4, <1>5, DataOnlyInv

(* Freeing the cache of a string keeps the invariant. *)
LEMMA CacheFreeInv ==
  ASSUME IInv, NEW b \in Base, CacheFree(b)
  PROVE  IInv'
<1> DEFINE r == [base[b] EXCEPT !.data = NoData]
<1>1. /\ base[b].st = "live" /\ base' = [base EXCEPT ![b] = r]
      /\ UNCHANGED <<conf, node, link, def, users>>
  BY DEF CacheFree
<1>2. base[b] \in BaseRec
  BY LiveOnes
<1>3. r \in BaseRec
  BY <1>2 DEF BaseRec, NoData
<1>4. r.st = "live" /\ r.conf = base[b].conf
  BY <1>1, <1>2 DEF BaseRec
<1> HIDE DEF r
<1> QED BY <1>1, <1>3, <1>4, DataOnlyInv

-----------------------------------------------------------------------------
(* Steps that move nodes *)

(* Nodes move between a configuration's spares and the strings on it, or   *)
(* are malloc'ed and freed; none is exported or comes back.                *)
LEMMA NodesOnly ==
  ASSUME NEW cs, NEW bs, NEW ns, NEW ls, NEW d, NEW us, NEW ms,
         InvOf(cs, bs, ns, ls, d, us, Kept), ms \in [Node -> NodeRec],
         \A n \in Node : ms[n] # ns[n] =>
           /\ ns[n].st # "export"
           /\ \/ ms[n].st = "none"
              \/ /\ ms[n].st = "spare" /\ ms[n].in \in Conf
                 /\ cs[ms[n].in].st = "live" /\ ms[n].sz = cs[ms[n].in].buf_sz
              \/ /\ ms[n].st = "base" /\ ms[n].in \in Base
                 /\ bs[ms[n].in].st = "live" /\ ms[n].sz = cs[bs[ms[n].in].conf].buf_sz
  PROVE  InvOf(cs, bs, ms, ls, d, us, Kept)
<1>1. Types(cs, bs, ns, ls, d, us) /\ Homes(bs, ns) /\ Refs(cs, bs, ls, d, us)
      /\ Alive(cs) /\ SparesOn(cs, bs, ns, Kept) /\ Blocks(cs, ns, ls)
      /\ Fit(cs, bs, ns, ls)
  BY DEF InvOf
<1>2. \A l : Exported(ms, l) = Exported(ns, l)
  BY DEF Exported
<1>3. Types(cs, bs, ms, ls, d, us)
  BY <1>1 DEF Types
<1>4. Homes(bs, ms)
  BY <1>1 DEF Homes
<1>5. SparesOn(cs, bs, ms, Kept)
  BY <1>1 DEF SparesOn, Kept
<1>6. Blocks(cs, ms, ls)
  BY <1>1, <1>2 DEF Blocks
<1>7. Fit(cs, bs, ms, ls)
  BY <1>1 DEF Fit
<1> QED BY <1>1, <1>3, <1>4, <1>5, <1>6, <1>7 DEF InvOf

(* A step that changes one node, to one that fits where it goes, keeps the *)
(* invariant.                                                              *)
LEMMA NodeInv ==
  ASSUME IInv, NEW n \in Node, node[n].st # "export", NEW r \in NodeRec,
         \/ r.st = "none"
         \/ /\ r.st = "spare" /\ r.in \in Conf
            /\ conf[r.in].st = "live" /\ r.sz = conf[r.in].buf_sz
         \/ /\ r.st = "base" /\ r.in \in Base
            /\ base[r.in].st = "live" /\ r.sz = conf[base[r.in].conf].buf_sz,
         node' = [node EXCEPT ![n] = r],
         UNCHANGED <<conf, base, link, def, users>>
  PROVE  IInv'
<1>1. InvOf(conf, base, node, link, def, users, Kept)
  BY DEF IInv
<1>2. /\ node' \in [Node -> NodeRec]
      /\ \A m \in Node : node'[m] # node[m] => m = n /\ node'[m] = r
  BY LiveOnes
<1>3. InvOf(conf, base, node', link, def, users, Kept)
  BY <1>1, <1>2, NodesOnly
<1> QED BY <1>3 DEF IInv

(* The size of a node is that of the configuration of its string or spares. *)
LEMMA NodeSizes ==
  ASSUME IInv, NEW n \in Node
  PROVE  /\ node[n] \in NodeRec
         /\ node[n].st = "spare" => node[n].sz = conf[node[n].in].buf_sz
         /\ node[n].st = "base" => node[n].sz = conf[base[node[n].in].conf].buf_sz
         /\ node[n].st = "export" => node[n].sz = conf[link[node[n].in].conf].buf_sz
BY DEF IInv, InvOf, Types, Fit

(* Making and freeing spare nodes keep the invariant. *)
LEMMA SpareNodeInv ==
  ASSUME IInv, NEW c \in Conf, NEW n \in Node, MakeSpareNode(c, n) \/ FreeSpareNode(n)
  PROVE  IInv'
<1>1. CASE MakeSpareNode(c, n)
  <2> DEFINE r == [st |-> "spare", sz |-> conf[c].buf_sz, in |-> c]
  <2>1. /\ conf[c].st = "live" /\ node[n].st = "none" /\ node' = [node EXCEPT ![n] = r]
        /\ UNCHANGED <<conf, base, link, def, users>>
    BY <1>1 DEF MakeSpareNode
  <2>2. conf[c] \in ConfRec
    BY LiveOnes
  <2>3. r \in NodeRec /\ r.st = "spare" /\ r.in = c /\ r.sz = conf[c].buf_sz
    BY <2>2 DEF NodeRec, ConfRec
  <2> HIDE DEF r
  <2> QED BY <2>1, <2>3, NodeInv
<1>2. CASE FreeSpareNode(n)
  <2>1. /\ node[n].st = "spare" /\ node' = [node EXCEPT ![n] = NoNode]
        /\ UNCHANGED <<conf, base, link, def, users>>
    BY <1>2 DEF FreeSpareNode
  <2>2. NoNode \in NodeRec /\ NoNode.st = "none"
    BY ConfAssumption DEF NoNode, NodeRec
  <2> QED BY <2>1, <2>2, NodeInv
<1> QED BY <1>1, <1>2

(* Adding data to a string and deleting it keep the invariant. *)
LEMMA MoveNodeInv ==
  ASSUME IInv, NEW b \in Base, NEW n \in Node, AddNode(b, n) \/ DelNode(b, n)
  PROVE  IInv'
<1>1. /\ base[b].st = "live" /\ UNCHANGED <<conf, base, link, def, users>>
      /\ base[b].conf \in Conf /\ conf[base[b].conf].st = "live"
  BY LiveOnes DEF AddNode, DelNode
<1>2. CASE AddNode(b, n)
  <2> DEFINE r == [node[n] EXCEPT !.st = "base", !.in = b]
  <2>1. /\ node' = [node EXCEPT ![n] = r]
        /\ node[n].st = "spare" /\ node[n].in = base[b].conf
    BY <1>2 DEF AddNode, SpareNodes
  <2>2. node[n] \in NodeRec /\ node[n].sz = conf[base[b].conf].buf_sz
    BY <2>1, NodeSizes
  <2>3. r \in NodeRec /\ r.st = "base" /\ r.in = b /\ r.sz = node[n].sz
    BY <2>2 DEF NodeRec
  <2> HIDE DEF r
  <2> QED BY <1>1, <2>1, <2>2, <2>3, NodeInv
<1>3. CASE DelNode(b, n)
  <2> DEFINE r == [node[n] EXCEPT !.st = "spare", !.in = base[b].conf]
  <2>1. /\ node' = [node EXCEPT ![n] = r]
        /\ node[n].st = "base" /\ node[n].in = b
    BY <1>3 DEF DelNode, NodesOf
  <2>2. node[n] \in NodeRec /\ node[n].sz = conf[base[b].conf].buf_sz
    BY <2>1, NodeSizes
  <2>3. base[b].conf \in Conf \cup Base \cup Link \cup {Nil}
    BY <1>1
  <2>4. r \in NodeRec /\ r.st = "spare" /\ r.in = base[b].conf /\ r.sz = node[n].sz
    <3>1. ASSUME NEW h, h = base[b].conf
          PROVE  r \in NodeRec /\ r.st = "spare" /\ r.in = h /\ r.sz = node[n].sz
      BY <2>2, <2>3, <3>1 DEF NodeRec
    <3> QED BY <3>1
  <2> HIDE DEF r
  <2> QED BY <1>1, <2>1, <2>2, <2>4, NodeInv
<1> QED BY <1>2, <1>3

(* vstr_free_base() in its order: the nodes become spare, the string goes, *)
(* then, if it was the last thing on it, the configuration.                *)
LEMMA FreeBaseInv ==
  ASSUME IInv, NEW b \in Base, FreeBase(b)
  PROVE  IInv'
<1> DEFINE c == base[b].conf
           ms == [n \in Node |-> IF n \in NodesOf(b)
                                 THEN [node[n] EXCEPT !.st = "spare", !.in = c]
                                 ELSE node[n]]
           ds == DelConf(conf, c)
           fs == FreedBase(base, conf, b)
           r == IF base[b].grp = conf[c].grpalloc
                THEN [base[b] EXCEPT !.st = "spare", !.data = NoData] ELSE NoBase
<1>1. /\ base[b].st = "live" /\ conf' = ds
      /\ node' = NodesLeft(conf', ms) /\ base' = BasesLeft(conf', fs)
      /\ link' = link /\ def' = def /\ users' = users
  BY DEF FreeBase
<1>2. InvOf(conf, base, node, link, def, users, Kept)
  BY DEF IInv
<1>3. /\ c \in Conf /\ conf[c].st = "live" /\ base[b] \in BaseRec
      /\ conf \in [Conf -> ConfRec] /\ users \in [Conf -> Nat]
  BY <1>1, LiveOnes, CountsOf
<1>4. InvOf(conf, base, ms, link, def, users, Kept)
  <2>1. \A n \in Node : n \in NodesOf(b) =>
          /\ ms[n] \in NodeRec /\ ms[n].st = "spare" /\ ms[n].in = c
          /\ ms[n].sz = conf[c].buf_sz /\ node[n].st = "base"
    <3> SUFFICES ASSUME NEW n \in Node, n \in NodesOf(b)
                 PROVE  /\ ms[n] \in NodeRec /\ ms[n].st = "spare" /\ ms[n].in = c
                        /\ ms[n].sz = conf[c].buf_sz /\ node[n].st = "base"
      OBVIOUS
    <3>1. node[n].st = "base" /\ node[n].in = b
      BY DEF NodesOf
    <3>2. node[n] \in NodeRec /\ node[n].sz = conf[c].buf_sz
      BY <3>1, NodeSizes
    <3>3. ms[n] = [node[n] EXCEPT !.st = "spare", !.in = c]
      OBVIOUS
    <3>4. c \in Conf \cup Base \cup Link \cup {Nil}
      BY <1>3
    <3> HIDE DEF ms, c
    <3>5. ms[n] \in NodeRec
      BY <3>2, <3>3, <3>4 DEF NodeRec
    <3>6. ms[n].st = "spare" /\ ms[n].in = c /\ ms[n].sz = node[n].sz
      BY <3>2, <3>3, <3>4 DEF NodeRec
    <3> QED BY <3>1, <3>2, <3>5, <3>6
  <2>2. \A n \in Node : n \notin NodesOf(b) => ms[n] = node[n]
    OBVIOUS
  <2>3. ms \in [Node -> NodeRec]
    BY <2>1, <2>2, LiveOnes
  <2> HIDE DEF ms
  <2> QED BY <1>2, <1>3, <2>1, <2>2, <2>3, NodesOnly
<1>5. /\ \A n \in Node : ~(ms[n].st = "base" /\ ms[n].in = b)
  <2> SUFFICES ASSUME NEW n \in Node PROVE ~(ms[n].st = "base" /\ ms[n].in = b)
    OBVIOUS
  <2>1. CASE n \in NodesOf(b)
    <3>1. ms[n] = [node[n] EXCEPT !.st = "spare", !.in = c] /\ node[n] \in NodeRec
      BY <2>1, NodeSizes
    <3>2. c \in Conf \cup Base \cup Link \cup {Nil}
      BY <1>3
    <3> HIDE DEF ms, c
    <3>3. ms[n].st = "spare"
      BY <3>1, <3>2 DEF NodeRec
    <3> QED BY <3>3
  <2>2. CASE n \notin NodesOf(b)
    <3>1. ms[n] = node[n]
      BY <2>2
    <3> QED BY <2>2, <3>1 DEF NodesOf
  <2> QED BY <2>1, <2>2
<1> HIDE DEF ms
<1>6. conf[c].ref > 0
  BY <1>3, CountsOf
<1>7. /\ ds \in [Conf -> ConfRec] /\ SameShape(conf, ds)
      /\ \A x \in Conf : /\ ds[x].st = IF x = c /\ conf[c].ref = 1 THEN "freed" ELSE conf[x].st
                         /\ ds[x].user_ref = conf[x].user_ref
                         /\ ds[x].ref = conf[x].ref - (IF x = c THEN 1 ELSE 0)
  BY <1>3, <1>6, DelConfIs
<1>8. /\ fs = [base EXCEPT ![b] = r]
      /\ r \in BaseRec /\ r.st \in {"none", "spare"}
      /\ r.st = "spare" => r.conf = c /\ r.data = NoData /\ r.grp = conf[c].grpalloc
  <2>1. CASE base[b].grp = conf[c].grpalloc
    <3>1. r = [base[b] EXCEPT !.st = "spare", !.data = NoData]
      BY <2>1
    <3>2. r \in BaseRec
      BY <1>3, <3>1, ZenonT(40) DEF BaseRec, NoData
    <3>3. r.st = "spare" /\ r.conf = c /\ r.data = NoData /\ r.grp = conf[c].grpalloc
      BY <1>3, <2>1, <3>1 DEF BaseRec, NoData
    <3>4. fs = [base EXCEPT ![b] = r]
      BY <2>1, <3>1 DEF FreedBase
    <3> QED BY <3>2, <3>3, <3>4
  <2>2. CASE base[b].grp # conf[c].grpalloc
    <3>1. NoBase \in BaseRec /\ NoBase.st = "none"
      BY ConfAssumption DEF NoBase, BaseRec, NoData
    <3> QED BY <2>2, <3>1 DEF FreedBase
  <2> QED BY <2>1, <2>2
<1> HIDE DEF r, ds, fs, c
<1>9. InvOf(ds, fs, ms, link, def, users, Leaving)
  <2>1. \A n \in Node : ms[n].st = "base" /\ ms[n].in = b =>
            r.st = "live" /\ ds[r.conf].buf_sz = conf[base[b].conf].buf_sz
    BY <1>5
  <2>2. r.st # "none" => r.conf \in Conf
    BY <1>3, <1>8
  <2>3. r.st = "spare" => /\ ds[r.conf].st \in Leaving /\ r.data = NoData
                          /\ r.grp = ds[r.conf].grpalloc
    BY <1>3, <1>7, <1>8 DEF Leaving, SameShape
  <2>4. \A x \in Conf : conf[x].st = "live" =>
            /\ ds[x].buf_sz = conf[x].buf_sz /\ ds[x].grpalloc = conf[x].grpalloc
            /\ ds[x].st \in Leaving
    BY <1>7 DEF SameShape, Leaving
  <2>5. \A x \in Conf : ds[x].ref_link \in {conf[x].ref_link, Nil}
    BY <1>7 DEF SameShape
  <2>6. \A x \in Conf :
            /\ ds[x].user_ref = users[x] + (IF def = x THEN 1 ELSE 0)
            /\ ds[x].ref + conf[x].user_ref + On(base[b], x) =
               conf[x].ref + ds[x].user_ref + On(r, x)
    BY <1>1, <1>3, <1>7, <1>8, CountsOf DEF On, c
  <2>7. Alive(ds)
    BY <1>3, <1>6, <1>7, CountsOf DEF Alive
  <2>8. ds \in [Conf -> ConfRec] /\ users \in [Conf -> Nat] /\ r \in BaseRec
    BY <1>3, <1>7, <1>8
  <2>9. Becomes(conf, base, ms, def, ds, fs, users, Leaving, b, r)
    BY ONLY b \in Base, <1>8, <2>1, <2>2, <2>3, <2>4, <2>5, <2>6, <2>7, <2>8 DEF Becomes
  <2> QED BY <1>4, <2>9, BaseStep
<1>10. InvOf(ds, BasesLeft(ds, fs), NodesLeft(ds, ms), link, def, users, Kept)
  BY <1>9, SweepInv
<1> QED BY <1>1, <1>8, <1>10 DEF IInv

-----------------------------------------------------------------------------
(* Exported nodes and their blocks of links *)

(* A node counts for the block it is on, a block for its configuration. *)
Out(r, l) == IF r.st = "export" /\ r.in = l THEN 1 ELSE 0

To(k, x) == IF k.conf = x THEN 1 ELSE 0

(* How the number of exported nodes of a link changes with one node. *)
LEMMA ExpCard ==
  ASSUME NEW ns, NEW ms, NEW n \in Node, NEW l,
         \A a \in Node : a # n => ms[a] = ns[a]
  PROVE  Cardinality(Exported(ms, l)) =
           Cardinality(Exported(ns, l)) + Out(ms[n], l) - Out(ns[n], l)
<1> DEFINE S == Exported(ns, l)
           T == Exported(ms, l)
<1>1. IsFiniteSet(S)
  BY CountsFinite
<1>2. /\ Out(ns[n], l) = IF n \in S THEN 1 ELSE 0
      /\ Out(ms[n], l) = IF n \in T THEN 1 ELSE 0
  BY DEF Exported, Out
<1>3. \A a : a # n => (a \in S <=> a \in T)
  BY DEF Exported
<1> HIDE DEF S, T
<1>4. Cardinality(T) = Cardinality(S) + (IF n \in T THEN 1 ELSE 0)
                       - (IF n \in S THEN 1 ELSE 0)
  BY <1>1, <1>3, CardMove
<1> QED BY <1>2, <1>4 DEF S, T

(* How the number of links to a configuration changes with one link. *)
LEMMA LinkCard ==
  ASSUME NEW ls, NEW ks, NEW l \in Link, NEW x,
         \A a \in Link : a # l => ks[a] = ls[a]
  PROVE  Cardinality(LinksOf(ks, x)) =
           Cardinality(LinksOf(ls, x)) + To(ks[l], x) - To(ls[l], x)
<1> DEFINE S == LinksOf(ls, x)
           T == LinksOf(ks, x)
<1>1. IsFiniteSet(S)
  BY CountsFinite
<1>2. /\ To(ls[l], x) = IF l \in S THEN 1 ELSE 0
      /\ To(ks[l], x) = IF l \in T THEN 1 ELSE 0
  BY DEF LinksOf, To
<1>3. \A a : a # l => (a \in S <=> a \in T)
  BY DEF LinksOf
<1> HIDE DEF S, T
<1>4. Cardinality(T) = Cardinality(S) + (IF l \in T THEN 1 ELSE 0)
                       - (IF l \in S THEN 1 ELSE 0)
  BY <1>1, <1>3, CardMove
<1> QED BY <1>2, <1>4 DEF S, T

(* Node n goes on block l or comes off it, and the block becomes k. *)
Relinks(cs, ns, ls, ds, ms, ks, sts, n, r, l, k) ==
  /\ ds \in [Conf -> ConfRec]
  /\ n \in Node /\ r \in NodeRec /\ ms = [ns EXCEPT ![n] = r]
  /\ l \in Link /\ k \in LinkRec /\ ks = [ls EXCEPT ![l] = k]
  /\ \/ /\ r.st = "spare" /\ r.in \in Conf
        /\ ds[r.in].st \in sts /\ r.sz = ds[r.in].buf_sz
     \/ /\ r.st = "export" /\ r.in = l
        /\ k.conf \in Conf /\ r.sz = ds[k.conf].buf_sz
  /\ ns[n].st = "export" => ns[n].in = l
  /\ k.l_ref + Out(ns[n], l) = ls[l].l_ref + Out(r, l)
  /\ k.l_ref <= LinkSz
  /\ k.conf # Nil <=> k.l_ref > 0
  /\ k.conf # Nil /\ ls[l].conf # Nil => k.conf = ls[l].conf
  /\ \A x \in Conf : cs[x].st = "live" =>
       /\ ds[x].buf_sz = cs[x].buf_sz /\ ds[x].grpalloc = cs[x].grpalloc
       /\ ds[x].st \in sts
  /\ \A x \in Conf :
       /\ ds[x].ref_link \in {cs[x].ref_link, Nil, l}
       /\ ds[x].ref_link = l => k.conf = x /\ k.l_ref < LinkSz
       /\ ds[x].user_ref = cs[x].user_ref
       /\ ds[x].ref + To(ls[l], x) = cs[x].ref + To(k, x)
  /\ Alive(ds)

(* A step that changes one node, one link and the counts accordingly keeps *)
(* the invariant.                                                          *)
LEMMA LinkStep ==
  ASSUME NEW cs, NEW bs, NEW ns, NEW ls, NEW d, NEW us, NEW ds, NEW ms, NEW ks, NEW sts,
         NEW n, NEW r, NEW l, NEW k, InvOf(cs, bs, ns, ls, d, us, Kept),
         Relinks(cs, ns, ls, ds, ms, ks, sts, n, r, l, k)
  PROVE  InvOf(ds, bs, ms, ks, d, us, sts)
<1>1. Types(cs, bs, ns, ls, d, us) /\ Homes(bs, ns) /\ Refs(cs, bs, ls, d, us)
      /\ Alive(cs) /\ SparesOn(cs, bs, ns, Kept) /\ Blocks(cs, ns, ls)
      /\ Fit(cs, bs, ns, ls)
  BY DEF InvOf
<1>2. /\ ds \in [Conf -> ConfRec] /\ n \in Node /\ r \in NodeRec /\ l \in Link
      /\ k \in LinkRec /\ ms = [ns EXCEPT ![n] = r] /\ ks = [ls EXCEPT ![l] = k]
      /\ ns \in [Node -> NodeRec] /\ ls \in [Link -> LinkRec] /\ Alive(ds)
  BY <1>1 DEF Relinks, Types
<1>3. Types(ds, bs, ms, ks, d, us)
  BY <1>1, <1>2 DEF Types
<1>4. /\ \A m \in Node : ms[m] = IF m = n THEN r ELSE ns[m]
      /\ \A j \in Link : ks[j] = IF j = l THEN k ELSE ls[j]
  BY <1>2
<1>5. Homes(bs, ms)
  BY <1>1, <1>2, <1>4 DEF Homes, Relinks
<1>6. SparesOn(ds, bs, ms, sts)
  BY <1>1, <1>4 DEF SparesOn, Homes, Kept, Relinks
<1>7. Refs(ds, bs, ks, d, us)
  <2> SUFFICES ASSUME NEW x \in Conf
               PROVE  /\ ds[x].user_ref = us[x] + (IF d = x THEN 1 ELSE 0)
                      /\ ds[x].ref = ds[x].user_ref + Cardinality(LiveB(bs, x))
                                     + Cardinality(LinksOf(ks, x))
    BY DEF Refs
  <2>1. /\ cs[x].ref \in Nat /\ cs[x].user_ref \in Nat
        /\ ds[x].ref \in Nat /\ ds[x].user_ref \in Nat
    BY <1>1, <1>2 DEF Types, ConfRec
  <2>2. Cardinality(LiveB(bs, x)) \in Nat /\ Cardinality(LinksOf(ls, x)) \in Nat
    BY CountsFinite
  <2>3. /\ cs[x].user_ref = us[x] + (IF d = x THEN 1 ELSE 0)
        /\ cs[x].ref = cs[x].user_ref + Cardinality(LiveB(bs, x)) + Cardinality(LinksOf(ls, x))
    BY <1>1 DEF Refs
  <2>4. Cardinality(LinksOf(ks, x)) = Cardinality(LinksOf(ls, x)) + To(k, x) - To(ls[l], x)
    <3>1. l \in Link /\ ks[l] = k /\ \A a \in Link : a # l => ks[a] = ls[a]
      BY <1>2
    <3>2. Cardinality(LinksOf(ks, x)) = Cardinality(LinksOf(ls, x)) + To(ks[l], x) - To(ls[l], x)
      BY ONLY <3>1, LinkCard, ZenonT(40)
    <3> QED BY <3>1, <3>2
  <2>5. To(k, x) \in Int /\ To(ls[l], x) \in Int
    BY DEF To
  <2>6. ds[x].user_ref = cs[x].user_ref /\ ds[x].ref + To(ls[l], x) = cs[x].ref + To(k, x)
    BY DEF Relinks
  <2> QED BY <2>1, <2>2, <2>3, <2>4, <2>5, <2>6
<1>8. \A j \in Link : /\ ks[j].l_ref = Cardinality(Exported(ms, j))
                      /\ ks[j].l_ref <= LinkSz
                      /\ ks[j].conf # Nil <=> ks[j].l_ref > 0
  <2> SUFFICES ASSUME NEW j \in Link
               PROVE  /\ ks[j].l_ref = Cardinality(Exported(ms, j))
                      /\ ks[j].l_ref <= LinkSz
                      /\ ks[j].conf # Nil <=> ks[j].l_ref > 0
    OBVIOUS
  <2>1. Cardinality(Exported(ms, j)) = Cardinality(Exported(ns, j)) + Out(r, j) - Out(ns[n], j)
    <3>1. n \in Node /\ ms[n] = r /\ \A a \in Node : a # n => ms[a] = ns[a]
      BY <1>2
    <3>2. Cardinality(Exported(ms, j)) =
            Cardinality(Exported(ns, j)) + Out(ms[n], j) - Out(ns[n], j)
      BY ONLY <3>1, ExpCard, ZenonT(40)
    <3> QED BY <3>1, <3>2
  <2>2. /\ ls[j].l_ref = Cardinality(Exported(ns, j)) /\ ls[j].l_ref <= LinkSz
        /\ ls[j].conf # Nil <=> ls[j].l_ref > 0
    BY <1>1 DEF Blocks
  <2>3. Out(r, j) \in Int /\ Out(ns[n], j) \in Int /\ ls[j].l_ref \in Nat /\ k.l_ref \in Nat
    BY <1>2 DEF Out, LinkRec
  <2>4. CASE j = l
    <3>1. /\ k.l_ref + Out(ns[n], l) = ls[l].l_ref + Out(r, l)
          /\ k.l_ref <= LinkSz /\ (k.conf # Nil <=> k.l_ref > 0)
      BY DEF Relinks
    <3>2. ks[j] = k
      BY <1>4, <2>4
    <3> QED BY <2>1, <2>2, <2>3, <2>4, <3>1, <3>2
  <2>5. CASE j # l
    <3>1. Out(r, j) = 0 /\ Out(ns[n], j) = 0
      BY <2>5 DEF Out, Relinks
    <3>2. ks[j] = ls[j]
      BY <1>4, <2>5
    <3> QED BY <2>1, <2>2, <2>3, <3>1, <3>2
  <2> QED BY <2>4, <2>5
<1>9. Blocks(ds, ms, ks)
  <2>1. \A x \in Conf : ds[x].ref_link # Nil =>
          ks[ds[x].ref_link].conf = x /\ ks[ds[x].ref_link].l_ref < LinkSz
    <3> SUFFICES ASSUME NEW x \in Conf, ds[x].ref_link # Nil
                 PROVE  ks[ds[x].ref_link].conf = x /\ ks[ds[x].ref_link].l_ref < LinkSz
      OBVIOUS
    <3>1. ds[x].ref_link \in Link
      BY <1>2 DEF ConfRec
    <3>2. CASE ds[x].ref_link = l
      BY <1>4, <3>1, <3>2 DEF Relinks
    <3>3. CASE ds[x].ref_link # l
      <4>1. ds[x].ref_link = cs[x].ref_link
        BY <3>3 DEF Relinks
      <4> QED BY <1>1, <1>4, <3>1, <3>3, <4>1 DEF Blocks
    <3> QED BY <3>2, <3>3
  <2> QED BY <1>8, <2>1 DEF Blocks
<1>10. Fit(ds, bs, ms, ks)
  <2>1. \A b \in Base : bs[b].st = "spare" =>
          bs[b].grp = ds[bs[b].conf].grpalloc /\ bs[b].data = NoData
    BY <1>1, HomesLive DEF Fit, Relinks
  <2>2. ASSUME NEW m \in Node
        PROVE  /\ ms[m].st = "spare" => ms[m].sz = ds[ms[m].in].buf_sz
               /\ ms[m].st = "base" => ms[m].sz = ds[bs[ms[m].in].conf].buf_sz
               /\ ms[m].st = "export" => ms[m].sz = ds[ks[ms[m].in].conf].buf_sz
    <3>1. CASE m = n
      BY <1>2, <1>4, <3>1 DEF Relinks
    <3>2. CASE m # n
      <4>1. ms[m] = ns[m]
        BY <1>4, <3>2
      <4>2. ms[m].st = "spare" => ms[m].sz = ds[ms[m].in].buf_sz
        BY <1>1, <4>1, HomesLive DEF Fit, Relinks
      <4>3. ms[m].st = "base" => ms[m].sz = ds[bs[ms[m].in].conf].buf_sz
        BY <1>1, <4>1, HomesLive DEF Fit, Relinks
      <4>4. ASSUME ms[m].st = "export"
            PROVE  ms[m].sz = ds[ks[ms[m].in].conf].buf_sz
        <5>1. /\ ns[m].in \in Link /\ ls[ns[m].in].conf \in Conf
              /\ cs[ls[ns[m].in].conf].st = "live"
              /\ ns[m].sz = cs[ls[ns[m].in].conf].buf_sz
          BY <1>1, <4>1, <4>4, HomesLive DEF Fit
        <5>2. ks[ns[m].in].conf = ls[ns[m].in].conf
          <6>1. CASE ns[m].in # l
            BY <1>4, <5>1, <6>1
          <6>2. CASE ns[m].in = l
            <7>1. m \in Exported(ms, l)
              BY <4>1, <4>4, <6>2 DEF Exported
            <7>2. Cardinality(Exported(ms, l)) > 0
              BY <7>1, CountsFinite, FS_EmptySet
            <7>3. k.conf # Nil
              BY <1>2, <1>4, <1>8, <7>2
            <7> QED BY <1>2, <1>4, <5>1, <6>2, <7>3, ConfAssumption DEF Relinks
          <6> QED BY <6>1, <6>2
        <5> QED BY <4>1, <5>1, <5>2 DEF Relinks
      <4> QED BY <4>2, <4>3, <4>4
    <3> QED BY <3>1, <3>2
  <2> QED BY <2>1, <2>2 DEF Fit
<1> QED
  BY <1>2, <1>3, <1>5, <1>6, <1>7, <1>9, <1>10 DEF InvOf

(* What the invariant says of one block of links. *)
LEMMA BlockOf ==
  ASSUME IInv, NEW l \in Link
  PROVE  /\ link[l] \in LinkRec /\ link[l].l_ref \in Nat /\ link[l].l_ref <= LinkSz
         /\ link[l].conf # Nil <=> link[l].l_ref > 0
         /\ \A n \in Node : node[n].st = "export" /\ node[n].in = l => link[l].l_ref > 0
         /\ \A x \in Conf : conf[x].ref_link = l => link[l].conf = x /\ link[l].l_ref < LinkSz
<1>1. Types(conf, base, node, link, def, users) /\ Blocks(conf, node, link)
  BY DEF IInv, InvOf
<1>2. link[l] \in LinkRec /\ link[l].l_ref \in Nat
  BY <1>1 DEF Types, LinkRec
<1>3. /\ link[l].l_ref <= LinkSz /\ (link[l].conf # Nil <=> link[l].l_ref > 0)
      /\ link[l].l_ref = Cardinality(Exported(node, l))
  BY <1>1 DEF Blocks
<1>4. \A n \in Node : node[n].st = "export" /\ node[n].in = l => link[l].l_ref > 0
  <2> SUFFICES ASSUME NEW n \in Node, node[n].st = "export", node[n].in = l
               PROVE  link[l].l_ref > 0
    OBVIOUS
  <2>1. n \in Exported(node, l)
    BY DEF Exported
  <2>2. Cardinality(Exported(node, l)) > 0
    BY <2>1, CountsFinite, FS_EmptySet
  <2> QED BY <1>3, <2>2
<1>5. \A x \in Conf : conf[x].ref_link = l => link[l].conf = x /\ link[l].l_ref < LinkSz
  <2>1. l # Nil
    BY ConfAssumption
  <2> QED BY <1>1, <2>1 DEF Blocks
<1> QED BY <1>2, <1>3, <1>4, <1>5

(* A change of ref_link keeps the rest of the configuration. *)
Relink(cs, c, j) == [cs EXCEPT ![c].ref_link = j]

(* Changing the link of a configuration changes nothing else. *)
LEMMA RelinkIs ==
  ASSUME NEW cs \in [Conf -> ConfRec], NEW c \in Conf, NEW j \in Link \cup {Nil}
  PROVE  LET ds == Relink(cs, c, j) IN
         /\ ds \in [Conf -> ConfRec]
         /\ \A x \in Conf : /\ ds[x].st = cs[x].st /\ ds[x].user_ref = cs[x].user_ref
                            /\ ds[x].ref = cs[x].ref /\ ds[x].buf_sz = cs[x].buf_sz
                            /\ ds[x].grpalloc = cs[x].grpalloc /\ ds[x].cbs = cs[x].cbs
                            /\ ds[x].ref_link = IF x = c THEN j ELSE cs[x].ref_link
<1> DEFINE r == [cs[c] EXCEPT !.ref_link = j]
<1>1. cs[c] \in ConfRec
  OBVIOUS
<1>2. Relink(cs, c, j) = [cs EXCEPT ![c] = r]
  BY DEF Relink
<1>3. r \in ConfRec
  BY <1>1 DEF ConfRec
<1>4. r.st = cs[c].st /\ r.user_ref = cs[c].user_ref /\ r.ref = cs[c].ref
  BY <1>1 DEF ConfRec
<1>5. /\ r.buf_sz = cs[c].buf_sz /\ r.grpalloc = cs[c].grpalloc
      /\ r.ref_link = j /\ r.cbs = cs[c].cbs
  BY <1>1 DEF ConfRec
<1> HIDE DEF r
<1> QED
  BY <1>2, <1>3, <1>4, <1>5

(* vstr__convert_buf_ref_add() puts node n of string b on block l. *)
LEMMA ExportInv ==
  ASSUME IInv, NEW b \in Base, NEW n \in Node, NEW l \in Link,
         \/ ExportNew(b, n, l)
         \/ Export(b, n) /\ l = conf[base[b].conf].ref_link
  PROVE  IInv'
<1> DEFINE c == base[b].conf
           r == [node[n] EXCEPT !.st = "export", !.in = l]
           k == [conf |-> c, l_ref |-> link[l].l_ref + 1]
           j == Linked(l)
<1>1. /\ base[b].st = "live" /\ node[n].st = "base" /\ node[n].in = b
      /\ base' = base /\ def' = def /\ users' = users
      /\ node' = [node EXCEPT ![n] = r]
  BY DEF ExportNew, Export, NodesOf
<1>2. InvOf(conf, base, node, link, def, users, Kept)
  BY DEF IInv
<1>3. /\ c \in Conf /\ conf[c].st = "live" /\ conf \in [Conf -> ConfRec]
      /\ node[n] \in NodeRec /\ node[n].sz = conf[c].buf_sz
  BY <1>1, LiveOnes, NodeSizes
<1>4. r \in NodeRec /\ r.st = "export" /\ r.in = l /\ r.sz = conf[c].buf_sz
  <2>1. l \in Conf \cup Base \cup Link \cup {Nil}
    OBVIOUS
  <2> QED BY <1>3, <2>1 DEF NodeRec
<1>5. link[l].l_ref \in Nat /\ link \in [Link -> LinkRec]
  BY BlockOf, LiveOnes
<1>6. k \in LinkRec /\ k.conf = c /\ k.l_ref = link[l].l_ref + 1
  BY <1>3, <1>5 DEF LinkRec
<1>7. j \in Link \cup {Nil} /\ (j = l => link[l].l_ref + 1 < LinkSz)
  BY <1>5, ConfAssumption DEF Linked
<1>8. /\ link' = [link EXCEPT ![l] = k] /\ link[l].l_ref < LinkSz
      /\ link[l].conf \in {c, Nil}
      /\ \A x \in Conf : x # c => conf[x].ref_link # l
      /\ conf' \in [Conf -> ConfRec]
      /\ \A x \in Conf : /\ conf'[x].st = conf[x].st /\ conf'[x].user_ref = conf[x].user_ref
                         /\ conf'[x].ref = conf[x].ref + To(k, x) - To(link[l], x)
                         /\ conf'[x].buf_sz = conf[x].buf_sz
                         /\ conf'[x].grpalloc = conf[x].grpalloc
                         /\ conf'[x].ref_link = IF x = c THEN j ELSE conf[x].ref_link
  <2>1. CASE ExportNew(b, n, l)
    <3>1. /\ link[l] = NoLink /\ link' = [link EXCEPT ![l] = [conf |-> c, l_ref |-> 1]]
          /\ conf' = [AddConf(conf, c) EXCEPT ![c].ref_link = j]
      BY <2>1 DEF ExportNew
    <3>2. link[l].l_ref = 0 /\ link[l].conf = Nil /\ c # Nil
      BY <1>3, <3>1, ConfAssumption DEF NoLink
    <3>3. link' = [link EXCEPT ![l] = k] /\ link[l].l_ref < LinkSz
      BY <3>1, <3>2, ConfAssumption
    <3>4. \A x \in Conf : conf[x].ref_link # l
      BY <3>2, BlockOf, ConfAssumption
    <3> DEFINE es == AddConf(conf, c)
    <3>5. /\ es \in [Conf -> ConfRec] /\ SameShape(conf, es)
          /\ \A x \in Conf : /\ es[x].st = conf[x].st /\ es[x].user_ref = conf[x].user_ref
                             /\ es[x].ref = conf[x].ref + (IF x = c THEN 1 ELSE 0)
      BY <1>3, AddConfIs
    <3>6. conf' = Relink(es, c, j)
      BY <3>1 DEF Relink
    <3> HIDE DEF es, k, j
    <3>7. \A x \in Conf : (IF x = c THEN 1 ELSE 0) = To(k, x) /\ To(link[l], x) = 0
      BY <1>6, <3>2, ConfAssumption DEF To
    <3>8. \A x \in Conf : conf[x].ref \in Nat
      BY CountsOf
    <3>9. /\ conf' \in [Conf -> ConfRec]
          /\ \A x \in Conf : /\ conf'[x].st = es[x].st /\ conf'[x].user_ref = es[x].user_ref
                             /\ conf'[x].ref = es[x].ref /\ conf'[x].buf_sz = es[x].buf_sz
                             /\ conf'[x].grpalloc = es[x].grpalloc
                             /\ conf'[x].ref_link = IF x = c THEN j ELSE es[x].ref_link
      BY <1>3, <1>7, <3>5, <3>6, RelinkIs
    <3>10. \A x \in Conf : conf'[x].ref = conf[x].ref + To(k, x) - To(link[l], x)
      <4>1. \A x \in Conf : To(k, x) \in {0, 1}
        BY DEF To
      <4> QED BY <3>5, <3>7, <3>8, <3>9, <4>1
    <3> QED BY <3>2, <3>3, <3>4, <3>5, <3>9, <3>10 DEF SameShape
  <2>2. CASE Export(b, n) /\ l = conf[c].ref_link
    <3>1. /\ link' = [link EXCEPT ![l].l_ref = @ + 1]
          /\ conf' = Relink(conf, c, j)
      BY <2>2 DEF Export, Relink
    <3>2. link[l].conf = c /\ link[l].l_ref < LinkSz
      BY <1>3, <2>2, BlockOf
    <3>3. [link[l] EXCEPT !.l_ref = @ + 1] = k
      <4>1. link[l] = [conf |-> link[l].conf, l_ref |-> link[l].l_ref]
        BY <1>5 DEF LinkRec
      <4> QED BY <3>2, <4>1
    <3>4. link' = [link EXCEPT ![l] = k]
      BY <3>1, <3>3
    <3>5. \A x \in Conf : x # c => conf[x].ref_link # l
      BY <3>2, BlockOf
    <3> HIDE DEF k, j
    <3>6. \A x \in Conf : conf[x].ref = conf[x].ref + To(k, x) - To(link[l], x)
      <4>1. \A x \in Conf : conf[x].ref \in Nat
        BY CountsOf
      <4> QED BY <1>6, <3>2, <4>1 DEF To
    <3>7. /\ conf' \in [Conf -> ConfRec]
          /\ \A x \in Conf : /\ conf'[x].st = conf[x].st /\ conf'[x].user_ref = conf[x].user_ref
                             /\ conf'[x].ref = conf[x].ref /\ conf'[x].buf_sz = conf[x].buf_sz
                             /\ conf'[x].grpalloc = conf[x].grpalloc
                             /\ conf'[x].ref_link = IF x = c THEN j ELSE conf[x].ref_link
      BY <1>3, <1>7, <3>1, RelinkIs
    <3> QED BY <3>2, <3>4, <3>5, <3>6, <3>7
  <2> QED BY <2>1, <2>2
<1> HIDE DEF c, r, k, j
<1>9. Relinks(conf, node, link, conf', node', link', Kept, n, r, l, k)
  <2>1. /\ conf' \in [Conf -> ConfRec] /\ n \in Node /\ r \in NodeRec
        /\ node' = [node EXCEPT ![n] = r] /\ l \in Link /\ k \in LinkRec
        /\ link' = [link EXCEPT ![l] = k]
    BY <1>1, <1>4, <1>6, <1>8
  <2>2. r.st = "export" /\ r.in = l /\ k.conf \in Conf /\ r.sz = conf'[k.conf].buf_sz
    BY <1>3, <1>4, <1>6, <1>8
  <2>3. node[n].st # "export"
    BY <1>1
  <2>4. k.l_ref + Out(node[n], l) = link[l].l_ref + Out(r, l)
    BY <1>1, <1>4, <1>5, <1>6 DEF Out
  <2>5. k.l_ref <= LinkSz /\ k.conf # Nil /\ k.l_ref > 0
    BY <1>3, <1>5, <1>6, <1>8, ConfAssumption
  <2>6. link[l].conf # Nil => k.conf = link[l].conf
    BY <1>6, <1>8
  <2>7. \A x \in Conf : conf[x].st = "live" =>
          /\ conf'[x].buf_sz = conf[x].buf_sz /\ conf'[x].grpalloc = conf[x].grpalloc
          /\ conf'[x].st \in Kept
    BY <1>8 DEF Kept
  <2>8. \A x \in Conf : /\ conf'[x].ref_link \in {conf[x].ref_link, Nil, l}
                        /\ conf'[x].ref_link = l => k.conf = x /\ k.l_ref < LinkSz
    <3>1. j \in {Nil, l}
      BY DEF j, Linked
    <3> QED BY <1>6, <1>7, <1>8, <3>1
  <2>9. \A x \in Conf : /\ conf'[x].user_ref = conf[x].user_ref
                        /\ conf'[x].ref + To(link[l], x) = conf[x].ref + To(k, x)
    <3>1. \A x \in Conf : conf[x].ref \in Nat /\ To(link[l], x) \in Int /\ To(k, x) \in Int
      BY CountsOf DEF To
    <3> QED BY <1>8, <3>1
  <2>10. Alive(conf')
    <3>1. \A x \in Conf : conf[x].ref \in Nat /\ (conf[x].st = "live" <=> conf[x].ref > 0)
      BY CountsOf
    <3>2. \A x \in Conf : x = c \/ conf'[x].ref = conf[x].ref
      BY <1>6, <1>8, <3>1, ConfAssumption DEF To
    <3>3. To(k, c) = 1 /\ To(link[l], c) \in {0, 1}
      BY <1>6 DEF To
    <3>4. conf[c].ref > 0 /\ conf'[c].ref > 0
      BY <1>3, <1>8, <3>1, <3>3
    <3> QED BY <1>3, <1>8, <3>1, <3>2, <3>4 DEF Alive
  <2> QED
    BY ONLY <2>1, <2>2, <2>3, <2>4, <2>5, <2>6, <2>7, <2>8, <2>9, <2>10 DEF Relinks
<1>10. InvOf(conf', base, node', link', def, users, Kept)
  BY <1>2, <1>9, LinkStep
<1> QED BY <1>1, <1>10 DEF IInv

(* vstr__ref_cb_relink_bufnode_ref(), whatever has become of the string    *)
(* and of the user's handles in the meantime.                              *)
LEMMA ReleaseInv ==
  ASSUME IInv, NEW n \in Node, Release(n)
  PROVE  IInv'
<1> DEFINE l == node[n].in
           c == link[l].conf
           r == [node[n] EXCEPT !.st = "spare", !.in = c]
           k == IF link[l].l_ref = 1 THEN NoLink
                ELSE [conf |-> c, l_ref |-> link[l].l_ref - 1]
           j == IF conf[c].ref_link = l THEN Nil ELSE conf[c].ref_link
           ds == Unlink(conf, l)
           ms == [node EXCEPT ![n] = r]
           ks == [link EXCEPT ![l] = k]
<1>1. /\ node[n].st = "export" /\ conf' = ds /\ link' = ks
      /\ node' = NodesLeft(conf', ms) /\ base' = BasesLeft(conf', base)
      /\ def' = def /\ users' = users
  BY DEF Release
<1>2. InvOf(conf, base, node, link, def, users, Kept)
  BY DEF IInv
<1>3. /\ l \in Link /\ c \in Conf /\ conf[c].st = "live" /\ conf \in [Conf -> ConfRec]
      /\ node[n] \in NodeRec /\ node[n].sz = conf[c].buf_sz
  BY <1>1, LiveOnes, NodeSizes
<1>4. r \in NodeRec /\ r.st = "spare" /\ r.in = c /\ r.sz = conf[c].buf_sz
  <2>1. c \in Conf \cup Base \cup Link \cup {Nil}
    BY <1>3
  <2> HIDE DEF c
  <2> QED BY <1>3, <2>1 DEF NodeRec
<1>5. /\ link[l] \in LinkRec /\ link[l].l_ref \in Nat /\ link[l].l_ref <= LinkSz
      /\ link[l].l_ref > 0 /\ c # Nil /\ link \in [Link -> LinkRec]
      /\ \A x \in Conf : conf[x].ref_link = l => x = c
  <2>1. \A x \in Conf : conf[x].ref_link = l => link[l].conf = x
    BY <1>3, BlockOf
  <2>2. /\ link[l] \in LinkRec /\ link[l].l_ref \in Nat /\ link[l].l_ref <= LinkSz
        /\ link[l].l_ref > 0
    BY <1>1, <1>3, BlockOf
  <2> QED BY <1>3, <2>1, <2>2, LiveOnes, ConfAssumption
<1>6. conf[c].ref_link \in Link \cup {Nil} /\ j \in Link \cup {Nil} /\ l # Nil
  BY <1>3, ConfAssumption DEF ConfRec
<1> HIDE DEF l, c, r, j
<1>7. /\ k \in LinkRec /\ k.l_ref = link[l].l_ref - 1
      /\ k.conf = IF link[l].l_ref = 1 THEN Nil ELSE c
  <2>1. CASE link[l].l_ref = 1
    BY <2>1 DEF NoLink, LinkRec
  <2>2. CASE link[l].l_ref # 1
    <3>1. link[l].l_ref - 1 \in Nat /\ k = [conf |-> c, l_ref |-> link[l].l_ref - 1]
      BY <1>5, <2>2
    <3>2. k \in LinkRec
      BY <1>3, <3>1 DEF LinkRec
    <3>3. k.l_ref = link[l].l_ref - 1 /\ k.conf = c
      BY <3>1
    <3> QED BY <2>2, <3>2, <3>3
  <2> QED BY <2>1, <2>2
<1> HIDE DEF k
<1>8. conf[c].ref > 0 /\ \A x \in Conf : conf[x].ref \in Nat /\ conf[x].user_ref \in Nat
  BY <1>3, CountsOf
<1>9. /\ ds \in [Conf -> ConfRec]
      /\ \A x \in Conf : /\ ds[x].user_ref = conf[x].user_ref
                         /\ ds[x].ref = conf[x].ref + To(k, x) - To(link[l], x)
                         /\ ds[x].st = IF ds[x].ref = 0 /\ conf[x].ref > 0
                                       THEN "freed" ELSE conf[x].st
                         /\ ds[x].buf_sz = conf[x].buf_sz
                         /\ ds[x].grpalloc = conf[x].grpalloc
                         /\ ds[x].ref_link =
                              IF link[l].l_ref = 1 /\ conf[x].ref_link = l
                              THEN Nil ELSE conf[x].ref_link
  <2>1. CASE link[l].l_ref = 1
    <3> DEFINE es == Relink(conf, c, j)
    <3>1. ds = DelConf(es, c)
      BY <2>1 DEF Unlink, Relink, c, j
    <3>2. /\ es \in [Conf -> ConfRec]
          /\ \A x \in Conf : /\ es[x].st = conf[x].st /\ es[x].user_ref = conf[x].user_ref
                             /\ es[x].ref = conf[x].ref /\ es[x].buf_sz = conf[x].buf_sz
                             /\ es[x].grpalloc = conf[x].grpalloc
                             /\ es[x].ref_link = IF x = c THEN j ELSE conf[x].ref_link
      BY <1>3, <1>6, RelinkIs
    <3> HIDE DEF es, ds
    <3>3. es[c].ref = conf[c].ref /\ es[c].ref > 0
      BY <1>3, <1>8, <3>2
    <3>4. /\ ds \in [Conf -> ConfRec] /\ SameShape(es, ds)
          /\ \A x \in Conf : /\ ds[x].st = IF x = c /\ es[c].ref = 1 THEN "freed" ELSE es[x].st
                             /\ ds[x].user_ref = es[x].user_ref
                             /\ ds[x].ref = es[x].ref - (IF x = c THEN 1 ELSE 0)
      BY <1>3, <3>1, <3>2, <3>3, DelConfIs
    <3>5. \A x \in Conf : To(k, x) = 0 /\ To(link[l], x) = IF x = c THEN 1 ELSE 0
      BY <1>7, <2>1, ConfAssumption DEF To, c
    <3>6. \A x \in Conf : ds[x].ref = conf[x].ref + To(k, x) - To(link[l], x)
      BY <1>8, <3>2, <3>4, <3>5
    <3>7. \A x \in Conf : ds[x].st = IF ds[x].ref = 0 /\ conf[x].ref > 0
                                     THEN "freed" ELSE conf[x].st
      <4> TAKE x \in Conf
      <4>1. /\ ds[x].st = IF x = c /\ es[c].ref = 1 THEN "freed" ELSE es[x].st
            /\ ds[x].ref = es[x].ref - (IF x = c THEN 1 ELSE 0)
            /\ es[x].st = conf[x].st /\ es[x].ref = conf[x].ref
        BY ONLY <3>2, <3>4
      <4>2. CASE x = c
        BY ONLY <3>3, <4>1, <4>2
      <4>3. CASE x # c
        BY ONLY <4>1, <4>3
      <4> QED BY <4>2, <4>3
    <3>8. \A x \in Conf : ds[x].ref_link = IF conf[x].ref_link = l THEN Nil ELSE conf[x].ref_link
      BY <1>5, <3>2, <3>4 DEF SameShape, j
    <3> QED BY <2>1, <3>2, <3>4, <3>6, <3>7, <3>8 DEF SameShape
  <2>2. CASE link[l].l_ref # 1
    <3>1. ds = conf
      BY <2>2 DEF Unlink
    <3>2. \A x \in Conf : conf[x].ref = conf[x].ref + To(k, x) - To(link[l], x)
      BY <1>7, <1>8, <2>2 DEF To, c
    <3> HIDE DEF ds
    <3> QED BY <1>3, <1>8, <2>2, <3>1, <3>2
  <2> QED BY <2>1, <2>2
<1>10. ms = [node EXCEPT ![n] = r] /\ ks = [link EXCEPT ![l] = k]
  OBVIOUS
<1> HIDE DEF ds, ms, ks
<1>11. Relinks(conf, node, link, ds, ms, ks, Leaving, n, r, l, k)
  <2>1. /\ ds \in [Conf -> ConfRec] /\ n \in Node /\ r \in NodeRec /\ l \in Link /\ k \in LinkRec
    BY <1>3, <1>4, <1>7, <1>9
  <2>2. r.st = "spare" /\ r.in \in Conf /\ ds[r.in].st \in Leaving /\ r.sz = ds[r.in].buf_sz
    BY <1>3, <1>4, <1>9 DEF Leaving
  <2>3. node[n].st = "export" => node[n].in = l
    BY DEF l
  <2>4. k.l_ref + Out(node[n], l) = link[l].l_ref + Out(r, l)
    BY <1>1, <1>4, <1>5, <1>7 DEF Out, l
  <2>5. k.l_ref <= LinkSz /\ (k.conf # Nil <=> k.l_ref > 0)
    BY <1>3, <1>5, <1>7, ConfAssumption
  <2>6. k.conf # Nil /\ link[l].conf # Nil => k.conf = link[l].conf
    BY <1>7 DEF c
  <2>7. \A x \in Conf : conf[x].st = "live" =>
          /\ ds[x].buf_sz = conf[x].buf_sz /\ ds[x].grpalloc = conf[x].grpalloc
          /\ ds[x].st \in Leaving
    BY <1>9 DEF Leaving
  <2>8. \A x \in Conf : /\ ds[x].ref_link \in {conf[x].ref_link, Nil, l}
                        /\ ds[x].ref_link = l => k.conf = x /\ k.l_ref < LinkSz
    BY <1>5, <1>6, <1>7, <1>9, ConfAssumption
  <2>9. \A x \in Conf : /\ ds[x].user_ref = conf[x].user_ref
                        /\ ds[x].ref + To(link[l], x) = conf[x].ref + To(k, x)
    <3>1. \A x \in Conf : To(link[l], x) \in Int /\ To(k, x) \in Int
      BY DEF To
    <3> QED BY <1>8, <1>9, <3>1
  <2>10. Alive(ds)
    <3>1. \A x \in Conf : conf[x].st = "live" <=> conf[x].ref > 0
      BY CountsOf
    <3>2. \A x \in Conf : ds[x].ref \in Nat
      BY <1>9 DEF ConfRec
    <3>3. \A x \in Conf : conf[x].ref = 0 => ds[x].ref = 0
      <4>1. \A x \in Conf : To(k, x) <= To(link[l], x) /\ To(link[l], x) \in {0, 1}
                            /\ To(k, x) \in {0, 1}
        BY <1>7, ConfAssumption DEF To, c
      <4> QED BY <1>9, <3>2, <4>1
    <3> QED BY <1>8, <1>9, <3>1, <3>2, <3>3 DEF Alive
  <2> QED
    BY ONLY <1>10, <2>1, <2>2, <2>3, <2>4, <2>5, <2>6, <2>7, <2>8, <2>9, <2>10 DEF Relinks
<1>12. InvOf(ds, base, ms, ks, def, users, Leaving)
  BY <1>2, <1>11, LinkStep
<1>13. InvOf(ds, BasesLeft(ds, base), NodesLeft(ds, ms), ks, def, users, Kept)
  BY <1>12, SweepInv
<1> QED BY <1>1, <1>13 DEF IInv

-----------------------------------------------------------------------------
(* Settings of a configuration *)

(* vstr_cache_add() registers a callback with the configuration. *)
LEMMA CacheAddInv ==
  ASSUME IInv, NEW c \in Conf, NEW k \in Caches, CacheAdd(c, k)
  PROVE  IInv'
<1> DEFINE r == [conf[c] EXCEPT !.cbs = Append(@, k)]
<1>1. /\ conf' = [conf EXCEPT ![c] = r]
      /\ base' = base /\ node' = node /\ link' = link /\ def' = def /\ users' = users
  BY DEF CacheAdd
<1>2. InvOf(conf, base, node, link, def, users, Kept)
  BY DEF IInv
<1>3. /\ conf \in [Conf -> ConfRec] /\ users \in [Conf -> Nat] /\ def \in Conf \cup {Nil}
      /\ conf[c] \in ConfRec
  BY CountsOf
<1>4. Append(conf[c].cbs, k) \in Seq(Caches)
  BY <1>3 DEF ConfRec
<1>5. r \in ConfRec
  BY <1>3, <1>4 DEF ConfRec
<1>6. r.st = conf[c].st /\ r.user_ref = conf[c].user_ref /\ r.ref = conf[c].ref
  BY <1>3 DEF ConfRec
<1>7. /\ r.buf_sz = conf[c].buf_sz /\ r.grpalloc = conf[c].grpalloc
      /\ r.ref_link = conf[c].ref_link
  BY <1>3 DEF ConfRec
<1> HIDE DEF r
<1>8. /\ conf' \in [Conf -> ConfRec]
      /\ \A x \in Conf : /\ conf'[x].st = conf[x].st /\ conf'[x].user_ref = conf[x].user_ref
                         /\ conf'[x].ref = conf[x].ref /\ conf'[x].buf_sz = conf[x].buf_sz
                         /\ conf'[x].grpalloc = conf[x].grpalloc
                         /\ conf'[x].ref_link = conf[x].ref_link
  BY <1>1, <1>3, <1>5, <1>6, <1>7
<1>9. Alive(conf')
  BY <1>8, CountsOf DEF Alive
<1>10. \A x \in Conf : conf[x].st = "live" =>
            /\ conf'[x].buf_sz = conf[x].buf_sz /\ conf'[x].grpalloc = conf[x].grpalloc
            /\ conf'[x].st \in Kept
  BY <1>8 DEF Kept
<1>11. \A x \in Conf : conf'[x].ref_link \in {conf[x].ref_link, Nil}
  BY <1>8
<1>12. \A x \in Conf : /\ conf'[x].user_ref = users[x] + (IF def = x THEN 1 ELSE 0)
                       /\ conf'[x].ref + conf[x].user_ref = conf[x].ref + conf'[x].user_ref
  BY <1>8, CountsOf
<1>13. InvOf(conf', base, node, link, def, users, Kept)
  BY <1>2, <1>3, <1>8, <1>9, <1>10, <1>11, <1>12, ConfOnly
<1> QED BY <1>1, <1>13 DEF IInv

(* The spare strings, which have the caches that were wanted, go. *)
LEMMA SetGrpallocInv ==
  ASSUME IInv, NEW c \in Conf, NEW g \in Grps, SetGrpalloc(c, g)
  PROVE  IInv'
<1> DEFINE r == [conf[c] EXCEPT !.grpalloc = g]
<1>1. /\ conf' = [conf EXCEPT ![c] = r]
      /\ base' = [b \in Base |-> IF b \in SpareBases(c) THEN NoBase ELSE base[b]]
      /\ node' = node /\ link' = link /\ def' = def /\ users' = users
  BY DEF SetGrpalloc
<1>2. /\ Types(conf, base, node, link, def, users) /\ Homes(base, node)
      /\ Refs(conf, base, link, def, users) /\ Alive(conf)
      /\ SparesOn(conf, base, node, Kept) /\ Blocks(conf, node, link)
      /\ Fit(conf, base, node, link)
  BY DEF IInv, InvOf
<1>3. conf \in [Conf -> ConfRec] /\ conf[c] \in ConfRec /\ base \in [Base -> BaseRec]
  BY LiveOnes
<1>4. r \in ConfRec
  BY <1>3 DEF ConfRec
<1>5. r.st = conf[c].st /\ r.user_ref = conf[c].user_ref /\ r.ref = conf[c].ref
  BY <1>3 DEF ConfRec
<1>6. /\ r.buf_sz = conf[c].buf_sz /\ r.grpalloc = g /\ r.ref_link = conf[c].ref_link
  BY <1>3 DEF ConfRec
<1> HIDE DEF r
<1>7. /\ conf' \in [Conf -> ConfRec]
      /\ \A x \in Conf : /\ conf'[x].st = conf[x].st /\ conf'[x].user_ref = conf[x].user_ref
                         /\ conf'[x].ref = conf[x].ref /\ conf'[x].buf_sz = conf[x].buf_sz
                         /\ conf'[x].grpalloc = IF x = c THEN g ELSE conf[x].grpalloc
                         /\ conf'[x].ref_link = conf[x].ref_link
  BY <1>1, <1>3, <1>4, <1>5, <1>6
<1>8. NoBase \in BaseRec /\ NoBase.st = "none"
  BY ConfAssumption DEF NoBase, BaseRec, NoData
<1>9. base' \in [Base -> BaseRec]
  BY <1>1, <1>3, <1>8
<1>10. \A b \in Base : /\ base[b].st = "live" => base'[b] = base[b]
                       /\ base'[b].st = "spare" =>
                            base'[b] = base[b] /\ base[b].conf # c
                       /\ base'[b].st \in {"none", base[b].st}
                       /\ base'[b].st # "none" => base'[b] = base[b]
  BY <1>1, <1>8 DEF SpareBases
<1>11. Types(conf', base', node, link, def, users)
  BY <1>2, <1>7, <1>9 DEF Types
<1>12. Homes(base', node)
  BY <1>2, <1>10 DEF Homes
<1>13. \A x : LiveB(base', x) = LiveB(base, x)
  BY <1>10 DEF LiveB
<1>14. Refs(conf', base', link, def, users)
  BY <1>2, <1>7, <1>13 DEF Refs
<1>15. Alive(conf')
  BY <1>2, <1>7 DEF Alive
<1>16. SparesOn(conf', base', node, Kept)
  BY <1>2, <1>7, <1>10 DEF SparesOn, Homes
<1>17. Blocks(conf', node, link)
  BY <1>2, <1>7 DEF Blocks
<1>18. Fit(conf', base', node, link)
  <2>1. \A n \in Node : node[n].st = "spare" => node[n].sz = conf'[node[n].in].buf_sz
    BY <1>2, <1>7 DEF Fit, Homes
  <2>2. \A n \in Node : node[n].st = "export" => node[n].sz = conf'[link[node[n].in].conf].buf_sz
    BY <1>2, <1>7, LiveOnes DEF Fit
  <2>3. \A n \in Node : node[n].st = "base" => node[n].sz = conf'[base'[node[n].in].conf].buf_sz
    <3> SUFFICES ASSUME NEW n \in Node, node[n].st = "base"
                 PROVE  node[n].sz = conf'[base'[node[n].in].conf].buf_sz
      OBVIOUS
    <3>1. node[n].in \in Base /\ base[node[n].in].st = "live"
      BY LiveOnes
    <3>2. base'[node[n].in] = base[node[n].in] /\ base[node[n].in].conf \in Conf
      BY <1>10, <3>1, LiveOnes
    <3> QED BY <1>2, <1>7, <3>2 DEF Fit
  <2>4. \A b \in Base : base'[b].st = "spare" =>
          base'[b].grp = conf'[base'[b].conf].grpalloc /\ base'[b].data = NoData
    <3> SUFFICES ASSUME NEW b \in Base, base'[b].st = "spare"
                 PROVE  base'[b].grp = conf'[base'[b].conf].grpalloc /\ base'[b].data = NoData
      OBVIOUS
    <3>1. base'[b] = base[b] /\ base[b].st = "spare" /\ base[b].conf # c
      BY <1>10
    <3>2. base[b].conf \in Conf
      BY <3>1, LiveOnes
    <3> QED BY <1>2, <1>7, <3>1, <3>2 DEF Fit
  <2> QED BY <2>1, <2>2, <2>3, <2>4 DEF Fit
<1> QED
  BY <1>1, <1>11, <1>12, <1>14, <1>15, <1>16, <1>17, <1>18 DEF IInv, InvOf

(* The size of the nodes of c changes when nothing but handles depends on  *)
(* c: the spare nodes of the old size go with it.                          *)
Sized(cs, c, sz) == [cs EXCEPT ![c].buf_sz = sz]

(* Changing the size of the BUF nodes of a configuration changes nothing   *)
(* else.                                                                   *)
LEMMA SizedIs ==
  ASSUME NEW cs \in [Conf -> ConfRec], NEW c \in Conf, NEW sz \in BufSizes
  PROVE  LET ds == Sized(cs, c, sz) IN
         /\ ds \in [Conf -> ConfRec]
         /\ \A x \in Conf : /\ ds[x].st = cs[x].st /\ ds[x].user_ref = cs[x].user_ref
                            /\ ds[x].ref = cs[x].ref /\ ds[x].cbs = cs[x].cbs
                            /\ ds[x].buf_sz = IF x = c THEN sz ELSE cs[x].buf_sz
                            /\ ds[x].grpalloc = cs[x].grpalloc
                            /\ ds[x].ref_link = cs[x].ref_link
<1> DEFINE r == [cs[c] EXCEPT !.buf_sz = sz]
<1>1. cs[c] \in ConfRec
  OBVIOUS
<1>2. Sized(cs, c, sz) = [cs EXCEPT ![c] = r]
  BY DEF Sized
<1>3. r \in ConfRec
  BY <1>1 DEF ConfRec
<1>4. r.st = cs[c].st /\ r.user_ref = cs[c].user_ref /\ r.ref = cs[c].ref
  BY <1>1 DEF ConfRec
<1>5. /\ r.buf_sz = sz /\ r.grpalloc = cs[c].grpalloc
      /\ r.ref_link = cs[c].ref_link /\ r.cbs = cs[c].cbs
  BY <1>1 DEF ConfRec
<1> HIDE DEF r
<1> QED
  BY <1>2, <1>3, <1>4, <1>5

Resizes(c, sz, ms) ==
  /\ c \in Conf /\ sz \in BufSizes /\ ms \in [Node -> NodeRec]
  /\ \A n \in Node : ms[n] = node[n] \/ (node[n].st = "spare" /\ ms[n].st = "none")
  /\ sz # conf[c].buf_sz => /\ OnlyUsers(c)
                            /\ \A n \in Node : ~(ms[n].st = "spare" /\ ms[n].in = c)

(* A new size of BUF nodes, with the spare nodes of the old one gone,      *)
(* keeps the invariant.                                                    *)
LEMMA ResizeInv ==
  ASSUME IInv, NEW c, NEW sz, NEW ms, Resizes(c, sz, ms)
  PROVE  InvOf(Sized(conf, c, sz), base, ms, link, def, users, Kept)
<1> USE DEF Resizes
<1> DEFINE ds == Sized(conf, c, sz)
<1>1. /\ Types(conf, base, node, link, def, users) /\ Homes(base, node)
      /\ Refs(conf, base, link, def, users) /\ Alive(conf)
      /\ SparesOn(conf, base, node, Kept) /\ Blocks(conf, node, link)
      /\ Fit(conf, base, node, link)
  BY DEF IInv, InvOf
<1>2. /\ ds \in [Conf -> ConfRec]
      /\ \A x \in Conf : /\ ds[x].st = conf[x].st /\ ds[x].user_ref = conf[x].user_ref
                         /\ ds[x].ref = conf[x].ref /\ ds[x].cbs = conf[x].cbs
                         /\ ds[x].buf_sz = IF x = c THEN sz ELSE conf[x].buf_sz
                         /\ ds[x].grpalloc = conf[x].grpalloc
                         /\ ds[x].ref_link = conf[x].ref_link
  BY LiveOnes, SizedIs
<1> HIDE DEF ds
<1>3. ASSUME sz # conf[c].buf_sz
      PROVE  LiveB(base, c) = {} /\ LinksOf(link, c) = {}
  <2>1. conf[c].ref = conf[c].user_ref /\ conf[c].user_ref \in Nat
    BY <1>3, CountsOf DEF OnlyUsers
  <2>2. conf[c].ref = conf[c].user_ref + Cardinality(LiveB(base, c))
                      + Cardinality(LinksOf(link, c))
    BY <1>1 DEF Refs
  <2>3. Cardinality(LiveB(base, c)) \in Nat /\ Cardinality(LinksOf(link, c)) \in Nat
    BY CountsFinite
  <2>4. Cardinality(LiveB(base, c)) + Cardinality(LinksOf(link, c)) = 0
    BY <2>1, <2>2, <2>3
  <2> QED BY <2>4, NoneCounted
<1>4. \A l : Exported(ms, l) = Exported(node, l)
  BY DEF Exported
<1>5. Types(ds, base, ms, link, def, users)
  BY <1>1, <1>2 DEF Types
<1>6. Homes(base, ms)
  BY <1>1 DEF Homes
<1>7. Refs(ds, base, link, def, users) /\ Alive(ds)
  BY <1>1, <1>2 DEF Refs, Alive
<1>8. SparesOn(ds, base, ms, Kept)
  BY <1>1, <1>2 DEF SparesOn, Homes
<1>9. Blocks(ds, ms, link)
  BY <1>1, <1>2, <1>4 DEF Blocks
<1>10. Fit(ds, base, ms, link)
  <2>1. \A n \in Node : ms[n].st = "spare" => ms[n].sz = ds[ms[n].in].buf_sz
    BY <1>1, <1>2 DEF Fit, Homes
  <2>2. ASSUME NEW n \in Node, ms[n].st = "base"
        PROVE  ms[n].sz = ds[base[ms[n].in].conf].buf_sz
    <3>1. /\ ms[n] = node[n] /\ node[n].in \in Base /\ base[node[n].in].st = "live"
          /\ base[node[n].in].conf \in Conf
      BY <2>2, LiveOnes
    <3>2. node[n].sz = conf[base[node[n].in].conf].buf_sz
      BY <2>2, <3>1, NodeSizes
    <3>3. base[node[n].in].conf = c => sz = conf[c].buf_sz
      <4>1. base[node[n].in].conf = c => node[n].in \in LiveB(base, c)
        BY <3>1 DEF LiveB
      <4> QED BY <1>3, <4>1
    <3> QED BY <1>2, <3>1, <3>2, <3>3
  <2>3. ASSUME NEW n \in Node, ms[n].st = "export"
        PROVE  ms[n].sz = ds[link[ms[n].in].conf].buf_sz
    <3>1. ms[n] = node[n] /\ node[n].in \in Link /\ link[node[n].in].conf \in Conf
      BY <2>3, LiveOnes
    <3>2. node[n].sz = conf[link[node[n].in].conf].buf_sz
      BY <2>3, <3>1, NodeSizes
    <3>3. link[node[n].in].conf = c => sz = conf[c].buf_sz
      <4>1. link[node[n].in].conf = c => node[n].in \in LinksOf(link, c)
        BY <3>1 DEF LinksOf
      <4> QED BY <1>3, <4>1
    <3> QED BY <1>2, <3>1, <3>2, <3>3
  <2>4. \A b \in Base : base[b].st = "spare" =>
          base[b].grp = ds[base[b].conf].grpalloc /\ base[b].data = NoData
    BY <1>1, <1>2 DEF Fit, Homes
  <2> QED BY <2>1, <2>2, <2>3, <2>4 DEF Fit
<1> QED BY <1>5, <1>6, <1>7, <1>8, <1>9, <1>10 DEF InvOf, ds

(* vstr_cntl_conf() setting the size of BUF nodes keeps the invariant. *)
LEMMA SetBufSzInv ==
  ASSUME IInv, NEW c \in Conf, NEW sz \in BufSizes, SetBufSz(c, sz)
  PROVE  IInv'
<1>1. /\ SpareNodes(c) = {} /\ OnlyUsers(c) /\ conf' = Sized(conf, c, sz)
      /\ base' = base /\ node' = node /\ link' = link /\ def' = def /\ users' = users
  BY DEF SetBufSz, Sized
<1>2. node \in [Node -> NodeRec]
  BY LiveOnes
<1>3. \A n \in Node : ~(node[n].st = "spare" /\ node[n].in = c)
  BY <1>1 DEF SpareNodes
<1>4. Resizes(c, sz, node)
  BY <1>1, <1>2, <1>3 DEF Resizes
<1>5. InvOf(Sized(conf, c, sz), base, node, link, def, users, Kept)
  BY <1>4, ResizeInv
<1> QED BY <1>1, <1>5 DEF IInv

-----------------------------------------------------------------------------
(* Changing the configuration of a string *)

(* The first half of vstr_swap_conf(). *)
LEMMA ResizedInv ==
  ASSUME IInv, NEW c \in Conf, NEW o \in Conf,
         conf[o].buf_sz = conf[c].buf_sz \/ OnlyUsers(c)
  PROVE  /\ Resized(c, o) = Sized(conf, c, conf[o].buf_sz)
         /\ InvOf(Resized(c, o), base, ResizedNodes(c, o), link, def, users, Kept)
         /\ \A n \in Node : ResizedNodes(c, o)[n] = node[n] \/ ResizedNodes(c, o)[n] = NoNode
<1> DEFINE ms == ResizedNodes(c, o)
           sz == conf[o].buf_sz
<1>1. sz \in BufSizes /\ node \in [Node -> NodeRec]
  BY LiveOnes DEF ConfRec
<1>2. NoNode \in NodeRec /\ NoNode.st = "none"
  BY ConfAssumption DEF NoNode, NodeRec
<1>3. \A n \in Node : ms[n] = IF sz # conf[c].buf_sz /\ n \in SpareNodes(c)
                              THEN NoNode ELSE node[n]
  BY DEF ResizedNodes
<1>4. ms \in [Node -> NodeRec]
  BY <1>1, <1>2 DEF ResizedNodes
<1> HIDE DEF ms, sz
<1>5. \A n \in Node : ms[n] = node[n] \/ (node[n].st = "spare" /\ ms[n].st = "none")
  BY <1>2, <1>3 DEF SpareNodes
<1>6. sz # conf[c].buf_sz => \A n \in Node : ~(ms[n].st = "spare" /\ ms[n].in = c)
  BY <1>2, <1>3 DEF SpareNodes
<1>7. Resizes(c, sz, ms)
  BY <1>1, <1>4, <1>5, <1>6 DEF Resizes, sz
<1>8. Resized(c, o) = Sized(conf, c, sz)
  BY DEF Resized, Sized, sz
<1>9. InvOf(Sized(conf, c, sz), base, ms, link, def, users, Kept)
  BY <1>7, ResizeInv
<1>10. \A n \in Node : ms[n] = node[n] \/ ms[n] = NoNode
  BY <1>3
<1> QED BY <1>8, <1>9, <1>10 DEF ms, sz

(* A vstr_swap_conf() that fails keeps the invariant. *)
LEMMA SwapConfFailsInv ==
  ASSUME IInv, NEW b \in Base, NEW c \in Conf, SwapConfFails(b, c)
  PROVE  IInv'
<1> DEFINE o == base[b].conf
<1>1. /\ base[b].st = "live" /\ OnlyUsers(c) /\ conf' = Resized(c, o)
      /\ node' = ResizedNodes(c, o)
      /\ base' = base /\ link' = link /\ def' = def /\ users' = users
  BY DEF SwapConfFails
<1>2. o \in Conf
  BY <1>1, LiveOnes
<1>3. InvOf(Resized(c, o), base, ResizedNodes(c, o), link, def, users, Kept)
  BY <1>1, <1>2, ResizedInv
<1> QED BY <1>1, <1>3 DEF IInv

(* What a string's callbacks become when its configuration is swapped. *)
Merged(cbs, dup) == IF SubsetCbs(dup, cbs) THEN cbs ELSE DupCbs(cbs, dup)

(* The caches of two configurations, merged, are caches. *)
LEMMA MergedType ==
  ASSUME NEW cbs \in Seq(Caches), NEW dup \in Seq(Caches)
  PROVE  Merged(cbs, dup) \in Seq(Caches)
<1>1. CASE SubsetCbs(dup, cbs)
  BY <1>1 DEF Merged
<1>2. CASE ~SubsetCbs(dup, cbs)
  <2>1. Len(dup) \in Nat /\ Len(cbs) \in Nat
    OBVIOUS
  <2>2. SubSeq(cbs, Len(dup) + 1, Len(cbs)) \in Seq(Caches)
    <3>1. \A i \in (Len(dup) + 1) .. Len(cbs) : cbs[i] \in Caches
      BY <2>1
    <3> QED BY <2>1, <3>1
  <2> QED BY <1>2, <2>2 DEF Merged, DupCbs
<1> QED BY <1>1, <1>2

(* vstr_swap_conf() keeps the invariant. *)
LEMMA SwapConfInv ==
  ASSUME IInv, NEW b \in Base, NEW c \in Conf, SwapConf(b, c)
  PROVE  IInv'
<1> DEFINE o == base[b].conf
           es == Resized(c, o)
           ms == ResizedNodes(c, o)
           r == [base[b] EXCEPT !.conf = c]
           rc == [es[c] EXCEPT !.cbs = Merged(@, conf[o].cbs), !.user_ref = @ - 1]
           ro == [es[o] EXCEPT !.user_ref = @ + 1]
<1>1. /\ base[b].st = "live" /\ users[c] > 0 /\ o # c
      /\ conf[o].buf_sz = conf[c].buf_sz \/ OnlyUsers(c)
      /\ node' = ms
      /\ base' = [base EXCEPT ![b] = r]
      /\ users' = [users EXCEPT ![c] = @ - 1, ![o] = @ + 1]
      /\ link' = link /\ def' = def
  BY DEF SwapConf, Fits
<1>2. conf' = [es EXCEPT ![c].cbs = Merged(@, conf[o].cbs), ![c].user_ref = @ - 1,
                         ![o].user_ref = @ + 1]
  BY DEF SwapConf, Merged
<1>3. /\ o \in Conf /\ conf[o].st = "live" /\ conf[c].st = "live" /\ base[b] \in BaseRec
      /\ users \in [Conf -> Nat] /\ base \in [Base -> BaseRec] /\ conf \in [Conf -> ConfRec]
      /\ conf[o].buf_sz \in BufSizes
  <2>1. Named(c)
    BY <1>1 DEF Named
  <2>2. /\ o \in Conf /\ conf[o].st = "live" /\ conf[c].st = "live" /\ base[b] \in BaseRec
        /\ base \in [Base -> BaseRec] /\ conf \in [Conf -> ConfRec]
    BY <1>1, <2>1, LiveOnes
  <2> QED BY <2>2, CountsOf DEF ConfRec
<1>4. /\ es = Sized(conf, c, conf[o].buf_sz)
      /\ InvOf(es, base, ms, link, def, users, Kept)
      /\ \A n \in Node : ms[n] = node[n] \/ ms[n] = NoNode
  BY <1>1, <1>3, ResizedInv
<1>5. /\ es \in [Conf -> ConfRec]
      /\ \A x \in Conf : /\ es[x].st = conf[x].st /\ es[x].user_ref = conf[x].user_ref
                         /\ es[x].ref = conf[x].ref /\ es[x].cbs = conf[x].cbs
                         /\ es[x].buf_sz = IF x = c THEN conf[o].buf_sz ELSE conf[x].buf_sz
                         /\ es[x].grpalloc = conf[x].grpalloc
                         /\ es[x].ref_link = conf[x].ref_link
  BY <1>3, <1>4, SizedIs
<1> HIDE DEF es, ms, o
<1>6. /\ es[c] \in ConfRec /\ es[o] \in ConfRec
      /\ es[c].user_ref \in Nat /\ es[c].user_ref - 1 \in Nat
      /\ es[o].user_ref \in Nat /\ es[o].user_ref + 1 \in Nat
      /\ Merged(es[c].cbs, conf[o].cbs) \in Seq(Caches)
  <2>1. conf[c].cbs \in Seq(Caches) /\ conf[o].cbs \in Seq(Caches)
    BY <1>3 DEF ConfRec
  <2>2. Merged(es[c].cbs, conf[o].cbs) \in Seq(Caches)
    BY <1>5, <2>1, MergedType
  <2>3. conf[c].user_ref > 0 /\ conf[c].user_ref \in Nat /\ conf[o].user_ref \in Nat
    BY <1>1, <1>3, CountsOf
  <2> QED BY <1>3, <1>5, <2>2, <2>3
<1>7. rc \in ConfRec
  BY <1>6 DEF ConfRec
<1>8. rc.st = es[c].st /\ rc.user_ref = es[c].user_ref - 1 /\ rc.ref = es[c].ref
  BY <1>6 DEF ConfRec
<1>9. /\ rc.buf_sz = es[c].buf_sz /\ rc.grpalloc = es[c].grpalloc
      /\ rc.ref_link = es[c].ref_link
  BY <1>6 DEF ConfRec
<1>10. ro \in ConfRec
  BY <1>6 DEF ConfRec
<1>11. ro.st = es[o].st /\ ro.user_ref = es[o].user_ref + 1 /\ ro.ref = es[o].ref
  BY <1>6 DEF ConfRec
<1>12. /\ ro.buf_sz = es[o].buf_sz /\ ro.grpalloc = es[o].grpalloc
       /\ ro.ref_link = es[o].ref_link
  BY <1>6 DEF ConfRec
<1>13. conf' = [[es EXCEPT ![c] = rc] EXCEPT ![o] = ro]
  BY <1>1, <1>2, <1>3, <1>5
<1> HIDE DEF rc, ro
<1>14. /\ conf' \in [Conf -> ConfRec]
       /\ \A x \in Conf : conf'[x] = IF x = o THEN ro ELSE IF x = c THEN rc ELSE es[x]
  BY <1>5, <1>7, <1>10, <1>13
<1>15. \A x \in Conf :
         /\ conf'[x].st = es[x].st /\ conf'[x].ref = es[x].ref
         /\ conf'[x].buf_sz = es[x].buf_sz /\ conf'[x].grpalloc = es[x].grpalloc
         /\ conf'[x].ref_link = es[x].ref_link
  BY <1>8, <1>9, <1>11, <1>12, <1>14
<1>16. \A x \in Conf : conf'[x].user_ref = es[x].user_ref + (IF x = o THEN 1 ELSE 0)
                                           - (IF x = c THEN 1 ELSE 0)
  <2>1. \A x \in Conf : es[x].user_ref \in Nat
    BY <1>5 DEF ConfRec
  <2> QED BY <1>1, <1>8, <1>11, <1>14, <2>1
<1>17. r \in BaseRec /\ r.st = "live" /\ r.conf = c
  <2>1. r \in BaseRec
    BY <1>3 DEF BaseRec
  <2>2. r.st = "live" /\ r.conf = c
    BY <1>1, <1>3 DEF BaseRec
  <2> QED BY <2>1, <2>2
<1>18. /\ users' \in [Conf -> Nat]
       /\ \A x \in Conf : users'[x] = users[x] + (IF x = o THEN 1 ELSE 0)
                                      - (IF x = c THEN 1 ELSE 0)
  BY <1>1, <1>3
<1>19. Becomes(es, base, ms, def, conf', base', users', Kept, b, r)
  <2>1. /\ conf' \in [Conf -> ConfRec] /\ users' \in [Conf -> Nat] /\ b \in Base
        /\ r \in BaseRec /\ base' = [base EXCEPT ![b] = r] /\ r.conf \in Conf
    BY <1>1, <1>14, <1>17, <1>18
  <2>2. r.st = "live" /\ conf'[r.conf].buf_sz = es[base[b].conf].buf_sz
    BY <1>1, <1>3, <1>5, <1>15, <1>17 DEF o
  <2>3. \A x \in Conf : es[x].st = "live" =>
          /\ conf'[x].buf_sz = es[x].buf_sz /\ conf'[x].grpalloc = es[x].grpalloc
          /\ conf'[x].st \in Kept
    BY <1>15 DEF Kept
  <2>4. \A x \in Conf : conf'[x].ref_link \in {es[x].ref_link, Nil}
    BY <1>15
  <2>5. \A x \in Conf : conf'[x].user_ref = users'[x] + (IF def = x THEN 1 ELSE 0)
    BY <1>5, <1>16, <1>18, CountsOf
  <2>6. \A x \in Conf : conf'[x].ref + es[x].user_ref + On(base[b], x) =
                        es[x].ref + conf'[x].user_ref + On(r, x)
    <3>1. \A x \in Conf : es[x].user_ref \in Nat /\ es[x].ref \in Nat
      BY <1>5 DEF ConfRec
    <3>2. \A x \in Conf : /\ On(base[b], x) = IF x = o THEN 1 ELSE 0
                          /\ On(r, x) = IF x = c THEN 1 ELSE 0
      BY <1>1, <1>17 DEF On, o
    <3> QED BY <1>1, <1>15, <1>16, <3>1, <3>2
  <2>7. Alive(conf')
    BY <1>4, <1>15 DEF InvOf, Alive
  <2> QED
    BY ONLY <2>1, <2>2, <2>3, <2>4, <2>5, <2>6, <2>7 DEF Becomes
<1>20. InvOf(conf', base', ms, link, def, users', Kept)
  BY <1>4, <1>19, BaseStep
<1> QED BY <1>1, <1>20 DEF IInv

(* vstr__base_set_conf() keeps the invariant. *)
LEMMA BaseSetConfInv ==
  ASSUME IInv, NEW b \in Base, NEW c \in Conf, BaseSetConf(b, c)
  PROVE  IInv'
<1> DEFINE o == base[b].conf
           es == DelConf(conf, o)
           ds == AddConf(es, c)
           r == [base[b] EXCEPT !.conf = c]
           fs == [base EXCEPT ![b] = r]
<1>1. /\ base[b].st = "live" /\ Named(c) /\ o # c
      /\ conf[c].buf_sz = conf[o].buf_sz \/ NodesOf(b) = {}
      /\ conf' = ds /\ node' = NodesLeft(conf', node) /\ base' = BasesLeft(conf', fs)
      /\ link' = link /\ def' = def /\ users' = users
  BY DEF BaseSetConf
<1>2. InvOf(conf, base, node, link, def, users, Kept)
  BY DEF IInv
<1>3. /\ o \in Conf /\ conf[o].st = "live" /\ conf[c].st = "live" /\ base[b] \in BaseRec
      /\ users \in [Conf -> Nat] /\ conf \in [Conf -> ConfRec]
  BY <1>1, LiveOnes, CountsOf
<1>4. conf[o].ref > 0 /\ conf[c].ref > 0
  BY <1>3, CountsOf
<1>5. /\ es \in [Conf -> ConfRec] /\ SameShape(conf, es)
      /\ \A x \in Conf : /\ es[x].st = IF x = o /\ conf[o].ref = 1 THEN "freed" ELSE conf[x].st
                         /\ es[x].user_ref = conf[x].user_ref
                         /\ es[x].ref = conf[x].ref - (IF x = o THEN 1 ELSE 0)
  BY <1>3, <1>4, DelConfIs
<1> HIDE DEF es
<1>6. /\ ds \in [Conf -> ConfRec] /\ SameShape(es, ds)
      /\ \A x \in Conf : /\ ds[x].st = es[x].st /\ ds[x].user_ref = es[x].user_ref
                         /\ ds[x].ref = es[x].ref + (IF x = c THEN 1 ELSE 0)
  BY <1>5, AddConfIs
<1>7. r \in BaseRec /\ r.st = "live" /\ r.conf = c
  <2>1. r \in BaseRec
    BY <1>3 DEF BaseRec
  <2>2. r.st = "live" /\ r.conf = c
    BY <1>1, <1>3 DEF BaseRec
  <2> QED BY <2>1, <2>2
<1> HIDE DEF ds, r, o
<1>8. Becomes(conf, base, node, def, ds, fs, users, Leaving, b, r)
  <2>1. /\ ds \in [Conf -> ConfRec] /\ users \in [Conf -> Nat] /\ b \in Base
        /\ r \in BaseRec /\ fs = [base EXCEPT ![b] = r] /\ r.conf \in Conf
    BY <1>3, <1>6, <1>7
  <2>2. r.st = "live"
    BY <1>7
  <2>3. \A n \in Node : node[n].st = "base" /\ node[n].in = b =>
          ds[r.conf].buf_sz = conf[base[b].conf].buf_sz
    BY <1>1, <1>3, <1>5, <1>6, <1>7 DEF SameShape, NodesOf, o
  <2>4. \A x \in Conf : conf[x].st = "live" =>
          /\ ds[x].buf_sz = conf[x].buf_sz /\ ds[x].grpalloc = conf[x].grpalloc
          /\ ds[x].st \in Leaving
    BY <1>5, <1>6 DEF SameShape, Leaving
  <2>5. \A x \in Conf : ds[x].ref_link \in {conf[x].ref_link, Nil}
    BY <1>5, <1>6 DEF SameShape
  <2>6. \A x \in Conf : ds[x].user_ref = users[x] + (IF def = x THEN 1 ELSE 0)
    BY <1>5, <1>6, CountsOf
  <2>7. \A x \in Conf : ds[x].ref + conf[x].user_ref + On(base[b], x) =
                        conf[x].ref + ds[x].user_ref + On(r, x)
    <3>1. \A x \in Conf : conf[x].user_ref \in Nat /\ conf[x].ref \in Nat
      BY CountsOf
    <3>2. \A x \in Conf : /\ On(base[b], x) = IF x = o THEN 1 ELSE 0
                          /\ On(r, x) = IF x = c THEN 1 ELSE 0
      BY <1>1, <1>7 DEF On, o
    <3> QED BY <1>1, <1>5, <1>6, <3>1, <3>2
  <2>8. Alive(ds)
    <3>1. \A x \in Conf : conf[x].ref \in Nat /\ (conf[x].st = "live" <=> conf[x].ref > 0)
      BY CountsOf
    <3> QED BY <1>1, <1>3, <1>4, <1>5, <1>6, <3>1 DEF Alive
  <2> HIDE DEF fs
  <2> QED
    BY ONLY <2>1, <2>2, <2>3, <2>4, <2>5, <2>6, <2>7, <2>8 DEF Becomes
<1> HIDE DEF fs
<1>9. InvOf(ds, fs, node, link, def, users, Leaving)
  BY <1>2, <1>8, BaseStep
<1>10. InvOf(ds, BasesLeft(ds, fs), NodesLeft(ds, node), link, def, users, Kept)
  BY <1>9, SweepInv
<1> QED BY <1>1, <1>10 DEF IInv

-----------------------------------------------------------------------------
(* The theorems *)

(* Every step keeps the invariant. *)
LEMMA NextInv ==
  ASSUME IInv, [Next]_vars
  PROVE  IInv'
<1>1. CASE UNCHANGED vars
  BY <1>1 DEF vars, IInv
<1>2. ASSUME NEW c \in Conf, MakeConf(c) \/ GetConf(c) \/ FreeConf(c)
      PROVE  IInv'
  BY <1>2, MakeConfInv, GetConfInv, FreeConfInv
<1>3. ASSUME NEW c \in Conf, SetDefConf(c) \/ InitAgain(c)
      PROVE  IInv'
  BY <1>3, SetDefConfInv, InitAgainInv
<1>4. CASE Exit
  BY <1>4, ExitInv
<1>5. ASSUME NEW c \in Conf, NEW b \in Base,
             MakeBaseSpare(c, b) \/ MakeBase(c, b) \/ MakeSpareBase(c, b) \/ FreeSpareBase(c, b)
      PROVE  IInv'
  BY <1>5, MakeBaseInv
<1>6. ASSUME NEW b \in Base, FreeBase(b) \/ CacheFree(b)
      PROVE  IInv'
  BY <1>6, FreeBaseInv, CacheFreeInv
<1>7. ASSUME NEW c \in Conf, NEW g \in Grps, SetGrpalloc(c, g)
      PROVE  IInv'
  BY <1>7, SetGrpallocInv
<1>8. ASSUME NEW c \in Conf, NEW n \in Node, MakeSpareNode(c, n)
      PROVE  IInv'
  BY <1>8, SpareNodeInv
<1>9. ASSUME NEW n \in Node, FreeSpareNode(n) \/ Release(n)
      PROVE  IInv'
  <2>1. CASE Release(n)
    BY <2>1, ReleaseInv
  <2>2. CASE FreeSpareNode(n)
    <3>1. node[n].st = "spare"
      BY <2>2 DEF FreeSpareNode
    <3>2. node[n].in \in Conf
      BY <3>1, LiveOnes
    <3> QED BY <2>2, <3>2, SpareNodeInv
  <2> QED BY <1>9, <2>1, <2>2
<1>10. ASSUME NEW b \in Base, NEW n \in Node, AddNode(b, n) \/ DelNode(b, n) \/ Export(b, n)
       PROVE  IInv'
  <2>1. CASE AddNode(b, n) \/ DelNode(b, n)
    BY <2>1, MoveNodeInv
  <2>2. CASE Export(b, n)
    <3>1. base[b].st = "live" /\ conf[base[b].conf].ref_link # Nil
      BY <2>2 DEF Export
    <3>2. conf[base[b].conf].ref_link \in Link
      BY <3>1, LiveOnes DEF ConfRec
    <3> QED BY <2>2, <3>2, ExportInv
  <2> QED BY <1>10, <2>1, <2>2
<1>11. ASSUME NEW b \in Base, NEW n \in Node, NEW l \in Link, ExportNew(b, n, l)
       PROVE  IInv'
  BY <1>11, ExportInv
<1>12. ASSUME NEW c \in Conf, NEW sz \in BufSizes, SetBufSz(c, sz)
       PROVE  IInv'
  BY <1>12, SetBufSzInv
<1>13. ASSUME NEW c \in Conf, NEW k \in Caches, CacheAdd(c, k)
       PROVE  IInv'
  BY <1>13, CacheAddInv
<1>14. ASSUME NEW b \in Base, NEW i \in Slots, CacheSet(b, i)
       PROVE  IInv'
  BY <1>14, CacheSetInv
<1>15. ASSUME NEW b \in Base, NEW c \in Conf,
              SwapConf(b, c) \/ SwapConfFails(b, c) \/ BaseSetConf(b, c)
       PROVE  IInv'
  BY <1>15, SwapConfInv, SwapConfFailsInv, BaseSetConfInv
<1> QED
  BY <1>1, <1>2, <1>3, <1>4, <1>5, <1>6, <1>7, <1>8, <1>9, <1>10, <1>11, <1>12, <1>13,
     <1>14, <1>15 DEF Next

(* The counts of configurations and of blocks of links are exact, and      *)
(* nothing refers to a configuration that was freed, whatever the order in *)
(* which handles, strings and exported nodes are released                  *)
(* (vstr__del_conf(), vstr__ref_cb_relink_bufnode_ref()).                  *)
THEOREM ConfsCounted == Spec => []ConfInv
<1>1. Init => IInv
  BY InitInv
<1>2. IInv /\ [Next]_vars => IInv'
  BY NextInv
<1>3. IInv => ConfInv
  BY InvImplies
<1> QED
  BY <1>1, <1>2, <1>3, PTL DEF Spec

(* Every BUF node has the size its configuration believes it has, and a    *)
(* spare string the caches its configuration wants (vstr_make_base(),      *)
(* vstr_swap_conf(), VSTR_CNTL_CONF_SET_NUM_BUF_SZ).                       *)
THEOREM SparesUsable == Spec => []SparesFit
<1>1. Init => IInv
  BY InitInv
<1>2. IInv /\ [Next]_vars => IInv'
  BY NextInv
<1>3. IInv => SparesFit
  BY InvImplies
<1> QED
  BY <1>1, <1>2, <1>3, PTL DEF Spec

-----------------------------------------------------------------------------
(* Data of user caches *)

(* A step keeps the data covered if each string has none after it, or the  *)
(* data it had, and its configuration the callbacks it had and maybe more. *)
KeepsData(bs, fs, cs, ds) ==
  \A b \in Base : fs[b].st = "live" =>
    \/ fs[b].data = NoData
    \/ /\ bs[b].st = "live" /\ fs[b].data = bs[b].data
       /\ SubsetCbs(cs[bs[b].conf].cbs, ds[fs[b].conf].cbs)

(* A step that keeps strings with data on callbacks that cover it keeps    *)
(* the cover.                                                              *)
LEMMA CoverKept ==
  ASSUME IInv, CacheCbsCover, KeepsData(base, base', conf, conf')
  PROVE  CacheCbsCover'
<1> SUFFICES ASSUME NEW b \in Base, base'[b].st = "live",
                    NEW i \in Slots, base'[b].data[i] # Nil
             PROVE  /\ i <= Len(conf'[base'[b].conf].cbs)
                    /\ conf'[base'[b].conf].cbs[i] = base'[b].data[i]
  BY DEF CacheCbsCover
<1>1. base'[b].data # NoData
  BY DEF NoData
<1>2. /\ base[b].st = "live" /\ base'[b].data = base[b].data
      /\ SubsetCbs(conf[base[b].conf].cbs, conf'[base'[b].conf].cbs)
  BY <1>1 DEF KeepsData
<1>3. /\ i <= Len(conf[base[b].conf].cbs)
      /\ conf[base[b].conf].cbs[i] = base[b].data[i]
  BY <1>2 DEF CacheCbsCover
<1>4. conf[base[b].conf].cbs \in Seq(Caches)
  BY <1>2, LiveOnes DEF ConfRec
<1>5. i \in 1 .. Len(conf[base[b].conf].cbs)
  BY <1>3, <1>4 DEF Slots
<1>6. /\ Len(conf'[base'[b].conf].cbs) >= Len(conf[base[b].conf].cbs)
      /\ \A j \in 1 .. Len(conf[base[b].conf].cbs) :
           conf[base[b].conf].cbs[j] = conf'[base'[b].conf].cbs[j]
  BY <1>2 DEF SubsetCbs
<1> QED BY <1>2, <1>3, <1>4, <1>5, <1>6

(* Most steps leave the data and the callbacks alone, or take strings away. *)
Calm ==
  /\ \A b \in Base : base'[b].st = "live" => base'[b].data = NoData \/ base'[b] = base[b]
  /\ \A x \in Conf : conf[x].st = "live" => conf'[x].cbs = conf[x].cbs

(* A calm step keeps the cover. *)
LEMMA CalmCover ==
  ASSUME IInv, CacheCbsCover, Calm
  PROVE  CacheCbsCover'
<1>1. \A x \in Conf : SubsetCbs(conf[x].cbs, conf[x].cbs)
  <2>1. \A x \in Conf : Len(conf[x].cbs) \in Nat
    BY LiveOnes DEF ConfRec
  <2> QED BY <2>1 DEF SubsetCbs
<1>2. KeepsData(base, base', conf, conf')
  <2> SUFFICES ASSUME NEW b \in Base, base'[b].st = "live", base'[b].data # NoData
               PROVE  /\ base[b].st = "live" /\ base'[b].data = base[b].data
                      /\ SubsetCbs(conf[base[b].conf].cbs, conf'[base'[b].conf].cbs)
    BY DEF KeepsData
  <2>1. base'[b] = base[b]
    BY DEF Calm
  <2>2. base[b].conf \in Conf /\ conf[base[b].conf].st = "live"
    BY <2>1, LiveOnes
  <2>3. conf'[base'[b].conf].cbs = conf[base[b].conf].cbs
    BY <2>1, <2>2 DEF Calm
  <2> QED BY <1>1, <2>1, <2>2, <2>3
<1> QED BY <1>2, CoverKept

(* Sweeping takes no live string away. *)
LEMMA SweptLive ==
  ASSUME NEW cs, NEW bs, NEW b \in Base, BasesLeft(cs, bs)[b].st = "live"
  PROVE  BasesLeft(cs, bs)[b] = bs[b]
<1>1. NoBase.st = "none"
  BY DEF NoBase
<1> QED BY <1>1 DEF BasesLeft

(* Making, taking and freeing configurations are calm. *)
LEMMA HandlesCalm ==
  ASSUME IInv, NEW c \in Conf,
         \/ MakeConf(c) \/ InitAgain(c) \/ GetConf(c) \/ FreeConf(c)
         \/ SetDefConf(c) \/ Exit
  PROVE  Calm
<1>1. conf \in [Conf -> ConfRec] /\ users \in [Conf -> Nat] /\ def \in Conf \cup {Nil}
  BY CountsOf
<1>2. CASE MakeConf(c) \/ InitAgain(c)
  BY <1>1, <1>2 DEF MakeConf, InitAgain, Calm
<1>3. CASE GetConf(c)
  <2>1. SameShape(conf, AddUser(conf, c))
    BY <1>1, AddUserIs
  <2> QED BY <1>3, <2>1 DEF GetConf, SameShape, Calm
<1>4. ASSUME NEW o \in Conf, conf[o].user_ref > 0
      PROVE  SameShape(conf, FreeUser(conf, o)) /\ FreeUser(conf, o) \in [Conf -> ConfRec]
  <2>1. conf[o].ref > 0
    BY <1>4, CountsOf
  <2> QED BY <1>1, <1>4, <2>1, FreeUserIs
<1>5. CASE FreeConf(c)
  <2>1. conf[c].user_ref > 0
    BY <1>5, CountsOf DEF FreeConf
  <2> QED BY <1>4, <1>5, <2>1, SweptLive DEF FreeConf, SameShape, Calm
<1>6. ASSUME def # Nil
      PROVE  def \in Conf /\ conf[def].user_ref > 0
  <2>1. def \in Conf
    BY <1>1, <1>6
  <2> QED BY <2>1, CountsOf
<1>7. CASE SetDefConf(c)
  <2> DEFINE es == FreeUser(conf, def)
  <2>1. SameShape(conf, es) /\ es \in [Conf -> ConfRec]
    BY <1>4, <1>6, <1>7 DEF SetDefConf
  <2>2. conf' = AddUser(es, c) /\ base' = BasesLeft(conf', base)
    BY <1>7 DEF SetDefConf
  <2> HIDE DEF es
  <2>3. SameShape(es, conf')
    BY <2>1, <2>2, AddUserIs
  <2> QED BY <2>1, <2>2, <2>3, SweptLive DEF SameShape, Calm
<1>8. CASE Exit
  <2>1. SameShape(conf, FreeUser(conf, def))
    BY <1>4, <1>6, <1>8 DEF Exit
  <2> QED BY <1>8, <2>1, SweptLive DEF Exit, SameShape, Calm
<1> QED BY <1>2, <1>3, <1>5, <1>7, <1>8

(* Making and freeing strings are calm. *)
LEMMA StringsCalm ==
  ASSUME IInv, NEW b \in Base, NEW c \in Conf,
         \/ MakeBaseSpare(c, b) \/ MakeBase(c, b) \/ FreeBase(b)
         \/ MakeSpareBase(c, b) \/ FreeSpareBase(c, b) \/ CacheFree(b)
         \/ \E g \in Grps : SetGrpalloc(c, g)
  PROVE  Calm
<1>1. conf \in [Conf -> ConfRec] /\ base \in [Base -> BaseRec] /\ conf[c] \in ConfRec
  BY LiveOnes
<1>2. NoBase.st = "none" /\ NoBase.data = NoData
  BY DEF NoBase
<1>3. SameShape(conf, AddConf(conf, c))
  BY <1>1, AddConfIs
<1>4. CASE MakeBaseSpare(c, b)
  <2> DEFINE r == [base[b] EXCEPT !.st = "live"]
  <2>1. /\ base[b].st = "spare" /\ conf' = AddConf(conf, c)
        /\ base' = [base EXCEPT ![b] = r]
    BY <1>4 DEF MakeBaseSpare, SpareBases
  <2>2. base[b].data = NoData
    BY <2>1 DEF IInv, InvOf, Fit
  <2>3. r.data = NoData
    BY <1>1, <2>2 DEF BaseRec
  <2> HIDE DEF r
  <2>4. \A a \in Base : a # b => base'[a] = base[a]
    BY <1>1, <2>1
  <2>5. base'[b] = r
    BY <1>1, <2>1
  <2> QED BY <1>3, <2>1, <2>3, <2>4, <2>5 DEF Calm, SameShape
<1>5. CASE MakeBase(c, b)
  <2>1. conf' = AddConf(conf, c) /\ base' = [base EXCEPT ![b] = MallocBase(conf[c], c)]
    BY <1>5 DEF MakeBase
  <2>2. MallocBase(conf[c], c).data = NoData
    BY <1>1, MallocBaseType, ZenonT(40)
  <2>3. \A a \in Base : a # b => base'[a] = base[a]
    BY <1>1, <2>1
  <2>4. base'[b] = MallocBase(conf[c], c)
    BY <1>1, <2>1
  <2> QED BY <1>3, <2>1, <2>2, <2>3, <2>4 DEF Calm, SameShape
<1>6. CASE FreeBase(b)
  <2> DEFINE fs == FreedBase(base, conf, b)
  <2>1. /\ base[b].st = "live" /\ conf' = DelConf(conf, base[b].conf)
        /\ base' = BasesLeft(conf', fs)
    BY <1>6 DEF FreeBase
  <2>2. base[b].conf \in Conf /\ conf[base[b].conf].ref > 0
    BY <2>1, LiveOnes, CountsOf
  <2>3. SameShape(conf, conf')
    BY <1>1, <2>1, <2>2, DelConfIs
  <2>4. \A a \in Base : a # b => fs[a] = base[a]
    BY <1>1 DEF FreedBase
  <2>5. fs[b].st # "live"
    <3>1. CASE base[b].grp = conf[base[b].conf].grpalloc
      <4>1. fs[b] = [base[b] EXCEPT !.st = "spare", !.data = NoData]
        BY <1>1, <3>1 DEF FreedBase
      <4>2. fs[b].st = "spare"
        BY <1>1, <4>1 DEF BaseRec
      <4> QED BY <4>2
    <3>2. CASE base[b].grp # conf[base[b].conf].grpalloc
      <4>1. fs[b] = NoBase
        BY <1>1, <3>2 DEF FreedBase
      <4> QED BY <1>2, <4>1
    <3> QED BY <3>1, <3>2
  <2> HIDE DEF fs
  <2>6. \A a \in Base : base'[a].st = "live" => base'[a] = base[a]
    BY <2>1, <2>4, <2>5, SweptLive
  <2> QED BY <2>3, <2>6 DEF Calm, SameShape
<1>7. CASE MakeSpareBase(c, b)
  <2> DEFINE r == [MallocBase(conf[c], c) EXCEPT !.st = "spare"]
  <2>1. conf' = conf /\ base' = [base EXCEPT ![b] = r]
    BY <1>7 DEF MakeSpareBase
  <2>2. r.data = NoData
    BY <1>1, MallocBaseType, ZenonT(40)
  <2> HIDE DEF r
  <2>3. \A a \in Base : base'[a] = IF a = b THEN r ELSE base[a]
    BY <1>1, <2>1
  <2> QED BY <2>1, <2>2, <2>3 DEF Calm
<1>8. CASE FreeSpareBase(c, b)
  <2>1. conf' = conf /\ base' = [base EXCEPT ![b] = NoBase]
    BY <1>8 DEF FreeSpareBase
  <2>2. \A a \in Base : base'[a] = IF a = b THEN NoBase ELSE base[a]
    BY <1>1, <2>1
  <2> QED BY <1>2, <2>1, <2>2 DEF Calm
<1>9. CASE CacheFree(b)
  <2> DEFINE r == [base[b] EXCEPT !.data = NoData]
  <2>1. conf' = conf /\ base' = [base EXCEPT ![b] = r]
    BY <1>9 DEF CacheFree
  <2>2. r.data = NoData
    BY <1>1 DEF BaseRec
  <2> HIDE DEF r
  <2>3. \A a \in Base : base'[a] = IF a = b THEN r ELSE base[a]
    BY <1>1, <2>1
  <2> QED BY <2>1, <2>2, <2>3 DEF Calm
<1>10. ASSUME NEW g \in Grps, SetGrpalloc(c, g)
       PROVE  Calm
  <2> DEFINE r == [conf[c] EXCEPT !.grpalloc = g]
  <2>1. /\ conf' = [conf EXCEPT ![c] = r]
        /\ base' = [a \in Base |-> IF a \in SpareBases(c) THEN NoBase ELSE base[a]]
    BY <1>10 DEF SetGrpalloc
  <2>2. r.cbs = conf[c].cbs
    BY <1>1 DEF ConfRec
  <2> HIDE DEF r
  <2>3. \A x \in Conf : conf'[x] = IF x = c THEN r ELSE conf[x]
    BY <1>1, <2>1
  <2>4. \A a \in Base : base'[a] = NoBase \/ base'[a] = base[a]
    BY <2>1
  <2> QED BY <1>2, <2>2, <2>3, <2>4 DEF Calm
<1> QED BY <1>4, <1>5, <1>6, <1>7, <1>8, <1>9, <1>10

(* What happens to nodes is calm. *)
LEMMA NodesCalm ==
  ASSUME IInv, NEW n \in Node,
         \/ \E c \in Conf : MakeSpareNode(c, n)
         \/ FreeSpareNode(n) \/ Release(n)
         \/ \E b \in Base : AddNode(b, n) \/ DelNode(b, n) \/ Export(b, n)
         \/ \E b \in Base, l \in Link : ExportNew(b, n, l)
  PROVE  Calm
<1>1. conf \in [Conf -> ConfRec] /\ base \in [Base -> BaseRec]
  BY LiveOnes
<1>2. CASE conf' = conf /\ base' = base
  BY <1>2 DEF Calm
<1>3. ASSUME NEW b \in Base, NEW l \in Link, ExportNew(b, n, l)
      PROVE  Calm
  <2> DEFINE c == base[b].conf
             es == AddConf(conf, c)
  <2>1. base[b].st = "live" /\ conf' = Relink(es, c, Linked(l)) /\ base' = base
    BY <1>3 DEF ExportNew, Relink
  <2>2. c \in Conf
    BY <2>1, LiveOnes
  <2>3. es \in [Conf -> ConfRec] /\ SameShape(conf, es)
    BY <1>1, <2>2, AddConfIs
  <2>4. Linked(l) \in Link \cup {Nil}
    BY DEF Linked
  <2> HIDE DEF es, c
  <2>5. \A x \in Conf : conf'[x].cbs = es[x].cbs
    BY <2>1, <2>2, <2>3, <2>4, RelinkIs
  <2> QED BY <2>1, <2>3, <2>5 DEF Calm, SameShape
<1>4. ASSUME NEW b \in Base, Export(b, n)
      PROVE  Calm
  <2> DEFINE c == base[b].conf
             l == conf[c].ref_link
  <2>1. base[b].st = "live" /\ conf' = Relink(conf, c, Linked(l)) /\ base' = base
    BY <1>4 DEF Export, Relink
  <2>2. c \in Conf /\ Linked(l) \in Link \cup {Nil}
    BY <1>1, <2>1, LiveOnes DEF Linked, ConfRec
  <2> HIDE DEF c, l
  <2>3. \A x \in Conf : conf'[x].cbs = conf[x].cbs
    BY <1>1, <2>1, <2>2, RelinkIs
  <2> QED BY <2>1, <2>3 DEF Calm
<1>5. CASE Release(n)
  <2> DEFINE l == node[n].in
             c == link[l].conf
             j == IF conf[c].ref_link = l THEN Nil ELSE conf[c].ref_link
             es == Relink(conf, c, j)
  <2>1. node[n].st = "export" /\ conf' = Unlink(conf, l) /\ base' = BasesLeft(conf', base)
    BY <1>5 DEF Release
  <2>2. c \in Conf /\ conf[c].st = "live"
    BY <2>1, LiveOnes
  <2>3. j \in Link \cup {Nil} /\ conf[c].ref > 0
    BY <1>1, <2>2, CountsOf DEF ConfRec
  <2>4. conf' = IF link[l].l_ref = 1 THEN DelConf(es, c) ELSE conf
    BY <2>1 DEF Unlink, Relink
  <2> HIDE DEF l, c, j
  <2>5. /\ es \in [Conf -> ConfRec] /\ es[c].ref > 0
        /\ \A x \in Conf : es[x].cbs = conf[x].cbs
    BY <1>1, <2>2, <2>3, RelinkIs
  <2> HIDE DEF es
  <2>6. SameShape(es, DelConf(es, c))
    BY <2>2, <2>5, DelConfIs
  <2>7. \A x \in Conf : conf'[x].cbs = conf[x].cbs
    BY <2>4, <2>5, <2>6 DEF SameShape
  <2> QED BY <2>1, <2>7, SweptLive DEF Calm
<1> QED
  BY <1>2, <1>3, <1>4, <1>5 DEF MakeSpareNode, FreeSpareNode, AddNode, DelNode

(* Settings of a configuration, and caches added to it, keep the cover. *)
LEMMA SettingsCover ==
  ASSUME IInv, CacheCbsCover, NEW c \in Conf,
         \/ \E sz \in BufSizes : SetBufSz(c, sz)
         \/ \E k \in Caches : CacheAdd(c, k)
  PROVE  CacheCbsCover'
<1>1. conf \in [Conf -> ConfRec] /\ base \in [Base -> BaseRec]
  BY LiveOnes
<1>2. ASSUME NEW sz \in BufSizes, SetBufSz(c, sz)
      PROVE  CacheCbsCover'
  <2>1. conf' = Sized(conf, c, sz) /\ base' = base
    BY <1>2 DEF SetBufSz, Sized
  <2>2. \A x \in Conf : conf'[x].cbs = conf[x].cbs
    BY <1>1, <2>1, SizedIs
  <2> QED BY <2>1, <2>2, CalmCover DEF Calm
<1>3. ASSUME NEW k \in Caches, CacheAdd(c, k)
      PROVE  CacheCbsCover'
  <2> DEFINE r == [conf[c] EXCEPT !.cbs = Append(@, k)]
  <2>1. conf' = [conf EXCEPT ![c] = r] /\ base' = base
    BY <1>3 DEF CacheAdd
  <2>2. \A x \in Conf : conf[x].cbs \in Seq(Caches)
    BY <1>1 DEF ConfRec
  <2>3. r.cbs = Append(conf[c].cbs, k)
    BY <1>1 DEF ConfRec
  <2> HIDE DEF r
  <2>4. \A x \in Conf : conf'[x].cbs = IF x = c THEN Append(conf[c].cbs, k) ELSE conf[x].cbs
    BY <1>1, <2>1, <2>3
  <2>5. \A x \in Conf : SubsetCbs(conf[x].cbs, conf'[x].cbs)
    <3>1. ASSUME NEW s \in Seq(Caches)
          PROVE  SubsetCbs(s, Append(s, k)) /\ SubsetCbs(s, s)
      BY DEF SubsetCbs
    <3> QED BY <2>2, <2>4, <3>1
  <2>6. KeepsData(base, base', conf, conf')
    BY <2>1, <2>5, LiveOnes DEF KeepsData
  <2> QED BY <2>6, CoverKept
<1> QED BY <1>2, <1>3

(* Data is set only in a cache that has a callback. *)
LEMMA CacheSetCover ==
  ASSUME IInv, CacheCbsCover, NEW b \in Base, NEW i \in Slots, CacheSet(b, i)
  PROVE  CacheCbsCover'
<1> DEFINE k == conf[base[b].conf].cbs[i]
           r == [base[b] EXCEPT !.data[i] = k]
<1>1. /\ base[b].st = "live" /\ i \in 1 .. Len(conf[base[b].conf].cbs)
      /\ base' = [base EXCEPT ![b] = r] /\ conf' = conf
  BY DEF CacheSet
<1>2. base \in [Base -> BaseRec] /\ base[b] \in BaseRec
  BY LiveOnes
<1>3. r.st = base[b].st /\ r.conf = base[b].conf /\ r.data = [base[b].data EXCEPT ![i] = k]
  BY <1>2 DEF BaseRec
<1>4. \A j \in Slots : r.data[j] = IF j = i THEN k ELSE base[b].data[j]
  BY <1>2, <1>3 DEF BaseRec
<1>5. Len(conf[base[b].conf].cbs) \in Nat
  BY <1>1, LiveOnes DEF ConfRec
<1> HIDE DEF r
<1>6. \A a \in Base : base'[a] = IF a = b THEN r ELSE base[a]
  BY <1>1, <1>2
<1> SUFFICES ASSUME NEW a \in Base, base'[a].st = "live",
                    NEW j \in Slots, base'[a].data[j] # Nil
             PROVE  /\ j <= Len(conf[base'[a].conf].cbs)
                    /\ conf[base'[a].conf].cbs[j] = base'[a].data[j]
  BY <1>1 DEF CacheCbsCover
<1>7. CASE a = b /\ j = i
  <2>1. base'[a] = r /\ base'[a].conf = base[b].conf /\ base'[a].data[j] = r.data[i]
    BY <1>3, <1>6, <1>7
  <2>2. r.data[i] = k
    BY <1>4
  <2>3. j <= Len(conf[base[b].conf].cbs)
    BY <1>1, <1>5, <1>7
  <2> QED BY <1>7, <2>1, <2>2, <2>3
<1>8. CASE a # b \/ j # i
  <2>1. /\ base'[a].conf = base[a].conf /\ base'[a].data[j] = base[a].data[j]
        /\ base[a].st = "live"
    BY <1>3, <1>4, <1>6, <1>8
  <2> QED BY <2>1 DEF CacheCbsCover
<1> QED BY <1>7, <1>8

(* vstr_swap_conf(): the callbacks of the string's old configuration are   *)
(* the first of the new one's, and no other string loses its own.          *)
LEMMA MergedCovers ==
  ASSUME NEW cbs \in Seq(Caches), NEW dup \in Seq(Caches)
  PROVE  SubsetCbs(dup, Merged(cbs, dup))
<1>1. CASE SubsetCbs(dup, cbs)
  BY <1>1 DEF Merged
<1>2. CASE ~SubsetCbs(dup, cbs)
  <2> DEFINE t == SubSeq(cbs, Len(dup) + 1, Len(cbs))
  <2>1. Len(dup) \in Nat /\ Len(cbs) \in Nat
    OBVIOUS
  <2>2. t \in Seq(Caches)
    <3>1. \A i \in (Len(dup) + 1) .. Len(cbs) : cbs[i] \in Caches
      BY <2>1
    <3> QED BY <2>1, <3>1
  <2>3. Merged(cbs, dup) = dup \o t
    BY <1>2 DEF Merged, DupCbs
  <2> HIDE DEF t
  <2>4. Len(dup \o t) = Len(dup) + Len(t) /\ Len(t) \in Nat
    BY <2>2
  <2>5. \A i \in 1 .. Len(dup) : (dup \o t)[i] = dup[i]
    BY <2>2
  <2> QED BY <2>1, <2>3, <2>4, <2>5 DEF SubsetCbs
<1> QED BY <1>1, <1>2

(* vstr_swap_conf() keeps the cover: it merges the caches first. *)
LEMMA SwapCover ==
  ASSUME IInv, CacheCbsCover, NEW b \in Base, NEW c \in Conf,
         SwapConf(b, c) \/ SwapConfFails(b, c)
  PROVE  CacheCbsCover'
<1> DEFINE o == base[b].conf
           es == Resized(c, o)
<1>1. /\ base[b].st = "live" /\ o # c
      /\ conf[o].buf_sz = conf[c].buf_sz \/ OnlyUsers(c)
      /\ SubsetCbs(conf[o].cbs, conf[c].cbs) \/ OnlyUsers(c)
  BY DEF SwapConf, SwapConfFails, Fits
<1>2. o \in Conf /\ conf \in [Conf -> ConfRec] /\ base \in [Base -> BaseRec]
  BY <1>1, LiveOnes
<1>3. conf[o].cbs \in Seq(Caches) /\ conf[c].cbs \in Seq(Caches) /\ conf[o].buf_sz \in BufSizes
  BY <1>2 DEF ConfRec
<1>4. es = Sized(conf, c, conf[o].buf_sz)
  BY DEF Resized, Sized
<1>5. /\ es \in [Conf -> ConfRec]
      /\ \A x \in Conf : es[x].cbs = conf[x].cbs
  BY <1>2, <1>3, <1>4, SizedIs
<1> HIDE DEF es
<1>6. CASE SwapConfFails(b, c)
  <2>1. conf' = es /\ base' = base
    BY <1>6 DEF SwapConfFails, es
  <2> QED BY <1>5, <2>1, CalmCover DEF Calm
<1>7. CASE SwapConf(b, c)
  <2> DEFINE r == [base[b] EXCEPT !.conf = c]
             m == Merged(conf[c].cbs, conf[o].cbs)
             rc == [es[c] EXCEPT !.cbs = m, !.user_ref = @ - 1]
             ro == [es[o] EXCEPT !.user_ref = @ + 1]
  <2>1. base' = [base EXCEPT ![b] = r]
    BY <1>7 DEF SwapConf
  <2>2. conf' = [es EXCEPT ![c].cbs = Merged(@, conf[o].cbs), ![c].user_ref = @ - 1,
                           ![o].user_ref = @ + 1]
    BY <1>7 DEF SwapConf, Merged, es
  <2>3. conf' = [[es EXCEPT ![c] = rc] EXCEPT ![o] = ro]
    BY <1>1, <1>2, <1>5, <2>2
  <2>4. rc.cbs = m /\ ro.cbs = es[o].cbs
    BY <1>2, <1>5 DEF ConfRec
  <2>5. r.data = base[b].data /\ r.conf = c
    BY <1>2 DEF BaseRec
  <2> HIDE DEF rc, ro, r, m
  <2>6. \A x \in Conf : conf'[x].cbs = IF x = c THEN m ELSE conf[x].cbs
    BY <1>1, <1>2, <1>5, <2>3, <2>4
  <2>7. \A a \in Base : base'[a] = IF a = b THEN r ELSE base[a]
    BY <1>2, <2>1
  <2>8. SubsetCbs(conf[o].cbs, m)
    BY <1>3, MergedCovers DEF m
  <2>9. OnlyUsers(c) => \A a \in Base : base[a].st = "live" => base[a].conf # c
    <3> SUFFICES ASSUME OnlyUsers(c) PROVE LiveB(base, c) = {}
      BY DEF LiveB
    <3>1. conf[c].ref = conf[c].user_ref /\ conf[c].user_ref \in Nat
      BY CountsOf DEF OnlyUsers
    <3>2. conf[c].ref = conf[c].user_ref + Cardinality(LiveB(base, c))
                        + Cardinality(LinksOf(link, c))
      BY DEF IInv, InvOf, Refs
    <3>3. Cardinality(LiveB(base, c)) \in Nat /\ Cardinality(LinksOf(link, c)) \in Nat
      BY CountsFinite
    <3>4. Cardinality(LiveB(base, c)) + Cardinality(LinksOf(link, c)) = 0
      BY <3>1, <3>2, <3>3
    <3> QED BY <3>4, NoneCounted
  <2>10. ~OnlyUsers(c) => m = conf[c].cbs
    BY <1>1 DEF m, Merged
  <2>11. \A x \in Conf : SubsetCbs(conf[x].cbs, conf[x].cbs)
    <3>1. \A x \in Conf : Len(conf[x].cbs) \in Nat
      BY <1>2 DEF ConfRec
    <3> QED BY <3>1 DEF SubsetCbs
  <2>12. KeepsData(base, base', conf, conf')
    <3> SUFFICES ASSUME NEW a \in Base, base'[a].st = "live"
                 PROVE  /\ base[a].st = "live" /\ base'[a].data = base[a].data
                        /\ SubsetCbs(conf[base[a].conf].cbs, conf'[base'[a].conf].cbs)
      BY DEF KeepsData
    <3>1. CASE a = b
      BY <1>1, <2>5, <2>6, <2>7, <2>8, <3>1
    <3>2. CASE a # b
      <4>1. base'[a] = base[a] /\ base[a].conf \in Conf
        BY <2>7, <3>2, LiveOnes
      <4>2. conf'[base[a].conf].cbs = conf[base[a].conf].cbs
        BY <2>6, <2>9, <2>10, <4>1
      <4> QED BY <2>11, <4>1, <4>2
    <3> QED BY <3>1, <3>2
  <2> QED BY <2>12, CoverKept
<1> QED BY <1>6, <1>7

(* The new configuration has the callbacks for the data of the string, and *)
(* they are the ones the old configuration had at their places.            *)
LEMMA BaseSetConfCover ==
  ASSUME IInv, CacheCbsCover, ~AnySetConf, NEW b \in Base, NEW c \in Conf, BaseSetConf(b, c)
  PROVE  CacheCbsCover'
<1> DEFINE o == base[b].conf
           es == DelConf(conf, o)
           r == [base[b] EXCEPT !.conf = c]
           fs == [base EXCEPT ![b] = r]
<1>1. /\ base[b].st = "live" /\ HasCbs(b, c) /\ SubsetCbs(conf[c].cbs, conf[o].cbs)
      /\ conf' = AddConf(es, c) /\ base' = BasesLeft(conf', fs)
  BY DEF BaseSetConf
<1>2. /\ o \in Conf /\ conf[o].ref > 0 /\ base \in [Base -> BaseRec]
      /\ conf \in [Conf -> ConfRec]
  BY <1>1, LiveOnes, CountsOf
<1>3. es \in [Conf -> ConfRec] /\ SameShape(conf, es)
  BY <1>2, DelConfIs
<1> HIDE DEF es
<1>4. SameShape(es, conf')
  BY <1>1, <1>3, AddConfIs
<1>5. r.data = base[b].data /\ r.conf = c
  BY <1>1, <1>2 DEF BaseRec
<1> HIDE DEF r
<1>6. \A a \in Base : fs[a] = IF a = b THEN r ELSE base[a]
  BY <1>2
<1> HIDE DEF fs
<1>7. \A x \in Conf : conf'[x].cbs = conf[x].cbs
  BY <1>3, <1>4 DEF SameShape
<1> SUFFICES ASSUME NEW a \in Base, base'[a].st = "live",
                    NEW i \in Slots, base'[a].data[i] # Nil
             PROVE  /\ i <= Len(conf'[base'[a].conf].cbs)
                    /\ conf'[base'[a].conf].cbs[i] = base'[a].data[i]
  BY DEF CacheCbsCover
<1>8. base'[a] = fs[a]
  BY <1>1, SweptLive
<1>9. CASE a # b
  <2>1. base'[a] = base[a] /\ base[a].conf \in Conf
    BY <1>6, <1>8, <1>9, LiveOnes
  <2>2. i <= Len(conf[base[a].conf].cbs) /\ conf[base[a].conf].cbs[i] = base[a].data[i]
    BY <2>1 DEF CacheCbsCover
  <2> QED BY <1>7, <2>1, <2>2
<1>10. CASE a = b
  <2>1. base'[a].data = base[b].data /\ base'[a].conf = c
    BY <1>5, <1>6, <1>8, <1>10
  <2>2. i <= Len(conf[c].cbs) /\ base[b].data[i] # Nil
    BY <1>1, <2>1 DEF HasCbs
  <2>3. conf[o].cbs[i] = base[b].data[i]
    BY <1>1, <2>2 DEF CacheCbsCover
  <2>4. conf[c].cbs \in Seq(Caches)
    BY <1>2 DEF ConfRec
  <2>5. i \in 1 .. Len(conf[c].cbs)
    BY <2>2, <2>4 DEF Slots
  <2>6. conf[c].cbs[i] = conf[o].cbs[i]
    BY <1>1, <2>5 DEF SubsetCbs
  <2> QED BY <1>7, <2>1, <2>2, <2>3, <2>6
<1> QED BY <1>9, <1>10

(* Every step keeps the cover. *)
LEMMA NextCover ==
  ASSUME IInv, CacheCbsCover, ~AnySetConf, [Next]_vars
  PROVE  CacheCbsCover'
<1>1. CASE UNCHANGED vars
  BY <1>1 DEF vars, CacheCbsCover
<1>2. ASSUME NEW c \in Conf, \/ MakeConf(c) \/ InitAgain(c) \/ GetConf(c) \/ FreeConf(c)
                             \/ SetDefConf(c)
      PROVE  CacheCbsCover'
  BY <1>2, HandlesCalm, CalmCover
<1>3. CASE Exit
  <2>1. def \in Conf
    BY <1>3 DEF Exit, IInv, InvOf, Types
  <2> QED BY <1>3, <2>1, HandlesCalm, CalmCover
<1>4. ASSUME NEW c \in Conf, NEW b \in Base,
             MakeBaseSpare(c, b) \/ MakeBase(c, b) \/ MakeSpareBase(c, b) \/ FreeSpareBase(c, b)
      PROVE  CacheCbsCover'
  BY <1>4, StringsCalm, CalmCover
<1>5. ASSUME NEW b \in Base, FreeBase(b) \/ CacheFree(b)
      PROVE  CacheCbsCover'
  <2>1. base[b].st = "live"
    BY <1>5 DEF FreeBase, CacheFree
  <2>2. base[b].conf \in Conf
    BY <2>1, LiveOnes
  <2> QED BY <1>5, <2>2, StringsCalm, CalmCover
<1>6. ASSUME NEW c \in Conf, NEW g \in Grps, SetGrpalloc(c, g)
      PROVE  CacheCbsCover'
  <2>1. CASE Base = {}
    BY <2>1 DEF CacheCbsCover
  <2>2. CASE Base # {}
    BY <1>6, <2>2, StringsCalm, CalmCover
  <2> QED BY <2>1, <2>2
<1>7. ASSUME NEW n \in Node,
             \/ \E c \in Conf : MakeSpareNode(c, n)
             \/ FreeSpareNode(n) \/ Release(n)
             \/ \E b \in Base : AddNode(b, n) \/ DelNode(b, n) \/ Export(b, n)
             \/ \E b \in Base, l \in Link : ExportNew(b, n, l)
      PROVE  CacheCbsCover'
  BY <1>7, NodesCalm, CalmCover
<1>8. ASSUME NEW c \in Conf, \/ \E sz \in BufSizes : SetBufSz(c, sz)
                             \/ \E k \in Caches : CacheAdd(c, k)
      PROVE  CacheCbsCover'
  BY <1>8, SettingsCover
<1>9. ASSUME NEW b \in Base, NEW i \in Slots, CacheSet(b, i)
      PROVE  CacheCbsCover'
  BY <1>9, CacheSetCover
<1>10. ASSUME NEW b \in Base, NEW c \in Conf,
              SwapConf(b, c) \/ SwapConfFails(b, c) \/ BaseSetConf(b, c)
       PROVE  CacheCbsCover'
  BY <1>10, SwapCover, BaseSetConfCover
<1> QED
  BY <1>1, <1>2, <1>3, <1>4, <1>5, <1>6, <1>7, <1>8, <1>9, <1>10 DEF Next

(* Data stored in a user's cache is found by the callback it was stored    *)
(* for, through vstr_swap_conf(), vstr_cache_add() and every use of        *)
(* VSTR_CNTL_BASE_SET_CONF but the one it should refuse: a string with     *)
(* data and a configuration without the callback for it.                   *)
THEOREM CallbacksCover == ~AnySetConf => (Spec => []CacheCbsCover)
<1> SUFFICES ASSUME ~AnySetConf PROVE Spec => []CacheCbsCover
  OBVIOUS
<1>1. Init => IInv /\ CacheCbsCover
  <2>1. Init => CacheCbsCover
    BY DEF Init, CacheCbsCover, NoBase
  <2> QED BY <2>1, InitInv
<1>2. (IInv /\ CacheCbsCover) /\ [Next]_vars => (IInv /\ CacheCbsCover)'
  BY NextInv, NextCover
<1> QED
  BY <1>1, <1>2, PTL DEF Spec

=============================================================================
