------------------------------ MODULE VstrConf ------------------------------
(***************************************************************************)
(* Configurations and the things that live on them (src/vstr.c, parts of   *)
(* src/vstr_cntl.c and src/vstr_cache.c).  A Vstr_conf is counted by the   *)
(* user's handles, by the strings (Vstr_base) that use it, and by the      *)
(* blocks of links that exported BUF nodes point to.  It keeps the spare   *)
(* BUF nodes, all of conf->buf_sz bytes, and the spare strings.            *)
(*                                                                         *)
(* An exported BUF node (vstr__chg_node_buf_ref()) belongs to no string    *)
(* any more; it finds the way back to its configuration by its link when   *)
(* the last reference to it is dropped, in whatever state the string is    *)
(* then.  Only the BUF nodes are modelled: nodes of the other types are    *)
(* all alike, and move between lists the same way.                         *)
(***************************************************************************)
EXTENDS Integers, Sequences, FiniteSets

CONSTANTS
  Conf, Base, Node, Link,  \* the addresses malloc() can return
  Nil,                     \* the NULL pointer
  BufSizes,                \* values of conf->buf_sz, DefBufSz the initial one
  DefBufSz,
  Grps,                    \* VSTR_TYPE_CNTL_CONF_GRPALLOC_*: NONE is 0, ...
  LinkSz,                  \* VSTR__CONF_REF_LINKED_SZ
  Caches,                  \* names of the user's caches
  AnySetConf,              \* is SET_CONF used with a configuration without
                           \* the callback for data that the string has?
  MaxUser                  \* bound: handles the user holds to one conf

GrpPos == 1    \* VSTR_TYPE_CNTL_CONF_GRPALLOC_POS

ASSUME ConfAssumption ==
  /\ IsFiniteSet(Conf) /\ IsFiniteSet(Base) /\ IsFiniteSet(Node)
  /\ IsFiniteSet(Link) /\ IsFiniteSet(Caches)
  /\ Nil \notin Conf \cup Base \cup Node \cup Link \cup Caches
  /\ DefBufSz \in BufSizes
  /\ Grps \subseteq 0 .. 3 /\ GrpPos \in Grps
  /\ LinkSz \in Nat \ {0}
  /\ AnySetConf \in BOOLEAN
  /\ MaxUser \in Nat \ {0}

VARIABLES conf, base, node, link,
          def,     \* vstr__options.def
          users    \* how many handles to each conf the user holds

vars == <<conf, base, node, link, def, users>>

NoNode == [st |-> "none", sz |-> DefBufSz, in |-> Nil]
NoLink == [conf |-> Nil, l_ref |-> 0]
Slots == 1 .. Cardinality(Caches)
NoData == [i \in Slots |-> Nil]
NoBase == [st |-> "none", conf |-> Nil, grp |-> GrpPos,
           data |-> NoData]
NoConf == [st |-> "none", ref |-> 0, user_ref |-> 0, buf_sz |-> DefBufSz,
           grpalloc |-> GrpPos, ref_link |-> Nil, cbs |-> <<>>]

(* vstr_make_conf(), the caches of the library itself left out of cbs. *)
NewConf == [NoConf EXCEPT !.st = "live", !.ref = 1, !.user_ref = 1]

LiveBases(c) == {b \in Base : base[b].st = "live" /\ base[b].conf = c}
SpareBases(c) == {b \in Base : base[b].st = "spare" /\ base[b].conf = c}
SpareNodes(c) == {n \in Node : node[n].st = "spare" /\ node[n].in = c}
NodesOf(b) == {n \in Node : node[n].st = "base" /\ node[n].in = b}
Links(c) == {l \in Link : link[l].conf = c}

Init ==
  /\ \E c \in Conf :
       /\ conf = [d \in Conf |-> IF d = c THEN NewConf ELSE NoConf]
       /\ def = c
  /\ base = [b \in Base |-> NoBase]
  /\ node = [n \in Node |-> NoNode]
  /\ link = [l \in Link |-> NoLink]
  /\ users = [c \in Conf |-> 0]

-----------------------------------------------------------------------------
(* Reference counts *)

(* vstr__add_conf(), vstr__add_user_conf() *)
AddConf(cs, c) == [cs EXCEPT ![c].ref = @ + 1]

AddUser(cs, c) == [cs EXCEPT ![c].ref = @ + 1, ![c].user_ref = @ + 1]

(* vstr__del_conf() and vstr_free_conf(); what goes with the configuration *)
(* is taken away by NodesLeft and BasesLeft.                               *)
DelConf(cs, c) ==
  [cs EXCEPT ![c].ref = @ - 1,
             ![c].st = IF cs[c].ref = 1 THEN "freed" ELSE @]

FreeUser(cs, c) == DelConf([cs EXCEPT ![c].user_ref = @ - 1], c)

(* Mutant: the spare nodes are left behind. *)
NodesLeftMutant(cs, ns) == ns

NodesLeft(cs, ns) ==
  [n \in Node |-> IF ns[n].st = "spare" /\ cs[ns[n].in].st = "freed"
                  THEN NoNode ELSE ns[n]]

BasesLeft(cs, bs) ==
  [b \in Base |-> IF bs[b].st = "spare" /\ cs[bs[b].conf].st = "freed"
                  THEN NoBase ELSE bs[b]]

(* The configurations a caller can name: by a handle, or the default one. *)
Named(c) == users[c] > 0 \/ def = c

-----------------------------------------------------------------------------
(* The user's handles *)

MakeConf(c) ==
  /\ conf[c].st = "none"
  /\ conf' = [conf EXCEPT ![c] = NewConf]
  /\ users' = [users EXCEPT ![c] = 1]
  /\ UNCHANGED <<base, node, link, def>>

(* VSTR_CNTL_OPT_GET_CONF and VSTR_CNTL_BASE_GET_CONF *)
GetConf(c) ==
  /\ def = c \/ LiveBases(c) # {}
  /\ users[c] < MaxUser
  /\ conf' = AddUser(conf, c)
  /\ users' = [users EXCEPT ![c] = @ + 1]
  /\ UNCHANGED <<base, node, link, def>>

FreeConf(c) ==
  /\ users[c] > 0
  /\ conf' = FreeUser(conf, c)
  /\ users' = [users EXCEPT ![c] = @ - 1]
  /\ node' = NodesLeft(conf', node)
  /\ base' = BasesLeft(conf', base)
  /\ UNCHANGED <<link, def>>

(* VSTR_CNTL_OPT_SET_CONF *)
SetDefConf(c) ==
  /\ def # Nil /\ def # c
  /\ users[c] > 0
  /\ conf' = AddUser(FreeUser(conf, def), c)
  /\ def' = c
  /\ node' = NodesLeft(conf', node)
  /\ base' = BasesLeft(conf', base)
  /\ UNCHANGED <<link, users>>

(* vstr_exit(), called as its assertion demands, and vstr_init(). *)
Exit ==
  /\ def # Nil
  /\ conf[def].user_ref = 1 /\ conf[def].ref = 1
  /\ conf' = FreeUser(conf, def)
  /\ def' = Nil
  /\ node' = NodesLeft(conf', node)
  /\ base' = BasesLeft(conf', base)
  /\ UNCHANGED <<link, users>>

InitAgain(c) ==
  /\ def = Nil
  /\ conf[c].st = "none"
  /\ conf' = [conf EXCEPT ![c] = NewConf]
  /\ def' = c
  /\ UNCHANGED <<base, node, link, users>>

-----------------------------------------------------------------------------
(* Strings *)

(* vstr__make_base_cache() *)
MallocBase(cf, c) ==
  [NoBase EXCEPT !.st = "live", !.conf = c, !.grp = cf.grpalloc]

(* vstr_make_base(): a spare string is used before one is malloc'ed. *)
MakeBaseSpare(c, b) ==
  /\ Named(c)
  /\ b \in SpareBases(c)
  /\ base' = [base EXCEPT ![b].st = "live"]
  /\ conf' = AddConf(conf, c)
  /\ UNCHANGED <<node, link, def, users>>

MakeBase(c, b) ==
  /\ Named(c)
  /\ SpareBases(c) = {}
  /\ base[b].st = "none"
  /\ base' = [base EXCEPT ![b] = MallocBase(conf[c], c)]
  /\ conf' = AddConf(conf, c)
  /\ UNCHANGED <<node, link, def, users>>

(* vstr_free_base(): its nodes become spare before the configuration goes. *)
FreedBase(bs, cs, b) ==
  IF bs[b].grp = cs[bs[b].conf].grpalloc
  THEN [bs EXCEPT ![b].st = "spare", ![b].data = NoData]
  ELSE [bs EXCEPT ![b] = NoBase]

FreeBase(b) ==
  /\ base[b].st = "live"
  /\ LET c  == base[b].conf
         ns == [n \in Node |->
                  IF n \in NodesOf(b) THEN [node[n] EXCEPT !.st = "spare", !.in = c]
                                      ELSE node[n]]
     IN  /\ conf' = DelConf(conf, c)
         /\ node' = NodesLeft(conf', ns)
         /\ base' = BasesLeft(conf', FreedBase(base, conf, b))
  /\ UNCHANGED <<link, def, users>>

(* VSTR_CNTL_CONF_SET_NUM_SPARE_BASE: up, by making and freeing a string,  *)
(* and down.                                                               *)
MakeSpareBase(c, b) ==
  /\ Named(c)
  /\ base[b].st = "none"
  /\ base' = [base EXCEPT ![b] = [MallocBase(conf[c], c) EXCEPT !.st = "spare"]]
  /\ UNCHANGED <<conf, node, link, def, users>>

FreeSpareBase(c, b) ==
  /\ Named(c)
  /\ b \in SpareBases(c)
  /\ base' = [base EXCEPT ![b] = NoBase]
  /\ UNCHANGED <<conf, node, link, def, users>>

(* VSTR_CNTL_CONF_SET_TYPE_GRPALLOC_CACHE and _SET_FLAG_ALLOC_CACHE *)
SetGrpalloc(c, g) ==
  /\ Named(c)
  /\ conf[c].grpalloc # g
  /\ conf' = [conf EXCEPT ![c].grpalloc = g]
  /\ base' = [b \in Base |-> IF b \in SpareBases(c) THEN NoBase ELSE base[b]]
  /\ UNCHANGED <<node, link, def, users>>

-----------------------------------------------------------------------------
(* BUF nodes *)

(* vstr__make_spare_node() and vstr__free_spare_node() *)
MakeSpareNode(c, n) ==
  /\ conf[c].st = "live"
  /\ node[n].st = "none"
  /\ node' = [node EXCEPT ![n] = [st |-> "spare", sz |-> conf[c].buf_sz, in |-> c]]
  /\ UNCHANGED <<conf, base, link, def, users>>

FreeSpareNode(n) ==
  /\ node[n].st = "spare"
  /\ node' = [node EXCEPT ![n] = NoNode]
  /\ UNCHANGED <<conf, base, link, def, users>>

(* A string gets a spare node, and gives it back when its data is deleted. *)
AddNode(b, n) ==
  /\ base[b].st = "live"
  /\ n \in SpareNodes(base[b].conf)
  /\ node' = [node EXCEPT ![n].st = "base", ![n].in = b]
  /\ UNCHANGED <<conf, base, link, def, users>>

DelNode(b, n) ==
  /\ base[b].st = "live"
  /\ n \in NodesOf(b)
  /\ node' = [node EXCEPT ![n].st = "spare", ![n].in = base[b].conf]
  /\ UNCHANGED <<conf, base, link, def, users>>

(* vstr__convert_buf_ref_add(): the block of links node n of string b is   *)
(* put on; a block that is full is not found by the configuration again.   *)
Linked(l) ==
  IF link[l].l_ref + 1 >= LinkSz THEN Nil ELSE l

ExportNew(b, n, l) ==
  LET c == base[b].conf IN
  /\ base[b].st = "live"
  /\ n \in NodesOf(b)
  /\ conf[c].ref_link = Nil /\ link[l] = NoLink
  /\ link' = [link EXCEPT ![l] = [conf |-> c, l_ref |-> 1]]
  /\ conf' = [AddConf(conf, c) EXCEPT ![c].ref_link = Linked(l)]
  /\ node' = [node EXCEPT ![n].st = "export", ![n].in = l]
  /\ UNCHANGED <<base, def, users>>

Export(b, n) ==
  LET c == base[b].conf
      l == conf[c].ref_link IN
  /\ base[b].st = "live"
  /\ n \in NodesOf(b)
  /\ l # Nil
  /\ link' = [link EXCEPT ![l].l_ref = @ + 1]
  /\ conf' = [conf EXCEPT ![c].ref_link = Linked(l)]
  /\ node' = [node EXCEPT ![n].st = "export", ![n].in = l]
  /\ UNCHANGED <<base, def, users>>

(* vstr__ref_cb_relink_bufnode_ref(): the last reference to n is dropped.  *)
(* The last node of a block takes the block and its count with it.         *)
Unlink(cs, l) ==
  LET c == link[l].conf IN
  IF link[l].l_ref # 1 THEN cs
  ELSE DelConf([cs EXCEPT ![c].ref_link = IF @ = l THEN Nil ELSE @], c)

Release(n) ==
  LET l == node[n].in
      c == link[l].conf IN
  /\ node[n].st = "export"
  /\ conf' = Unlink(conf, l)
  /\ link' = [link EXCEPT ![l] = IF @.l_ref = 1 THEN NoLink
                                 ELSE [conf |-> c, l_ref |-> @.l_ref - 1]]
  /\ node' = NodesLeft(conf', [node EXCEPT ![n].st = "spare", ![n].in = c])
  /\ base' = BasesLeft(conf', base)
  /\ UNCHANGED <<def, users>>

(* VSTR_CNTL_CONF_SET_NUM_BUF_SZ *)
OnlyUsers(c) == conf[c].user_ref = conf[c].ref

SetBufSz(c, sz) ==
  /\ Named(c)
  /\ SpareNodes(c) = {} /\ OnlyUsers(c)
  /\ conf' = [conf EXCEPT ![c].buf_sz = sz]
  /\ UNCHANGED <<base, node, link, def, users>>

-----------------------------------------------------------------------------
(* The user's caches: data[i] is the cache that string b has data for at   *)
(* the i-th position after the library's own caches, or Nil.               *)

(* vstr_cache_add(), vstr_cache_set() and vstr_cache_cb_free() *)
CacheAdd(c, k) ==
  /\ Named(c)
  /\ \A i \in 1 .. Len(conf[c].cbs) : conf[c].cbs[i] # k
  /\ conf' = [conf EXCEPT ![c].cbs = Append(@, k)]
  /\ UNCHANGED <<base, node, link, def, users>>

CacheSet(b, i) ==
  /\ base[b].st = "live" /\ base[b].grp # 0
  /\ i \in 1 .. Len(conf[base[b].conf].cbs)
  /\ base' = [base EXCEPT ![b].data[i] = conf[base[b].conf].cbs[i]]
  /\ UNCHANGED <<conf, node, link, def, users>>

CacheFree(b) ==
  /\ base[b].st = "live"
  /\ base[b].data # NoData
  /\ base' = [base EXCEPT ![b].data = NoData]
  /\ UNCHANGED <<conf, node, link, def, users>>

(* Mutant: the callbacks are added after those that are there. *)
DupCbsMutant(cbs, dup) == cbs \o SubSeq(dup, Len(cbs) + 1, Len(dup))

(* Mutant: the callbacks are counted and not compared. *)
SubsetCbsMutant(ful, sub) == Len(sub) >= Len(ful)

(* vstr__cache_subset_cbs() and vstr__cache_dup_cbs() *)
SubsetCbs(ful, sub) ==
  /\ Len(sub) >= Len(ful)
  /\ \A i \in 1 .. Len(ful) : ful[i] = sub[i]

DupCbs(cbs, dup) == dup \o SubSeq(cbs, Len(dup) + 1, Len(cbs))

-----------------------------------------------------------------------------
(* Changing the configuration of a string *)

(* What vstr_swap_conf() does to the configuration it is given, which no   *)
(* string uses, before it duplicates the callbacks.                        *)
Resized(c, o) == [conf EXCEPT ![c].buf_sz = conf[o].buf_sz]

(* Mutant: spare nodes of the old size are kept. *)
ResizedNodesMutant(c, o) == node

ResizedNodes(c, o) ==
  [n \in Node |-> IF conf[o].buf_sz # conf[c].buf_sz /\ n \in SpareNodes(c)
                  THEN NoNode ELSE node[n]]

Fits(c, o) ==
  conf[o].buf_sz = conf[c].buf_sz /\ SubsetCbs(conf[o].cbs, conf[c].cbs)

SwapConf(b, c) ==
  LET o == base[b].conf IN
  /\ base[b].st = "live"
  /\ users[c] > 0 /\ o # c
  /\ users[o] < MaxUser
  /\ Fits(c, o) \/ OnlyUsers(c)
  /\ conf' = [Resized(c, o) EXCEPT
                ![c].cbs = IF SubsetCbs(conf[o].cbs, @) THEN @
                           ELSE DupCbs(@, conf[o].cbs),
                ![c].user_ref = @ - 1,
                ![o].user_ref = @ + 1]
  /\ node' = ResizedNodes(c, o)
  /\ base' = [base EXCEPT ![b].conf = c]
  /\ users' = [users EXCEPT ![c] = @ - 1, ![o] = @ + 1]
  /\ UNCHANGED <<link, def>>

(* The callbacks cannot be duplicated: the size has been changed. *)
SwapConfFails(b, c) ==
  LET o == base[b].conf IN
  /\ base[b].st = "live"
  /\ users[c] > 0 /\ o # c
  /\ OnlyUsers(c)
  /\ ~SubsetCbs(conf[o].cbs, conf[c].cbs)
  /\ Len(conf[c].cbs) < Len(conf[o].cbs)
  /\ conf' = Resized(c, o)
  /\ node' = ResizedNodes(c, o)
  /\ UNCHANGED <<base, link, def, users>>

(* VSTR_CNTL_BASE_SET_CONF asks whether the callbacks of the new           *)
(* configuration are the first of those of the old one: one with fewer is  *)
(* accepted too, also by a string with data for those that are missing.    *)
HasCbs(b, c) == \A i \in Slots : base[b].data[i] # Nil => i <= Len(conf[c].cbs)

BaseSetConf(b, c) ==
  LET o == base[b].conf IN
  /\ base[b].st = "live"
  /\ Named(c) /\ o # c
  /\ conf[c].buf_sz = conf[o].buf_sz \/ NodesOf(b) = {}
  /\ SubsetCbs(conf[c].cbs, conf[o].cbs)
  /\ AnySetConf \/ HasCbs(b, c)
  /\ conf' = AddConf(DelConf(conf, o), c)
  /\ node' = NodesLeft(conf', node)
  /\ base' = BasesLeft(conf', [base EXCEPT ![b].conf = c])
  /\ UNCHANGED <<link, def, users>>

-----------------------------------------------------------------------------
Next ==
  \/ \E c \in Conf : MakeConf(c) \/ GetConf(c) \/ FreeConf(c)
  \/ \E c \in Conf : SetDefConf(c) \/ InitAgain(c)
  \/ Exit
  \/ \E c \in Conf, b \in Base : MakeBaseSpare(c, b) \/ MakeBase(c, b)
  \/ \E b \in Base : FreeBase(b)
  \/ \E c \in Conf, b \in Base : MakeSpareBase(c, b) \/ FreeSpareBase(c, b)
  \/ \E c \in Conf, g \in Grps : SetGrpalloc(c, g)
  \/ \E c \in Conf, n \in Node : MakeSpareNode(c, n)
  \/ \E n \in Node : FreeSpareNode(n) \/ Release(n)
  \/ \E b \in Base, n \in Node : AddNode(b, n) \/ DelNode(b, n) \/ Export(b, n)
  \/ \E b \in Base, n \in Node, l \in Link : ExportNew(b, n, l)
  \/ \E c \in Conf, sz \in BufSizes : SetBufSz(c, sz)
  \/ \E c \in Conf, k \in Caches : CacheAdd(c, k)
  \/ \E b \in Base, i \in Slots : CacheSet(b, i)
  \/ \E b \in Base : CacheFree(b)
  \/ \E b \in Base, c \in Conf :
       SwapConf(b, c) \/ SwapConfFails(b, c) \/ BaseSetConf(b, c)

Spec == Init /\ [][Next]_vars

-----------------------------------------------------------------------------
(* The state's type. *)
TypeOK ==
  /\ conf \in [Conf -> [st : {"none", "live", "freed"}, ref : Nat,
                        user_ref : Nat, buf_sz : BufSizes, grpalloc : Grps,
                        ref_link : Link \cup {Nil},
                        cbs : Seq(Caches)]]
  /\ base \in [Base -> [st : {"none", "live", "spare"}, conf : Conf \cup {Nil},
                        grp : Grps, data : [Slots -> Caches \cup {Nil}]]]
  /\ node \in [Node -> [st : {"none", "spare", "base", "export"},
                        sz : BufSizes,
                        in : Conf \cup Base \cup Link \cup {Nil}]]
  /\ link \in [Link -> [conf : Conf \cup {Nil}, l_ref : Nat]]
  /\ def \in Conf \cup {Nil}
  /\ users \in [Conf -> Nat]

(* The assertions user_ref <= ref, exactly: a configuration's count is its *)
(* user's handles, the default's, its strings and its blocks of links, so  *)
(* user_ref = ref tells that no string and no exported node depends on it. *)
RefExact ==
  \A c \in Conf :
    /\ conf[c].user_ref = users[c] + (IF def = c THEN 1 ELSE 0)
    /\ conf[c].ref = conf[c].user_ref + Cardinality(LiveBases(c))
                     + Cardinality(Links(c))

(* Nothing refers to a configuration that was freed: no handle, string,    *)
(* link, spare node or spare string; and one without references is freed.  *)
NoDangling ==
  \A c \in Conf :
    /\ conf[c].st # "live" =>
         /\ ~Named(c) /\ LiveBases(c) = {} /\ Links(c) = {}
         /\ SpareBases(c) = {} /\ SpareNodes(c) = {}
    /\ conf[c].st = "live" => conf[c].ref > 0

(* A block of links counts the exported nodes that point to it, and the    *)
(* configuration puts nodes only on a block of its own that is not full.   *)
LinksExact ==
  /\ \A l \in Link :
       /\ link[l].l_ref = Cardinality({n \in Node : node[n].st = "export"
                                                    /\ node[n].in = l})
       /\ link[l].l_ref <= LinkSz
       /\ link[l].conf # Nil <=> link[l].l_ref > 0
  /\ \A c \in Conf : conf[c].ref_link # Nil =>
       LET l == conf[c].ref_link
       IN  link[l].conf = c /\ link[l].l_ref < LinkSz

(* A configuration lives exactly as long as something depends on it: its   *)
(* counts, and those of its blocks of links, are exact in any order of     *)
(* releases, and nothing is left behind when it is freed.                  *)
ConfInv == TypeOK /\ RefExact /\ NoDangling /\ LinksExact

(* The configuration a node is spare on, or comes back to. *)
HomeOf(n) == CASE node[n].st = "spare"  -> node[n].in
               [] node[n].st = "base"   -> base[node[n].in].conf
               [] node[n].st = "export" -> link[node[n].in].conf

(* What a configuration keeps to be used again fits it: every BUF node was *)
(* allocated with the size its configuration believes it has, through      *)
(* swaps of configurations, changes of the size, and exported nodes that   *)
(* come back late; and, the assertion of vstr_make_base(), a spare string  *)
(* has the caches its configuration wants.                                 *)
SparesFit ==
  /\ \A n \in Node : node[n].st # "none" => node[n].sz = conf[HomeOf(n)].buf_sz
  /\ \A c \in Conf : \A b \in SpareBases(c) : base[b].grp = conf[c].grpalloc

(* Data in a user's cache is found by the callback it was stored for:      *)
(* vstr__cache_cbs() calls conf->cache_cbs_ents[pos] for data[pos].        *)
CacheCbsCover ==
  \A b \in Base : base[b].st = "live" =>
    \A i \in Slots : base[b].data[i] # Nil =>
      /\ i <= Len(conf[base[b].conf].cbs)
      /\ conf[base[b].conf].cbs[i] = base[b].data[i]

=============================================================================
