------------------------------ MODULE VstrCstr ------------------------------
(***************************************************************************)
(* The C string cache of a string (src/vstr_cstr.c, src/vstr_cache.c).     *)
(* vstr_export_cstr_ptr() and vstr_export_cstr_ref() copy part of a string *)
(* into a buffer, end it with a NUL and remember it; the next export of    *)
(* the same part, or of an end of it, gives the same buffer again.  Every  *)
(* change of the string moves, shortens or forgets what is remembered; a   *)
(* buffer only the cache refers to is overwritten by the next export; and  *)
(* vstr_add_vstr() lets a second string remember the buffer of the first.  *)
(*                                                                         *)
(* A string is its bytes; its nodes are the subject of VstrNodes.  What a  *)
(* call does to the cache depends on them only in which of two pieces of   *)
(* code a delete runs, and both are actions here.                          *)
(***************************************************************************)
EXTENDS Integers, Sequences, FiniteSets

CONSTANTS Base,       \* the strings
          GrpCstr,    \* those allocated with VSTR_TYPE_CNTL_CONF_GRPALLOC_CSTR
          Buf,        \* the buffers malloc() can return
          NoBuf,      \* the NULL reference
          Handle,     \* the references a user keeps
          Char, Nul,  \* bytes, and the one that ends a C string
          MaxLen,     \* bound: length of each string
          MaxAdd,     \* bound: length of what is added or substituted
          SizeMod     \* 2^w for the width w of a size_t

ASSUME CstrAssumption ==
  /\ IsFiniteSet(Base) /\ IsFiniteSet(Handle)
  /\ GrpCstr \subseteq Base
  /\ NoBuf \notin Buf
  /\ Nul \notin Char
  /\ MaxLen \in [Base -> Nat] /\ MaxAdd \in Nat
  /\ SizeMod \in Nat /\ \A b \in Base : SizeMod > 2 * MaxLen[b]

VARIABLES str,    \* the bytes of each string
          cache,  \* its Vstr__cache_data_cstr
          buf,    \* the buffers: bytes, and reference count (0: not allocated)
          held    \* what the user's references are for

vars == <<str, cache, buf, held>>

(* made: the structure exists; a string that is not allocated with it gets *)
(* it with its first export.                                               *)
NewCache(b) == [made |-> b \in GrpCstr, ref |-> NoBuf, off |-> 0, pos |-> 0,
                len |-> 0, sz |-> 0]

FreeBuf == [data |-> <<>>, ref |-> 0]

NotHeld == [kind |-> "none", ref |-> NoBuf, off |-> 0, want |-> <<>>]

Init ==
  /\ str = [b \in Base |-> <<>>]
  /\ cache = [b \in Base |-> NewCache(b)]
  /\ buf = [r \in Buf |-> FreeBuf]
  /\ held = [h \in Handle |-> NotHeld]

-----------------------------------------------------------------------------
(* Operations on bytes and references *)

PosLast(pos, len) == pos + len - 1

PosDiff(beg, end) == end - beg + 1

Part(b, pos, len) == SubSeq(str[b], pos, PosLast(pos, len))

(* The string with s put after position pos, without len bytes from pos,   *)
(* and with the bytes from pos on replaced by s.                           *)
Insert(t, pos, s) == SubSeq(t, 1, pos) \o s \o SubSeq(t, pos + 1, Len(t))

Remove(t, pos, len) == SubSeq(t, 1, pos - 1) \o SubSeq(t, pos + len, Len(t))

Replace(t, pos, s) ==
  [i \in 1 .. Len(t) |-> IF i \in pos .. PosLast(pos, Len(s))
                         THEN s[i - pos + 1] ELSE t[i]]

(* vstr_ref_add() and vstr_ref_del() of a buffer; NULL is ignored. *)
RefAdd(bf, r) == [bf EXCEPT ![r].ref = @ + 1]

RefDel(bf, r) ==
  IF r = NoBuf THEN bf
  ELSE [bf EXCEPT ![r] = IF @.ref = 1 THEN FreeBuf
                         ELSE [data |-> @.data, ref |-> @.ref - 1]]

-----------------------------------------------------------------------------
(* What a change of the string does to what is remembered *)

InUse(c) == c.ref # NoBuf /\ c.len > 0

Forgotten(c) == [c EXCEPT !.len = 0]

(* Mutant: the part of the buffer that is still right is not looked for.   *)
KeptMutant(c, pos, end) ==
  [c EXCEPT !.len = @ - PosDiff(c.pos, end), !.pos = pos]

(* A delete up to end leaves an end of what is remembered, now at pos. *)
Kept(c, pos, end) ==
  [c EXCEPT !.len = @ - PosDiff(c.pos, end),
            !.off = @ + PosDiff(c.pos, end),
            !.pos = pos]

(* vstr__cache_cstr_cb() for VSTR_TYPE_CACHE_ADD, _DEL and _SUB. *)
CbAdd(c, pos, len) ==
  CASE ~InUse(c) \/ PosLast(c.pos, c.len) <= pos -> c
    [] InUse(c) /\ c.pos > pos -> [c EXCEPT !.pos = @ + len]
    [] OTHER -> Forgotten(c)

CbDel(c, pos, len) ==
  LET end == PosLast(pos, len)
      last == PosLast(c.pos, c.len)
  IN  CASE ~InUse(c) \/ last < pos -> c
        [] InUse(c) /\ c.pos > end -> [c EXCEPT !.pos = @ - len]
        [] InUse(c) /\ c.pos <= end /\ last > end -> Kept(c, pos, end)
        [] OTHER -> Forgotten(c)

CbSub(c, pos, len) ==
  IF ~InUse(c) \/ PosLast(c.pos, c.len) < pos \/ c.pos > PosLast(pos, len)
  THEN c ELSE Forgotten(c)

(* What the inline vstr_del() does itself at the start and at the end. *)
InlineBeg(c, len) ==
  CASE ~InUse(c) -> c
    [] InUse(c) /\ c.pos > len -> [c EXCEPT !.pos = @ - len]
    [] InUse(c) /\ PosLast(c.pos, c.len) <= len -> Forgotten(c)
    [] OTHER -> Kept(c, 1, len)

InlineEnd(c, pos) ==
  IF InUse(c) /\ PosLast(c.pos, c.len) >= pos THEN Forgotten(c) ELSE c

-----------------------------------------------------------------------------
(* Changes *)

Positions(b) == 1 .. Len(str[b])

Texts == UNION {[1 .. n -> Char] : n \in 1 .. MaxAdd}

(* vstr_add_buf() and the other adds; a failed one leaves the cache alone. *)
Add(b, pos, s) ==
  /\ Len(str[b]) + Len(s) <= MaxLen[b]
  /\ str' = [str EXCEPT ![b] = Insert(@, pos, s)]
  /\ cache' = [cache EXCEPT ![b] = CbAdd(@, pos, Len(s))]
  /\ UNCHANGED <<buf, held>>

(* vstr_del() when it calls the callbacks. *)
Del(b, pos, len) ==
  /\ str' = [str EXCEPT ![b] = Remove(@, pos, len)]
  /\ cache' = [cache EXCEPT ![b] = CbDel(@, pos, len)]
  /\ UNCHANGED <<buf, held>>

(* The inline vstr_del() of less than the first or the last node. *)
DelInlineBeg(b, len) ==
  /\ len < Len(str[b])
  /\ str' = [str EXCEPT ![b] = Remove(@, 1, len)]
  /\ cache' = [cache EXCEPT ![b] = InlineBeg(@, len)]
  /\ UNCHANGED <<buf, held>>

DelInlineEnd(b, pos) ==
  /\ pos > 1
  /\ str' = [str EXCEPT ![b] = SubSeq(@, 1, pos - 1)]
  /\ cache' = [cache EXCEPT ![b] = InlineEnd(@, pos)]
  /\ UNCHANGED <<buf, held>>

(* vstr__sub_buf_fast(): the bytes of BUF nodes are overwritten in place. *)
Sub(b, pos, s) ==
  /\ PosLast(pos, Len(s)) <= Len(str[b])
  /\ str' = [str EXCEPT ![b] = Replace(@, pos, s)]
  /\ cache' = [cache EXCEPT ![b] = CbSub(@, pos, Len(s))]
  /\ UNCHANGED <<buf, held>>

(* vstr__cache_cstr_cpy(): may c, of the string that was added to, take    *)
(* over what d, of the string added from, remembers?  The copied part has  *)
(* to hold the end of it, where the NUL is.                                *)
Copies(c, d, fpos, len) ==
  /\ c.made /\ ~InUse(c) /\ InUse(d)
  /\ fpos <= PosLast(d.pos, d.len)
  /\ PosLast(fpos, len) >= PosLast(d.pos, d.len)

Copied(c, d, pos, fpos) ==
  LET begskip == IF fpos < d.pos THEN d.pos - fpos ELSE 0
      offskip == IF fpos < d.pos THEN 0 ELSE fpos - d.pos
  IN  [c EXCEPT !.ref = d.ref, !.sz = d.sz,
                !.off = d.off + offskip,
                !.len = d.len - offskip,
                !.pos = pos + 1 + begskip]

(* Mutant: the second string does not count its reference. *)
CopiedBufMutant(bf, c, d) == RefDel(bf, c.ref)

CopiedBuf(bf, c, d) == RefAdd(RefDel(bf, c.ref), d.ref)

(* vstr_add_vstr() of len bytes of f from fpos on: the nodes are added one *)
(* after the other, which is one add to the cache, and then the cache of f *)
(* is looked at.                                                           *)
AddVstr(b, pos, f, fpos, len) ==
  /\ Len(str[b]) + len <= MaxLen[b]
  /\ str' = [str EXCEPT ![b] = Insert(@, pos, Part(f, fpos, len))]
  /\ LET cs == [cache EXCEPT ![b] = CbAdd(@, pos, len)]
     IN  IF Copies(cs[b], cs[f], fpos, len)
         THEN /\ cache' = [cs EXCEPT ![b] = Copied(@, cs[f], pos, fpos)]
              /\ buf' = CopiedBuf(buf, cs[b], cs[f])
         ELSE cache' = cs /\ buf' = buf
  /\ UNCHANGED held

(* vstr_add_vstr() that fails after len bytes: they are deleted again. *)
AddVstrFails(b, pos, len) ==
  /\ Len(str[b]) + len < MaxLen[b]
  /\ cache' = [cache EXCEPT ![b] = CbDel(CbAdd(@, pos, len), pos + 1, len)]
  /\ UNCHANGED <<str, buf, held>>

-----------------------------------------------------------------------------
(* Exports *)

(* The C string of a part. *)
Cstr(b, pos, len) == Append(Part(b, pos, len), Nul)

(* Is it what is remembered, or the end of that? *)
Hit(c, pos, len) ==
  InUse(c) /\ pos >= c.pos /\ c.len - (pos - c.pos) = len

(* Mutant: nobody asks whether a user has a reference to the buffer. *)
OverwritesMutant(c, len) == c.ref # NoBuf /\ c.sz > len

(* May the buffer be overwritten? *)
Overwrites(c, len) == c.ref # NoBuf /\ c.sz > len /\ buf[c.ref].ref = 1

Remember(c, r, pos, len, sz) ==
  [c EXCEPT !.made = TRUE, !.ref = r, !.off = 0, !.pos = pos, !.len = len, !.sz = sz]

(* vstr__export_cstr_cache(): the cache, the buffers and the offset it may *)
(* return; none when no buffer is left.                                    *)
ExportCstrCache(b, pos, len) ==
  LET c == cache[b]
      s == Cstr(b, pos, len)
      freed == RefDel(buf, c.ref)
  IN  CASE Hit(c, pos, len) ->
             {[cache |-> c, buf |-> buf, off |-> c.off + (pos - c.pos)]}
        [] ~Hit(c, pos, len) /\ Overwrites(c, len) ->
             {[cache |-> Remember(c, c.ref, pos, len, c.sz),
               buf |-> [buf EXCEPT ![c.ref].data = Replace(@, 1, s)],
               off |-> 0]}
        [] OTHER ->
             {[cache |-> Remember(c, r, pos, len, len + 1),
               buf |-> [freed EXCEPT ![r] = [data |-> s, ref |-> 1]],
               off |-> 0] : r \in {r \in Buf : freed[r].ref = 0}}

(* vstr_export_cstr_ptr(): the pointer lasts until the next call. *)
ExportCstrPtr(b, pos, len) ==
  /\ \E e \in ExportCstrCache(b, pos, len) :
       cache' = [cache EXCEPT ![b] = e.cache] /\ buf' = e.buf
  /\ UNCHANGED <<str, held>>

(* vstr_export_cstr_ref(): the user keeps a reference. *)
ExportCstrRef(b, pos, len, h) ==
  /\ held[h] = NotHeld
  /\ \E e \in ExportCstrCache(b, pos, len) :
       /\ cache' = [cache EXCEPT ![b] = e.cache]
       /\ buf' = RefAdd(e.buf, e.cache.ref)
       /\ held' = [held EXCEPT ![h] =
                     [kind |-> "cstr", ref |-> e.cache.ref, off |-> e.off,
                      want |-> Cstr(b, pos, len)]]
  /\ UNCHANGED str

(* Either, when malloc() fails for the buffer: the old one is gone. *)
ExportCstrFails(b, pos, len) ==
  /\ ~Hit(cache[b], pos, len) /\ ~Overwrites(cache[b], len)
  /\ cache' = [cache EXCEPT ![b] = [@ EXCEPT !.made = TRUE, !.ref = NoBuf]]
  /\ buf' = RefDel(buf, cache[b].ref)
  /\ UNCHANGED <<str, held>>

(* vstr_export_ref(): takes what is remembered for the C string cache to   *)
(* be enough when this, in size_t, says so.                                *)
RefHit(c, pos, len) ==
  InUse(c) /\ pos >= c.pos /\ c.len <= (len - (pos - c.pos)) % SizeMod

(* Then a reference to its buffer is returned; otherwise one to a node or  *)
(* to a copy of the bytes, and nothing here changes.                       *)
ExportRef(b, pos, len, h) ==
  /\ held[h] = NotHeld
  /\ RefHit(cache[b], pos, len)
  /\ buf' = RefAdd(buf, cache[b].ref)
  /\ held' = [held EXCEPT ![h] =
                [kind |-> "ref", ref |-> cache[b].ref, off |-> pos - cache[b].pos,
                 want |-> Part(b, pos, len)]]
  /\ UNCHANGED <<str, cache>>

-----------------------------------------------------------------------------
(* Releases *)

(* vstr_ref_del() by the user. *)
UserRefDel(h) ==
  /\ held[h] # NotHeld
  /\ buf' = RefDel(buf, held[h].ref)
  /\ held' = [held EXCEPT ![h] = NotHeld]
  /\ UNCHANGED <<str, cache>>

(* vstr__cache_cstr_cb() for VSTR_TYPE_CACHE_FREE. *)
CacheFreed(b) == [cache[b] EXCEPT !.made = b \in GrpCstr, !.ref = NoBuf]

(* vstr_cache_cb_free() of the cache. *)
CacheCbFree(b) ==
  /\ cache[b].made
  /\ cache' = [cache EXCEPT ![b] = CacheFreed(b)]
  /\ buf' = RefDel(buf, cache[b].ref)
  /\ UNCHANGED <<str, held>>

(* vstr_free_base(), and a new string in its place: the data and the cache *)
(* are freed.                                                              *)
FreeBase(b) ==
  /\ str' = [str EXCEPT ![b] = <<>>]
  /\ cache' = [cache EXCEPT ![b] = CacheFreed(b)]
  /\ buf' = RefDel(buf, cache[b].ref)
  /\ UNCHANGED held

Change ==
  \E b \in Base :
    \/ \E pos \in 0 .. Len(str[b]), s \in Texts : Add(b, pos, s)
    \/ \E pos \in Positions(b) : \E len \in 1 .. PosDiff(pos, Len(str[b])) :
         Del(b, pos, len)
    \/ \E len \in Positions(b) : DelInlineBeg(b, len)
    \/ \E pos \in Positions(b) : DelInlineEnd(b, pos)
    \/ \E pos \in Positions(b), s \in Texts : Sub(b, pos, s)
    \/ \E pos \in 0 .. Len(str[b]), f \in Base : \E fpos \in Positions(f) :
         \E len \in 1 .. PosDiff(fpos, Len(str[f])) :
           AddVstr(b, pos, f, fpos, len)
    \/ \E pos \in 0 .. Len(str[b]), len \in 1 .. MaxLen[b] :
         AddVstrFails(b, pos, len)

(* A part to export: a C string may be empty. *)
Export ==
  \E b \in Base :
    \/ \E pos \in 1 .. Len(str[b]) + 1 :
         \E len \in 0 .. PosDiff(pos, Len(str[b])) :
           \/ ExportCstrPtr(b, pos, len)
           \/ \E h \in Handle : ExportCstrRef(b, pos, len, h)
           \/ ExportCstrFails(b, pos, len)
    \/ \E pos \in Positions(b), h \in Handle :
         \E len \in 1 .. PosDiff(pos, Len(str[b])) :
           ExportRef(b, pos, len, h)

Release ==
  \/ \E h \in Handle : UserRefDel(h)
  \/ \E b \in Base : CacheCbFree(b) \/ FreeBase(b)

Next == Change \/ Export \/ Release

Spec == Init /\ [][Next]_vars

-----------------------------------------------------------------------------
(* Properties *)

(* The bytes the program finds at offset off of buffer r are s. *)
Reads(r, off, s) ==
  /\ off + Len(s) <= Len(buf[r].data)
  /\ \A i \in 1 .. Len(s) : buf[r].data[off + i] = s[i]

(* The type of the state. *)
TypeOK ==
  /\ \A b \in Base : str[b] \in Seq(Char) /\ Len(str[b]) <= MaxLen[b]
  /\ cache \in [Base -> [made : BOOLEAN, ref : Buf \cup {NoBuf}, off : Nat,
                         pos : Nat, len : Nat, sz : Nat]]
  /\ \A r \in Buf : buf[r].ref \in Nat
  /\ \A h \in Handle : held[h].kind \in {"none", "cstr", "ref"}

(* What the cache of a string remembers is what the string holds there     *)
(* now, ended by a NUL, within the buffer: what vstr__cache_cstr_check()   *)
(* (vstr.c:69-98) asserts and what the next export hands out, after any    *)
(* adds, deletes at either end or within, substitutions and copies of the  *)
(* cache between strings.                                                  *)
CstrCacheRight ==
  \A b \in Base : InUse(cache[b]) =>
    LET c == cache[b]
    IN  /\ c.made /\ c.len < c.sz
        /\ c.pos >= 1 /\ PosLast(c.pos, c.len) <= Len(str[b])
        /\ Reads(c.ref, c.off, Cstr(b, c.pos, c.len))

(* A reference vstr_export_cstr_ref() returned reads, as long as it is     *)
(* kept, the C string that was asked for: the buffer is not overwritten by *)
(* later exports of this string or of one that shares the buffer.          *)
HeldRight ==
  \A h \in Handle : held[h].kind = "cstr" =>
    Reads(held[h].ref, held[h].off, held[h].want)

(* The count of a buffer is the number of caches and users that refer to   *)
(* it, so that it is freed with the last of them and not before.           *)
RefsExact ==
  \A r \in Buf :
    buf[r].ref = Cardinality({b \in Base : cache[b].ref = r})
                 + Cardinality({h \in Handle : held[h].ref = r})

(* Buffers are shared between caches and users and never leaked, freed too *)
(* early or written to by one that does not own them.                      *)
CstrInv == TypeOK /\ RefsExact

(* A reference vstr_export_ref() returned reads, at the offset it gave,    *)
(* the part of the string that was asked for (vstr_export.c:193-285).      *)
ExportRefRight ==
  \A h \in Handle : held[h].kind = "ref" =>
    Reads(held[h].ref, held[h].off, held[h].want)

=============================================================================
