----------------------------- MODULE VstrSects -----------------------------
(***************************************************************************)
(* Sections of a string: the growing array of a Vstr_sects, sections that  *)
(* the caches of the string keep up to date while it changes, going        *)
(* through them with a callback that may itself change the string, and     *)
(* vstr_split_buf(), which adds them.  Translated from src/vstr_sect.c,    *)
(* src/vstr_split.c and include/vstr-inline.h.                             *)
(*                                                                         *)
(* A byte of the string is [c, in]: the character, and, for the            *)
(* properties alone, the sections <<s, n>> it belongs to: those that the   *)
(* bytes of were once given to, and those it was put in the middle of.     *)
(***************************************************************************)
EXTENDS Integers, Sequences, FiniteSets, SequencesExt

CONSTANTS
  Sects,      \* the Vstr_sects
  BegSz,      \* their sizes when they are made
  CanAdd,     \* sects->can_add_sz, for each
  CanDel,     \* sects->can_del_sz, for each
  Strs,       \* the strings there are sections of; ":" is what is split on
  Texts,      \* what is added to them
  FlagSets,   \* the flags that are passed to vstr_split_buf()
  Limits,     \* and the limits
  AnyUpdate,  \* are deletes made that the update of sections gets wrong?
  AnyDel,     \* may a callback take its place in the array from a foreach?
  MaxLen,     \* bound: the length of the string
  MaxNum      \* bound: the sections that are added to a Vstr_sects

Flags == {"BEG_NULL", "MID_NULL", "END_NULL", "POST_NULL", "NO_RET", "REMAIN"}

ASSUME SectsAssumption ==
  /\ BegSz \in [Sects -> Nat]
  /\ {CanAdd, CanDel} \subseteq [Sects -> BOOLEAN]
  /\ Strs \cup Texts \subseteq Seq({"a", ":"})
  /\ FlagSets \subseteq SUBSET Flags
  /\ Limits \subseteq Nat
  /\ {AnyUpdate, AnyDel} \subseteq BOOLEAN
  /\ {MaxLen, MaxNum} \subseteq Nat \ {0}

VARIABLES str,      \* the string
          sects,    \* [num, sz, ptr, bad] for each Vstr_sects
          updates,  \* data->updates: the Vstr_sects that are kept up to date
          iter,     \* vstr_sects_foreach(): the frame of its call
          split     \* the last vstr_split_buf(): its arguments and result

vars == <<str, sects, updates, iter, split>>

NoSect == [pos |-> 0, len |-> 0]

NoIter == [on |-> FALSE]

NoSplit == [op |-> "none"]

Least(x, y) == IF x < y THEN x ELSE y

-----------------------------------------------------------------------------
(* The array of a Vstr_sects: ptr has sz entries, of which num are used.   *)

(* The size vstr__sects_add() asks for (sects->alloc_double is set). *)
GrownSz(s) == IF s.sz = 0 THEN 1 ELSE 2 * s.sz

Resized(s, sz) ==
  [s EXCEPT !.sz = sz,
            !.ptr = [k \in 1 .. sz |-> IF k <= s.sz THEN s.ptr[k] ELSE NoSect]]

Put(s, pos, len) ==
  [s EXCEPT !.ptr = [s.ptr EXCEPT ![s.num + 1] = [pos |-> pos, len |-> len]],
            !.num = s.num + 1]

(* vstr_sects_add(): whether an array that has to grow gets the memory is  *)
(* "mem".                                                                  *)
AddSect(i, s, pos, len, mem) ==
  LET full == s.num >= s.sz
  IN  CASE ~full -> [s |-> Put(s, pos, len), ok |-> TRUE]
        [] full /\ ~CanAdd[i] -> [s |-> s, ok |-> FALSE]
        [] full /\ CanAdd[i] /\ ~mem -> [s |-> [s EXCEPT !.bad = TRUE], ok |-> FALSE]
        [] OTHER -> [s |-> Put(Resized(s, GrownSz(s)), pos, len), ok |-> TRUE]

(* The sections that were deleted at the end of the array are dropped. *)
Shorten(s) ==
  [s EXCEPT !.num = CHOOSE n \in 0 .. s.num :
                      /\ n > 0 => s.ptr[n].pos # 0
                      /\ \A k \in n + 1 .. s.num : s.ptr[k].pos = 0]

(* Mutant: the array is halved although more than half of it is used. *)
ShrinkMutant(i, s, mem) ==
  CASE ~(CanDel[i] /\ s.num < s.sz) -> s
    [] CanDel[i] /\ s.num < s.sz /\ ~mem -> [s EXCEPT !.bad = TRUE]
    [] OTHER -> Resized(s, s.sz \div 2)

(* vstr__sects_del(), of which the caller does not return the error. *)
Shrink(i, s, mem) ==
  CASE ~(CanDel[i] /\ s.num < s.sz \div 2) -> s
    [] CanDel[i] /\ s.num < s.sz \div 2 /\ ~mem -> [s EXCEPT !.bad = TRUE]
    [] OTHER -> Resized(s, s.sz \div 2)

-----------------------------------------------------------------------------
(* Keeping sections up to date: vstr__sects_update_cb() *)

(* VSTR_TYPE_CACHE_ADD: a section the data is put in front of moves, one   *)
(* that it is put within grows.                                            *)
UpdateAddOne(e, pos, len) ==
  CASE e.pos = 0 \/ e.len = 0 -> e
    [] e.pos > 0 /\ e.len > 0 /\ pos < e.pos -> [e EXCEPT !.pos = @ + len]
    [] e.pos > 0 /\ e.len > 0 /\ pos \in e.pos .. e.pos + e.len - 2 ->
         [e EXCEPT !.len = @ + len]
    [] OTHER -> e

(* Mutant: a section is not shortened by what is deleted from its end. *)
UpdateDelOneMutant(e, pos, len) ==
  CASE e.pos = 0 \/ e.len = 0 -> [e |-> e, len |-> len]
    [] e.pos > 0 /\ e.len > 0 /\ pos <= e.pos - len ->
         [e |-> [e EXCEPT !.pos = @ - len], len |-> len]
    [] OTHER -> [e |-> e, len |-> len]

(* VSTR_TYPE_CACHE_DEL of one section.  What is deleted in front of a      *)
(* section is taken off len, which the next sections are updated with.     *)
UpdateDelOne(e, pos, len) ==
  LET tmp == e.pos - pos
      rest == len - tmp
      live == e.pos > 0 /\ e.len > 0
  IN  CASE ~live -> [e |-> e, len |-> len]
        [] live /\ pos <= e.pos /\ tmp >= len ->
             [e |-> [e EXCEPT !.pos = @ - len], len |-> len]
        [] live /\ pos <= e.pos /\ tmp < len /\ rest >= e.len ->
             [e |-> [e EXCEPT !.pos = 0], len |-> rest]
        [] live /\ pos <= e.pos /\ tmp < len /\ rest < e.len ->
             [e |-> [pos |-> pos, len |-> e.len - rest], len |-> rest]
        [] live /\ pos \in e.pos + 1 .. e.pos + e.len - 1 ->
             [e |-> [e EXCEPT !.len = IF len >= @ + tmp THEN -tmp ELSE @ - len],
              len |-> len]
        [] OTHER -> [e |-> e, len |-> len]

UpdateAddAll(s, pos, len) ==
  [s EXCEPT !.ptr = [n \in DOMAIN s.ptr |->
     IF n <= s.num THEN UpdateAddOne(s.ptr[n], pos, len) ELSE s.ptr[n]]]

UpdateAdds(pos, len) ==
  [i \in Sects |-> IF i \in Range(updates) THEN UpdateAddAll(sects[i], pos, len)
                                           ELSE sects[i]]

(* What len is behind each section of s, and behind each Vstr_sects.       *)
LenBehind(s, pos, len) ==
  LET left[n \in 0 .. s.num] ==
        IF n = 0 THEN len ELSE UpdateDelOne(s.ptr[n], pos, left[n - 1]).len
  IN  left

LenAfter(pos, len) ==
  LET left[k \in 0 .. Len(updates)] ==
        IF k = 0 THEN len
        ELSE LET s == sects[updates[k]] IN LenBehind(s, pos, left[k - 1])[s.num]
  IN  left

UpdateDelAll(s, pos, len) ==
  LET left == LenBehind(s, pos, len)
  IN  [s EXCEPT !.ptr = [n \in DOMAIN s.ptr |->
         IF n <= s.num THEN UpdateDelOne(s.ptr[n], pos, left[n - 1]).e ELSE s.ptr[n]]]

(* vstr__sects_update_srch() *)
PlaceOf(i) == CHOOSE k \in DOMAIN updates : updates[k] = i

UpdateDels(pos, len) ==
  LET left == LenAfter(pos, len)
  IN  [i \in Sects |-> IF i \in Range(updates)
                       THEN UpdateDelAll(sects[i], pos, left[PlaceOf(i) - 1])
                       ELSE sects[i]]

(* A delete with which len stays what it was: it does not begin in front   *)
(* of a section, with bytes in between, and reach into it; or that section *)
(* is the last one.                                                        *)
IsLast(k, n) == /\ n = sects[updates[k]].num
                /\ \A j \in k + 1 .. Len(updates) : sects[updates[j]].num = 0

PlainDel(pos, len) ==
  \A k \in DOMAIN updates : \A n \in 1 .. sects[updates[k]].num :
    LET e == sects[updates[k]].ptr[n]
    IN  e.len > 0 /\ pos < e.pos /\ e.pos < pos + len => IsLast(k, n)

-----------------------------------------------------------------------------
(* Splitting *)

(* vstr_srch_buf_fwd() or vstr_srch_chrs_fwd(): the first ":" from pos on. *)
Delims(pos) == {k \in pos .. Len(str) : str[k].c = ":"}

SrchFwd(pos) ==
  IF Delims(pos) = {} THEN 0
  ELSE CHOOSE k \in Delims(pos) : \A j \in Delims(pos) : k <= j

(* vstr__split_buf_null_end() or vstr_spn_chrs_fwd(): how many ":" follow  *)
(* each other at pos.                                                      *)
NullCount(pos) ==
  CHOOSE n \in 0 .. Len(str) - pos + 1 :
    /\ \A k \in pos .. pos + n - 1 : str[k].c = ":"
    /\ pos + n <= Len(str) => str[pos + n].c # ":"

(* The state of the loop: t.s is the Vstr_sects, t.ret what is returned.   *)
Stop(t, ret) == [t EXCEPT !.done = TRUE, !.ret = ret]

(* vstr_sects_add() and vstr__split_hdl_err(): the section is counted also *)
(* where it found no room.                                                 *)
Added(t, r) ==
  CASE r.ok -> [t EXCEPT !.s = r.s, !.added = @ + 1]
    [] ~r.ok /\ r.s.bad -> Stop([t EXCEPT !.s = [r.s EXCEPT !.num = @ - t.added]], 0)
    [] ~r.ok /\ ~r.s.bad /\ "NO_RET" \in t.flags -> Stop(t, 1)
    [] OTHER -> [t EXCEPT !.added = @ + 1]

SplitAdd(t, pos, len) ==
  IF t.done THEN t ELSE Added(t, AddSect(t.i, t.s, pos, len, t.mem))

Skip(t, n) == IF t.done THEN t ELSE [t EXCEPT !.pos = @ + n, !.len = @ - n]

Remains(t) == IF "REMAIN" \in t.flags THEN 1 ELSE 0

(* How many of count null sections the limit allows. *)
Allowed(t, count) ==
  IF t.limit > 0 /\ count >= t.limit - t.added
  THEN (t.limit - Remains(t)) - t.added ELSE count

(* vstr__split_hdl_null_beg() and vstr__split_hdl_null_mid() *)
HdlNullOne(t, flag) == Skip(IF flag \in t.flags THEN SplitAdd(t, t.pos, 0) ELSE t, 1)

HdlNull(t, flag, count) ==
  LET turn[k \in 0 .. Allowed(t, count)] ==
        IF k = 0 THEN t ELSE HdlNullOne(turn[k - 1], flag)
  IN  turn[Allowed(t, count)]

(* vstr__split_hdl_null_end() *)
Finished(t) == IF t.done THEN t ELSE Stop(t, t.added)

NullEndRest(t) ==
  IF ~t.done /\ ((t.len > 0 /\ "REMAIN" \in t.flags)
                 \/ (t.len = 0 /\ "POST_NULL" \in t.flags))
  THEN SplitAdd(t, t.pos, t.len) ELSE t

HdlNullEnd(t, count) ==
  Finished(NullEndRest(IF "END_NULL" \in t.flags THEN HdlNull(t, "END_NULL", count)
                                                 ELSE t))

(* vstr__split_hdl_def() *)
HdlDef(t) == Skip(SplitAdd(t, t.pos, t.at - t.pos), t.at - t.pos + 1)

(* vstr__split_hdl_end() *)
HdlEnd(t) ==
  Finished(
    CASE t.done -> t
      [] ~t.done /\ t.len > 0 /\ ("REMAIN" \in t.flags \/ t.at = 0) ->
           SplitAdd(t, t.pos, t.len)
      [] ~t.done /\ t.len = 0 /\ "POST_NULL" \in t.flags
                 /\ (t.limit = 0 \/ t.added < t.limit) -> SplitAdd(t, t.pos, 0)
      [] OTHER -> t)

(* Mutant: null sections at the beginning are taken for ones in the middle. *)
SplitFoundMutant(t) ==
  CASE t.at = t.pos /\ NullCount(t.pos) = t.len -> HdlNullEnd(t, NullCount(t.pos))
    [] t.at = t.pos /\ NullCount(t.pos) < t.len ->
         HdlNull(t, "MID_NULL", NullCount(t.pos))
    [] OTHER -> HdlDef(t)

(* The body of the loop of vstr_split_buf() and vstr_split_chrs(). *)
SplitFound(t) ==
  CASE t.at = 1 /\ NullCount(1) = t.len ->
         IF "BEG_NULL" \in t.flags THEN HdlNullEnd(t, NullCount(1)) ELSE Stop(t, 0)
    [] t.at = 1 /\ NullCount(1) < t.len -> HdlNull(t, "BEG_NULL", NullCount(1))
    [] t.at > 1 /\ t.at = t.pos /\ NullCount(t.pos) = t.len ->
         HdlNullEnd(t, NullCount(t.pos))
    [] t.at > 1 /\ t.at = t.pos /\ NullCount(t.pos) < t.len ->
         HdlNull(t, "MID_NULL", NullCount(t.pos))
    [] OTHER -> HdlDef(t)

SplitSrch(t, at) == IF at = 0 THEN HdlEnd([t EXCEPT !.at = 0])
                              ELSE SplitFound([t EXCEPT !.at = at])

SplitLoop(t) ==
  CASE t.done -> t
    [] ~t.done /\ t.len > 0 /\ (t.limit = 0 \/ t.added < t.limit - Remains(t)) ->
         SplitSrch(t, SrchFwd(t.pos))
    [] OTHER -> HdlEnd(t)

(* vstr_split_buf() of the whole string. *)
SplitBeg(i, limit, flags, mem) ==
  [i |-> i, s |-> sects[i], pos |-> 1, len |-> Len(str), at |-> 0, added |-> 0,
   limit |-> limit, flags |-> flags, mem |-> mem, done |-> FALSE, ret |-> 0]

SplitOp(i, limit, flags, mem) ==
  LET turn[k \in 0 .. Len(str) + 2] ==
        IF k = 0 THEN SplitBeg(i, limit, flags, mem) ELSE SplitLoop(turn[k - 1])
  IN  turn[Len(str) + 2]

-----------------------------------------------------------------------------
(* vstr_sects_make() *)
Init ==
  /\ \E cs \in Strs : str = [k \in DOMAIN cs |-> [c |-> cs[k], in |-> {}]]
  /\ sects = [i \in Sects |-> [num |-> 0, sz |-> BegSz[i], bad |-> FALSE,
                               ptr |-> [k \in 1 .. BegSz[i] |-> NoSect]]]
  /\ updates = <<>>
  /\ iter = NoIter
  /\ split = NoSplit

(* The caller, or the callback of vstr_sects_foreach(), may make a call. *)
Free == iter.on => iter.called

Passes(e, null) == e.pos > 0 /\ (e.len > 0 \/ null)

Follow ==
  iter' = IF iter.on
          THEN [iter EXCEPT !.keep = {n \in iter.keep : n <= sects'[iter.i].num
                                       /\ Passes(sects'[iter.i].ptr[n], iter.null)}]
          ELSE iter

(* vstr_add_buf(): the new bytes are in the sections they are put within. *)
Inner(pos) == IF pos \in 1 .. Len(str) - 1 THEN str[pos].in \cap str[pos + 1].in ELSE {}

AddStr(pos, cs) ==
  /\ Free
  /\ Len(str) + Len(cs) <= MaxLen
  /\ str' = SubSeq(str, 1, pos) \o [k \in 1 .. Len(cs) |-> [c |-> cs[k], in |-> Inner(pos)]]
            \o SubSeq(str, pos + 1, Len(str))
  /\ sects' = UpdateAdds(pos, Len(cs))
  /\ split' = NoSplit
  /\ UNCHANGED <<updates, iter>>

DelStr(pos, len) ==
  /\ Free
  /\ AnyUpdate \/ PlainDel(pos, len)
  /\ str' = SubSeq(str, 1, pos - 1) \o SubSeq(str, pos + len, Len(str))
  /\ sects' = UpdateDels(pos, len)
  /\ split' = NoSplit
  /\ Follow
  /\ UNCHANGED updates

(* The string with its bytes in the sections that s has of Vstr_sects i,   *)
(* when those are kept up to date.                                         *)
Covers(s, n, k) == s.ptr[n].pos > 0 /\ k \in s.ptr[n].pos .. s.ptr[n].pos + s.ptr[n].len - 1

Marked(i, s, on) ==
  [k \in DOMAIN str |->
     [str[k] EXCEPT !.in = {x \in str[k].in : x[1] # i}
        \cup (IF on THEN {<<i, n>> : n \in {m \in 1 .. s.num : Covers(s, m, k)}} ELSE {})]]

Changes(i, s) ==
  /\ sects' = [sects EXCEPT ![i] = s]
  /\ str' = Marked(i, s, i \in Range(updates))

(* vstr_sects_add() *)
SectsAdd(i, pos, len, mem) ==
  /\ Free
  /\ sects[i].num < MaxNum
  /\ Changes(i, AddSect(i, sects[i], pos, len, mem).s)
  /\ split' = NoSplit
  /\ UNCHANGED <<updates, iter>>

(* vstr_sects_del().  Called by a callback it may make the array smaller   *)
(* that is gone through; PlainSectsDel says that the section the callback  *)
(* was called for still has its place.                                     *)
PlainSectsDel(i, s) == iter.on /\ iter.i = i => iter.scan <= s.sz

SectsDel(i, n, mem) ==
  /\ Free
  /\ sects[i].ptr[n].pos # 0
  /\ LET s == Shrink(i, Shorten([sects[i] EXCEPT !.ptr[n].pos = 0]), mem)
     IN  Changes(i, s) /\ (AnyDel \/ PlainSectsDel(i, s))
  /\ split' = NoSplit
  /\ Follow
  /\ UNCHANGED updates

(* vstr_sects_update_add(), with sections that are about the string, and   *)
(* vstr_sects_update_del().                                                *)
Within(s) == \A n \in 1 .. s.num : s.ptr[n].pos + s.ptr[n].len - 1 <= Len(str)

UpdateAdd(i) ==
  /\ Free
  /\ i \notin Range(updates)
  /\ Within(sects[i])
  /\ updates' = Append(updates, i)
  /\ str' = Marked(i, sects[i], TRUE)
  /\ split' = NoSplit
  /\ UNCHANGED <<sects, iter>>

UpdateDel(i) ==
  /\ Free
  /\ i \in Range(updates)
  /\ updates' = RemoveAt(updates, PlaceOf(i))
  /\ str' = Marked(i, sects[i], FALSE)
  /\ split' = NoSplit
  /\ UNCHANGED <<sects, iter>>

(* vstr_split_buf() *)
Split(i, limit, flags, mem) ==
  /\ ~iter.on
  /\ LET t == SplitOp(i, limit, flags, mem)
     IN  /\ Changes(i, t.s)
         /\ split' = [op |-> "split", i |-> i, limit |-> limit, flags |-> flags,
                      mem |-> mem,
                      old |-> sects[i], ret |-> t.ret]
  /\ UNCHANGED <<updates, iter>>

(* Mutant: a scan that goes backward begins with the last but one section. *)
ForeachBegMutant(i, back, null) ==
  /\ ~iter.on
  /\ sects[i].sz > 0
  /\ iter' = [on |-> TRUE, i |-> i, back |-> back, null |-> null, called |-> FALSE,
              scan |-> IF back /\ sects[i].num > 0 THEN sects[i].num - 1 ELSE 1,
              seen |-> {},
              keep |-> {n \in 1 .. sects[i].num : Passes(sects[i].ptr[n], null)}]
  /\ split' = NoSplit
  /\ UNCHANGED <<str, sects, updates>>

(* vstr_sects_foreach().  For the properties, seen are the sections it     *)
(* called its callback for, and keep those it began with that are still    *)
(* there.                                                                  *)
ForeachBeg(i, back, null) ==
  /\ ~iter.on
  /\ sects[i].sz > 0
  /\ iter' = [on |-> TRUE, i |-> i, back |-> back, null |-> null, called |-> FALSE,
              scan |-> IF back THEN sects[i].num ELSE 1, seen |-> {},
              keep |-> {n \in 1 .. sects[i].num : Passes(sects[i].ptr[n], null)}]
  /\ split' = NoSplit
  /\ UNCHANGED <<str, sects, updates>>

More == IF iter.back THEN iter.scan > 0 ELSE iter.scan <= sects[iter.i].num

NextScan == IF iter.back THEN iter.scan - 1 ELSE iter.scan + 1

(* The callback is called for the section at scan, or it is passed over.   *)
(* The loop backward compares scan with neither num nor sz: what it finds  *)
(* behind an array that became smaller may be anything.                    *)
InArray == iter.scan \in 1 .. sects[iter.i].sz

ForeachCall(pass) ==
  /\ iter.on /\ ~iter.called /\ More
  /\ InArray => pass = Passes(sects[iter.i].ptr[iter.scan], iter.null)
  /\ iter' = IF pass THEN [iter EXCEPT !.called = TRUE, !.seen = @ \cup {iter.scan}]
                     ELSE [iter EXCEPT !.scan = NextScan]
  /\ split' = NoSplit
  /\ UNCHANGED <<str, sects, updates>>

(* It returns: VSTR_TYPE_SECTS_FOREACH_DEF or VSTR_TYPE_SECTS_FOREACH_DEL, *)
(* which behind the array is a write to something that is no section.      *)
ForeachReturn(del) ==
  /\ iter.on /\ iter.called
  /\ iter' = [iter EXCEPT !.called = FALSE, !.scan = NextScan,
                          !.keep = IF del THEN @ \ {iter.scan} ELSE @]
  /\ IF del /\ InArray
            THEN Changes(iter.i, [sects[iter.i] EXCEPT !.ptr[iter.scan].pos = 0])
            ELSE UNCHANGED <<sects, str>>
  /\ split' = NoSplit
  /\ UNCHANGED updates

(* The loop is over, or the callback returned VSTR_TYPE_SECTS_FOREACH_RET. *)
ForeachEnd(mem) ==
  /\ iter.on
  /\ iter.called \/ ~More
  /\ Changes(iter.i, Shrink(iter.i, Shorten(sects[iter.i]), mem))
  /\ iter' = NoIter
  /\ split' = NoSplit
  /\ UNCHANGED updates

Next ==
  \/ \E pos \in 0 .. Len(str), cs \in Texts : AddStr(pos, cs)
  \/ \E pos \in 1 .. Len(str) : \E len \in 1 .. Len(str) - pos + 1 : DelStr(pos, len)
  \/ \E i \in Sects, mem \in BOOLEAN :
       \/ \E pos \in 1 .. Len(str) : \E len \in 0 .. Len(str) - pos + 1 :
            SectsAdd(i, pos, len, mem)
       \/ \E n \in 1 .. sects[i].num : SectsDel(i, n, mem)
       \/ \E limit \in Limits, flags \in FlagSets : Split(i, limit, flags, mem)
  \/ \E i \in Sects : UpdateAdd(i) \/ UpdateDel(i)
  \/ \E i \in Sects, back, null \in BOOLEAN : ForeachBeg(i, back, null)
  \/ \E pass \in BOOLEAN : ForeachCall(pass)
  \/ \E del \in BOOLEAN : ForeachReturn(del)
  \/ \E mem \in BOOLEAN : ForeachEnd(mem)

Spec == Init /\ [][Next]_vars

-----------------------------------------------------------------------------
SectOf == [pos : Nat, len : Nat]

(* The state's type: an array has the entries its size says. *)
TypeOK ==
  /\ \A k \in DOMAIN str : str[k].c \in {"a", ":"} /\ str[k].in \subseteq Sects \X Nat
  /\ \A i \in Sects : /\ sects[i].num \in 0 .. sects[i].sz
                      /\ sects[i].ptr \in [1 .. sects[i].sz -> SectOf]
                      /\ sects[i].bad \in BOOLEAN
  /\ Range(updates) \subseteq Sects /\ IsInjective(updates)
  /\ iter.on => iter.keep \subseteq 1 .. sects[iter.i].num

(* A section that vstr_sects_update_add() put in the care of the string's  *)
(* caches is about the same bytes after every add and delete: those that   *)
(* are left of the ones it was made for and those put within, and it is    *)
(* deleted when none of them is left.                                      *)
SectsTrack ==
  \A i \in Range(updates) : \A n \in 1 .. sects[i].num :
    {k \in DOMAIN str : <<i, n>> \in str[k].in} = {k \in DOMAIN str : Covers(sects[i], n, k)}
    /\ sects[i].ptr[n].pos > 0 => sects[i].ptr[n].pos + sects[i].ptr[n].len - 1 <= Len(str)
                                   \/ sects[i].ptr[n].len = 0

(* vstr_sects_foreach() looks at the array, and writes to it for a         *)
(* callback that returns VSTR_TYPE_SECTS_FOREACH_DEL, only where it has    *)
(* entries, although the callback adds and deletes sections and the array  *)
(* may become smaller: as long as a delete leaves the section the callback *)
(* was called for its place (PlainSectsDel).                               *)
ScanInArray == iter.on /\ (iter.called \/ More) => InArray

(* The arrays of sections keep their shape and are only looked at inside.  *)
SectsInv == TypeOK /\ ScanInArray

(* When its loop is over it has called its callback for every section it   *)
(* began with that is still there, forward and backward, whatever the      *)
(* callback added, deleted and moved in the meantime.                      *)
ForeachVisits == iter.on /\ ~iter.called /\ ~More => iter.keep \subseteq iter.seen

(* What vstr_split_buf() should do: the fields between the delimiters, of  *)
(* which empty ones are kept by their place.                               *)
Ends == SetToSortSeq(Delims(1) \cup {Len(str) + 1}, <)

Field(ends, j) == LET beg == IF j = 1 THEN 1 ELSE ends[j - 1] + 1
                  IN  [pos |-> beg, len |-> ends[j] - beg]

Full(ends) == {j \in DOMAIN ends : Field(ends, j).len > 0}

Keeps(ends, full, flags, j) ==
  LET n == Len(ends)
      alone == full = {}
  IN  CASE j \in full -> TRUE
        [] n = 1 /\ alone -> "POST_NULL" \in flags
        [] n > 1 /\ alone -> /\ {"BEG_NULL", "END_NULL"} \subseteq flags
                             /\ j = n => "POST_NULL" \in flags
        [] ~alone /\ (\A k \in full : j < k) -> "BEG_NULL" \in flags
        [] ~alone /\ (\A k \in full : j > k) ->
             IF j < n THEN "END_NULL" \in flags
             ELSE "POST_NULL" \in flags /\ ("END_NULL" \in flags \/ j - 1 \in full)
        [] OTHER -> "MID_NULL" \in flags

Kept(ends, full, flags, upto) ==
  LET js == SelectSeq([j \in 1 .. upto |-> j], LAMBDA j : Keeps(ends, full, flags, j))
  IN  [k \in DOMAIN js |-> Field(ends, js[k])]

(* With REMAIN, fields that a delimiter ends are taken up to one less than *)
(* the limit; the last section is what comes behind them.                  *)
RemainPos(ends, full, flags, taken, limit) ==
  LET n == Len(ends)
      behind == {j \in 1 .. n : \A k \in full : j > k}
  IN  CASE Len(taken) = limit - 1 /\ taken # <<>> -> Last(taken).pos + Last(taken).len + 1
        [] Len(taken) = limit - 1 /\ taken = <<>> -> 1
        [] Len(taken) < limit - 1 /\ n \in full -> Field(ends, n).pos
        [] Len(taken) < limit - 1 /\ n \notin full /\ "END_NULL" \in flags -> Len(str) + 1
        [] OTHER -> Field(ends, CHOOSE j \in behind : \A k \in behind : j <= k).pos

WithRemain(flags, taken, pos) ==
  IF pos <= Len(str) \/ "POST_NULL" \in flags
  THEN Append(taken, [pos |-> pos, len |-> Len(str) + 1 - pos]) ELSE taken

Expected(ends, full, flags, limit) ==
  CASE limit = 0 -> Kept(ends, full, flags, Len(ends))
    [] limit > 0 /\ "REMAIN" \notin flags ->
         LET kept == Kept(ends, full, flags, Len(ends))
         IN  SubSeq(kept, 1, Least(limit, Len(kept)))
    [] limit > 0 /\ "REMAIN" \in flags ->
         LET kept == Kept(ends, full, flags, Len(ends) - 1)
             taken == SubSeq(kept, 1, Least(limit - 1, Len(kept)))
         IN  IF full = {} /\ Len(ends) > 1 /\ limit > 1 /\ "BEG_NULL" \notin flags
             THEN <<>>
             ELSE WithRemain(flags, taken, RemainPos(ends, full, flags, taken, limit))

(* It is right about what is put in the array, and about what it returns,  *)
(* when the array is full, or cannot grow, too.                            *)
Stored(new, old) == SubSeq(new.ptr, old.num + 1, new.num)

Outcome(x, room, new, old, flags, ret, fails) ==
  CASE Len(x) <= room -> Stored(new, old) = x /\ ret = Len(x)
    [] Len(x) > room /\ fails -> new.num = old.num /\ ret = 0
    [] OTHER -> /\ Stored(new, old) = SubSeq(x, 1, room)
                /\ ret = IF "NO_RET" \in flags THEN 1 ELSE Len(x)

Room(i, old, mem) == IF CanAdd[i] /\ mem THEN Len(str) + 1 ELSE old.sz - old.num

(* Two uses of a limit with which the code adds other sections: MID_NULL   *)
(* without BEG_NULL, and END_NULL with POST_NULL; REMAIN without one.      *)
PlainSplit(limit, flags) ==
  /\ limit > 0 => /\ "MID_NULL" \in flags => "BEG_NULL" \in flags
                  /\ {"END_NULL", "POST_NULL"} \subseteq flags => "REMAIN" \in flags
  /\ "REMAIN" \in flags => limit > 0

(* vstr_split_buf() adds the sections, in their order, that lie between    *)
(* the delimiters, with the empty ones the flags ask for at the beginning, *)
(* in the middle and at the end, as many as the limit allows; it returns   *)
(* how many those are, and adds none when it runs out of memory.           *)
SplitRight ==
  split.op = "split" /\ PlainSplit(split.limit, split.flags) /\ ~split.old.bad =>
    Outcome(Expected(Ends, Full(Ends), split.flags, split.limit),
            Room(split.i, split.old, split.mem), sects[split.i], split.old, split.flags,
            split.ret, CanAdd[split.i])
=============================================================================
