------------------------------ MODULE VstrSrch ------------------------------
(***************************************************************************)
(* Searching, spanning and comparing strings: the algorithms of            *)
(* src/vstr_srch.c, src/vstr_srch_case.c, src/vstr_spn.c and               *)
(* src/vstr_cmp.c, over the list of nodes the data of a string is in.      *)
(*                                                                         *)
(* A node is a non empty sequence of bytes.  A byte is its ASCII code; the *)
(* bytes of a NON node, which has a length and no data, are Non, and no    *)
(* other node has any.  What is searched for, as a "buffer", is a sequence *)
(* of bytes: the NULL buffer that stands for NON data is one of Nons.      *)
(***************************************************************************)
EXTENDS Integers, Sequences, FiniteSetsExt, SequencesExt

Non == -1

IsNon(data) == data[1] = Non

(* Is a node of the string a NON node (base->node_non_used)? *)
NonUsed(ns) == \E i \in DOMAIN ns : IsNon(ns[i])

Least(x, y) == IF x < y THEN x ELSE y

LeastOf(S) == IF S = {} THEN 0 ELSE Min(S)

MostOf(S) == IF S = {} THEN 0 ELSE Max(S)

(* The memchr() and memrchr() of the C library, for any byte of a set. *)
MemChr(data, S) == LeastOf({k \in DOMAIN data : data[k] \in S})

MemRChr(data, S) == MostOf({k \in DOMAIN data : data[k] \in S})

NotIn(data, S) == {data[k] : k \in DOMAIN data} \ S

-----------------------------------------------------------------------------
(* Going through the nodes.                                                *)

(* The node a position is in, and the offset in it (vstr_base__pos()). *)
RECURSIVE NodeAt(_, _, _)
NodeAt(ns, num, pos) ==
  IF pos <= Len(ns[num]) THEN [num |-> num, off |-> pos]
                         ELSE NodeAt(ns, num + 1, pos - Len(ns[num]))

RECURSIVE PiecesFrom(_, _, _, _, _)
PiecesFrom(ns, num, off, pos, len) ==
  IF len = 0 THEN <<>>
  ELSE LET got == Least(Len(ns[num]) - off + 1, len) IN
       <<[pos |-> pos, data |-> SubSeq(ns[num], off, off + got - 1)]>>
         \o PiecesFrom(ns, num + 1, 1, pos + got, len - got)

(* What vstr_iter_fwd_beg() and vstr_iter_fwd_nxt() go through: each piece *)
(* of the data, with its position.                                         *)
Pieces(ns, pos, len) ==
  IF len = 0 THEN <<>>
  ELSE LET beg == NodeAt(ns, 1, pos) IN PiecesFrom(ns, beg.num, beg.off, pos, len)

(* vstr__base_scan_rev_nxt(): the nodes before one, from the iovec cache.  *)
(* left is what is still to be gone through after a piece.                 *)
RECURSIVE RevNxt(_, _, _)
RevNxt(ns, num, len) ==
  IF len = 0 \/ num = 0 THEN <<>>
  ELSE LET sz == Len(ns[num])
           got == Least(sz, len)
       IN <<[left |-> len - got, data |-> SubSeq(ns[num], sz - got + 1, sz)]>>
            \o RevNxt(ns, num - 1, len - got)

(* vstr__base_scan_rev_beg(), and then vstr__base_scan_rev_nxt(). *)
RevPieces(ns, pos, len) ==
  IF len = 0 THEN <<>>
  ELSE LET beg == NodeAt(ns, 1, pos)
           end == NodeAt(ns, 1, pos + len - 1)
       IN IF beg.num = end.num
          THEN <<[left |-> 0, data |-> SubSeq(ns[end.num], beg.off, beg.off + len - 1)]>>
          ELSE <<[left |-> len - end.off, data |-> SubSeq(ns[end.num], 1, end.off)]>>
                 \o RevNxt(ns, end.num - 1, len - end.off)

Datas(ps) == [k \in DOMAIN ps |-> ps[k].data]

-----------------------------------------------------------------------------
(* Comparing.  Only the sign of what is returned means anything.           *)

Sign(n) == IF n > 0 THEN 1 ELSE IF n < 0 THEN -1 ELSE 0

IsUpper(b) == b \in 65 .. 90
IsLower(b) == b \in 97 .. 122
IsDigit(b) == b \in 48 .. 57

ToLower(b) == IF IsUpper(b) THEN b + 32 ELSE b
ToUpper(b) == IF IsLower(b) THEN b - 32 ELSE b

(* memcmp(), and vstr__cmp_memcasecmp() when case is set. *)
MemCmp(a, b, case) ==
  LET low(x) == IF case THEN ToLower(x) ELSE x
      at == LeastOf({k \in DOMAIN a : low(a[k]) # low(b[k])})
  IN IF at = 0 THEN 0 ELSE low(a[at]) - low(b[at])

Rest(ds, got) ==
  IF got = Len(ds[1]) THEN Tail(ds)
                      ELSE <<SubSeq(ds[1], got + 1, Len(ds[1]))>> \o Tail(ds)

RECURSIVE CmpPieces(_, _, _)
CmpPieces(a, b, case) ==
  IF a = <<>> \/ b = <<>> THEN Sign(Len(a) - Len(b))
  ELSE LET got == Least(Len(a[1]), Len(b[1]))
           ret == MemCmp(SubSeq(a[1], 1, got), SubSeq(b[1], 1, got), case)
       IN IF IsNon(a[1]) # IsNon(b[1]) THEN IF IsNon(b[1]) THEN 1 ELSE -1
          ELSE IF ~IsNon(a[1]) /\ ret # 0 THEN ret
          ELSE CmpPieces(Rest(a, got), Rest(b, got), case)

(* vstr_cmp(), vstr_cmp_case() *)
Cmp(ns1, pos1, len1, ns2, pos2, len2, case) ==
  CmpPieces(Datas(Pieces(ns1, pos1, len1)), Datas(Pieces(ns2, pos2, len2)), case)

RECURSIVE CmpBufPieces(_, _, _)
CmpBufPieces(a, buf, case) ==
  LET got == Least(Len(a[1]), Len(buf))
      ret == MemCmp(SubSeq(a[1], 1, got), SubSeq(buf, 1, got), case)
  IN IF IsNon(a[1]) # IsNon(buf) THEN IF IsNon(buf) THEN 1 ELSE -1
     ELSE IF ~IsNon(buf) /\ ret # 0 THEN ret
     ELSE IF got = Len(buf) THEN IF Rest(a, got) # <<>> THEN 1 ELSE 0
     ELSE IF Len(a) = 1 THEN -1
     ELSE CmpBufPieces(Tail(a), SubSeq(buf, got + 1, Len(buf)), case)

(* vstr_cmp_buf(), vstr_cmp_case_buf() *)
CmpBuf(ns, pos, len, buf, case) ==
  IF len = 0 \/ buf = <<>> THEN Sign(len - Len(buf))
  ELSE CmpBufPieces(Datas(Pieces(ns, pos, len)), buf, case)

(* vstr__cmp_vers(): the state after two bytes that are the same, *)
VersSame(state, b) ==
  IF ~IsDigit(b) THEN "NORM"
  ELSE IF state = "NORM" THEN IF b = 48 THEN "FRAC" ELSE "NUMB"
  ELSE IF b # 48 THEN "NUMB" ELSE state

(* Mutant: the bytes of two numbers are told apart wherever they differ. *)
VersDifferMutant(state, a, b) ==
  IF state = "FRAC" /\ (IsDigit(a) \/ IsDigit(b)) THEN "LEN_NEG" ELSE "NORM"

(* and after the first two that differ. *)
VersDiffer(state, a, b) ==
  IF state = "NORM"
  THEN IF {a, b} \subseteq 49 .. 57 THEN "LEN_POS" ELSE "NORM"
  ELSE IF ~IsDigit(a) /\ ~IsDigit(b) THEN "NORM"
  ELSE IF state = "NUMB" THEN "LEN_POS" ELSE "LEN_NEG"

(* A longer number is greater, a longer fraction is less. *)
Longer(state) == IF state \in {"FRAC", "LEN_NEG"} THEN -1 ELSE 1

RECURSIVE VersRun(_, _, _)
VersRun(a, b, v) ==
  IF a = <<>> \/ v.state = "DONE" THEN v
  ELSE IF v.state \in {"LEN_POS", "LEN_NEG"}
  THEN IF IsDigit(a[1]) /\ IsDigit(b[1]) THEN VersRun(Tail(a), Tail(b), v)
       ELSE [state |-> "DONE",
             ret |-> IF IsDigit(a[1]) THEN Longer(v.state)
                     ELSE IF IsDigit(b[1]) THEN -Longer(v.state) ELSE v.ret]
  ELSE IF a[1] = b[1]
  THEN VersRun(Tail(a), Tail(b), [v EXCEPT !.state = VersSame(v.state, a[1])])
  ELSE LET state == VersDiffer(v.state, a[1], b[1]) IN
       VersRun(a, b, [state |-> IF state = "NORM" THEN "DONE" ELSE state,
                      ret |-> a[1] - b[1]])

RECURSIVE VersPieces(_, _, _)
VersPieces(a, b, v) ==
  IF a = <<>> /\ b = <<>> THEN v.ret
  ELSE IF a = <<>> THEN -Longer(v.state)
  ELSE IF b = <<>> THEN Longer(v.state)
  ELSE LET got == Least(Len(a[1]), Len(b[1]))
           now == IF IsNon(a[1]) THEN v
                  ELSE VersRun(SubSeq(a[1], 1, got), SubSeq(b[1], 1, got), v)
       IN IF IsNon(a[1]) # IsNon(b[1])
          THEN IF IsNon(b[1]) THEN Longer(v.state) ELSE -Longer(v.state)
          ELSE IF now.state = "DONE" THEN now.ret
          ELSE VersPieces(Rest(a, got), Rest(b, got), now)

(* vstr_cmp_vers(), and vstr_cmp_vers_buf() for one node: a string without *)
(* data is less than any other.                                            *)
CmpVers(ns1, pos1, len1, ns2, pos2, len2) ==
  IF len1 = 0 \/ len2 = 0 THEN Sign(len1 - len2)
  ELSE VersPieces(Datas(Pieces(ns1, pos1, len1)), Datas(Pieces(ns2, pos2, len2)),
                  [state |-> "NORM", ret |-> 0])

-----------------------------------------------------------------------------
(* Spanning: how much of the data, from its beginning or from its end, is  *)
(* bytes of S.  S is {Non} for the NULL buffer.                            *)

RECURSIVE SpnScan(_, _, _)
SpnScan(ds, S, ret) ==
  IF ds = <<>> THEN ret
  ELSE LET out == MemChr(ds[1], NotIn(ds[1], S)) IN
       IF out # 0 THEN ret + out - 1 ELSE SpnScan(Tail(ds), S, ret + Len(ds[1]))

(* vstr__spn_chrs_rev_slow(): forward, and again from each byte not in S. *)
SpnRevSlow(ds, S) ==
  FoldLeft(LAMBDA ret, data :
             LET out == MemRChr(data, NotIn(data, S)) IN
             IF out # 0 THEN Len(data) - out ELSE ret + Len(data),
           0, ds)

(* vstr__spn_chrs_rev_fast(): backward, with the iovec cache. *)
RECURSIVE SpnRevFast(_, _, _)
SpnRevFast(ds, S, ret) ==
  IF ds = <<>> THEN ret
  ELSE LET out == MemRChr(ds[1], NotIn(ds[1], S)) IN
       IF out # 0 THEN ret + Len(ds[1]) - out
                  ELSE SpnRevFast(Tail(ds), S, ret + Len(ds[1]))

(* vstr_spn_chrs_fwd(), vstr_spn_bmap_eq_fwd(), vstr_spn_bmap_and_fwd() *)
SpnFwd(ns, pos, len, S) ==
  IF S = {Non} /\ ~NonUsed(ns) THEN 0 ELSE SpnScan(Datas(Pieces(ns, pos, len)), S, 0)

(* vstr_spn_chrs_rev(), vstr_spn_bmap_eq_rev(), vstr_spn_bmap_and_rev():   *)
(* fast when base->iovec_upto_date.                                        *)
SpnRev(ns, pos, len, S, fast) ==
  IF S = {Non} /\ ~NonUsed(ns) THEN 0
  ELSE IF fast THEN SpnRevFast(Datas(RevPieces(ns, pos, len)), S, 0)
  ELSE SpnRevSlow(Datas(Pieces(ns, pos, len)), S)

AllBut(ns, S) == UNION {{ns[i][k] : k \in DOMAIN ns[i]} : i \in DOMAIN ns} \ S

-----------------------------------------------------------------------------
(* Searching: the position of the first or of the last match, or 0.        *)

(* vstr_srch_chr_fwd(), and vstr_srch_case_chr_fwd(), which looks for a    *)
(* letter in both cases: S is what a byte may be.                          *)
SrchChrFwd(ns, pos, len, S) ==
  LET ps == Pieces(ns, pos, len)
  IN LeastOf({ps[i].pos + MemChr(ps[i].data, S) - 1 :
                i \in {j \in DOMAIN ps : ~IsNon(ps[j].data) /\ MemChr(ps[j].data, S) # 0}})

(* The last of the matches that are found forward, each search going on    *)
(* behind the match before it, while at least need bytes are left and the  *)
(* position is at most upto.                                               *)
RevSlow(Fwd(_, _), pos, len, need, upto) ==
  LET f[at \in pos .. pos + len] ==
        LET left == len - (at - pos)
            found == Fwd(at, left)
        IN IF left < need \/ at > upto \/ found = 0 THEN 0
           ELSE Max({found, f[found + 1]})
  IN f[pos]

(* vstr__srch_chr_rev_slow() *)
SrchChrRevSlow(ns, pos, len, S) ==
  RevSlow(LAMBDA at, left : SrchChrFwd(ns, at, left, S), pos, len, 1, pos + len - 1)

(* vstr__srch_chr_rev_fast() *)
SrchChrRevFast(ns, pos, len, S) ==
  LET ps == RevPieces(ns, pos, len)
  IN MostOf({pos + ps[i].left + MemRChr(ps[i].data, S) - 1 :
               i \in {j \in DOMAIN ps : ~IsNon(ps[j].data) /\ MemRChr(ps[j].data, S) # 0}})

(* vstr_srch_chr_rev() *)
SrchChrRev(ns, pos, len, S, fast) ==
  IF fast THEN SrchChrRevFast(ns, pos, len, S) ELSE SrchChrRevSlow(ns, pos, len, S)

(* vstr_cspn_chrs_fwd(), vstr_cspn_bmap_eq_fwd(), vstr_cspn_bmap_and_fwd() *)
CspnFwd(ns, pos, len, S) ==
  IF S = {Non} /\ ~NonUsed(ns) THEN len
  ELSE IF Cardinality(S) = 1 /\ S # {Non}
  THEN LET found == SrchChrFwd(ns, pos, len, S) IN
       IF found = 0 THEN len ELSE found - pos
  ELSE SpnScan(Datas(Pieces(ns, pos, len)), AllBut(ns, S), 0)

(* vstr_cspn_chrs_rev(), vstr_cspn_bmap_eq_rev(), vstr_cspn_bmap_and_rev() *)
CspnRev(ns, pos, len, S, fast) ==
  IF S = {Non} /\ ~NonUsed(ns) THEN len
  ELSE IF Cardinality(S) = 1 /\ S # {Non}
  THEN LET found == SrchChrRev(ns, pos, len, S, fast) IN
       IF found = 0 THEN len ELSE pos + len - 1 - found
  ELSE IF fast THEN SpnRevFast(Datas(RevPieces(ns, pos, len)), AllBut(ns, S), 0)
  ELSE SpnRevSlow(Datas(Pieces(ns, pos, len)), AllBut(ns, S))

(* vstr_srch_chrs_fwd(), vstr_csrch_chrs_fwd(): the first byte of S, or    *)
(* not of S, by what cspn or spn returns;                                  *)
AfterSpn(num, pos, len) == IF num = len THEN 0 ELSE pos + num

(* vstr_srch_chrs_rev(), vstr_csrch_chrs_rev() *)
BeforeSpn(num, pos, len) == IF num = len THEN 0 ELSE pos + len - num - 1

(* The bytes that match one in a search without case. *)
Cases(b) == {b, ToLower(b), ToUpper(b)}

(* Where in a piece a match may begin, with len bytes still to go.  A match *)
(* that goes on in the next nodes is left to vstr_cmp_buf().               *)
BufHits(ns, p, end, str, case) ==
  {p.pos + k - 1 : k \in
     {j \in DOMAIN p.data :
        LET at == p.pos + j - 1
            got == Least(Len(p.data) - j + 1, Len(str))
        IN /\ end - at >= Len(str)
           /\ IF case
              THEN /\ ToUpper(p.data[j]) = ToUpper(str[1])
                   /\ CmpBuf(ns, at, Len(str), str, TRUE) = 0
              ELSE /\ p.data[j] = str[1]
                   /\ SubSeq(p.data, j, j + got - 1) = SubSeq(str, 1, got)
                   /\ \/ got = Len(str)
                      \/ CmpBuf(ns, at + got, Len(str) - got,
                                SubSeq(str, got + 1, Len(str)), FALSE) = 0}}

(* vstr_srch_buf_fwd(), vstr_srch_case_buf_fwd() *)
SrchBufFwd(ns, pos, len, str, case) ==
  IF len = 0 \/ Len(str) > len THEN 0
  ELSE IF str = <<>> THEN pos
  ELSE IF IsNon(str) /\ ~NonUsed(ns) THEN 0
  ELSE IF ~IsNon(str) /\ Len(str) = 1
  THEN SrchChrFwd(ns, pos, len, IF case THEN Cases(str[1]) ELSE {str[1]})
  ELSE LET ps == Pieces(ns, pos, len)
       IN LeastOf(UNION {IF IsNon(str)
                         THEN IF CmpBuf(ns, ps[i].pos, Len(str), str, FALSE) = 0
                              THEN {ps[i].pos} ELSE {}
                         ELSE BufHits(ns, ps[i], pos + len, str, case) :
                           i \in {j \in DOMAIN ps : /\ IsNon(ps[j].data) = IsNon(str)
                                                    /\ pos + len - ps[j].pos >= Len(str)}})

(* Do the data that end at end in the i-th piece, going backward, end in   *)
(* str (vstr__cmp_eq_rev_buf(), vstr__cmp_eq_rev_non())?                   *)
RECURSIVE EqRev(_, _, _, _)
EqRev(ps, i, end, str) ==
  LET got == Least(end, Len(str))
      rest == Len(str) - got
  IN IF Len(str) > ps[i].left + end \/ IsNon(ps[i].data) # IsNon(str) THEN FALSE
     ELSE /\ SubSeq(ps[i].data, end - got + 1, end) = SubSeq(str, rest + 1, Len(str))
          /\ rest = 0 \/ EqRev(ps, i + 1, Len(ps[i + 1].data), SubSeq(str, 1, rest))

(* Mutant: a match that begins in an earlier node is not looked for. *)
RevEndsMutant(ps, i, str) ==
  {end \in DOMAIN ps[i].data : end >= Len(str) /\ EqRev(ps, i, end, str)}

(* Where in a piece a match may end: of NON data only at its end. *)
RevEnds(ps, i, str) ==
  {end \in DOMAIN ps[i].data :
     /\ IsNon(str) => end = Len(ps[i].data)
     /\ EqRev(ps, i, end, str)}

(* vstr__srch_buf_rev_fast(), which vstr_srch_buf_rev() calls with the     *)
(* iovec cache, and vstr__srch_buf_rev_slow(), without.                    *)
SrchBufRev(ns, pos, len, str, fast) ==
  IF len = 0 \/ Len(str) > len THEN 0
  ELSE IF str = <<>> THEN pos + len - 1
  ELSE IF ~IsNon(str) /\ Len(str) = 1 THEN SrchChrRev(ns, pos, len, {str[1]}, fast)
  ELSE IF fast
  THEN LET ps == RevPieces(ns, pos, len)
       IN MostOf(UNION {{pos + ps[i].left + end - Len(str) : end \in RevEnds(ps, i, str)} :
                          i \in DOMAIN ps})
  ELSE RevSlow(LAMBDA at, left : SrchBufFwd(ns, at, left, str, FALSE),
               pos, len, Len(str), pos + len - 1)

(* vstr_srch_case_buf_rev(), which never uses the iovec cache but for one  *)
(* letter.                                                                 *)
SrchCaseBufRev(ns, pos, len, str, fast) ==
  IF len = 0 \/ Len(str) > len THEN 0
  ELSE IF str = <<>> THEN pos + len - 1
  ELSE IF ~IsNon(str) /\ Len(str) = 1
  THEN IF Cardinality(Cases(str[1])) = 1 THEN SrchChrRev(ns, pos, len, {str[1]}, fast)
       ELSE BeforeSpn(CspnRev(ns, pos, len, Cases(str[1]), fast), pos, len)
  ELSE RevSlow(LAMBDA at, left : SrchBufFwd(ns, at, left, str, TRUE),
               pos, len, Len(str), pos + len - 2)

(* vstr_srch_vstr_fwd(), vstr_srch_case_vstr_fwd(): the needle is the      *)
(* whole of a string, and the search for it skips to the next match of its *)
(* first node.                                                             *)
SrchVstrFwd(ns, pos, len, ndl, case) ==
  LET n == Len(FlattenSeq(ndl))
      f[at \in pos .. pos + len] ==
        LET left == len - (at - pos)
            skip == SrchBufFwd(ns, at + 1, left - 1, ndl[1], case)
        IN IF at >= pos + len - 1 \/ left < n THEN 0
           ELSE IF Cmp(ns, at, n, ndl, 1, n, case) = 0 THEN at
           ELSE IF IsNon(ndl[1]) THEN f[at + 1]
           ELSE IF skip = 0 THEN 0 ELSE f[skip]
  IN IF n > len \/ n = 0 THEN 0 ELSE f[pos]

(* vstr_srch_vstr_rev(), vstr_srch_case_vstr_rev() *)
SrchVstrRev(ns, pos, len, ndl, case) ==
  RevSlow(LAMBDA at, left : SrchVstrFwd(ns, at, left, ndl, case), pos, len,
          Len(FlattenSeq(ndl)), IF case THEN pos + len - 2 ELSE pos + len - 1)
=============================================================================
