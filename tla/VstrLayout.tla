----------------------------- MODULE VstrLayout -----------------------------
(***************************************************************************)
(* How a formatter lays its object out: the core's numbers                 *)
(* (vstr__add_fmt_number() in src/vstr_add_fmt.c), and the formatters of   *)
(* src/vstr_sc.c, which announce the length of their object to             *)
(* vstr_sc_fmt_cb_beg() before they print it, and rely on it in            *)
(* vstr_sc_fmt_cb_end() to put the padding behind it.                      *)
(*                                                                         *)
(* Text is a sequence of bytes.  A width or a precision of None was not    *)
(* given.                                                                  *)
(***************************************************************************)
EXTENDS Integers, Sequences, SequencesExt, FiniteSetsExt

CONSTANTS
  Grouping,   \* grouping of the locale, for every base: sizes from the right
  ThouSep     \* thousands_sep of the locale

CharMax == 127

None == -1

Rep(byte, n) == [i \in 1 .. n |-> byte]

Spaces(n) == Rep(32, n)

Zeros(n) == Rep(48, n)

-----------------------------------------------------------------------------
(* VSTR__ADD_FMT_NUM(): the digits of a number, none for 0. *)

DigitChar(d, large) == CASE d < 10 -> 48 + d [] large -> 55 + d [] OTHER -> 87 + d

NumLen(n, base) == CHOOSE l \in 0 .. 31 : n < base ^ l /\ (l = 0 \/ n >= base ^ (l - 1))

Digs(n, base, large) ==
  LET len == NumLen(n, base)
  IN  [i \in 1 .. len |-> DigitChar((n \div base ^ (len - i)) % base, large)]

(* vstr_sc_conv_num_uint() ..., and the conversions of the core without    *)
(* flags: "0" for 0.                                                       *)
Plain(n, base) == IF n = 0 THEN <<48>> ELSE Digs(n, base, TRUE)

(* vstr__add_fmt_grouping_mod(): the digits before the first separator, of *)
(* num that are left.                                                      *)
RECURSIVE GroupingFrom(_, _)
GroupingFrom(num, i) ==
  IF Grouping[i] < CharMax /\ Grouping[i] < num
  THEN GroupingFrom(num - Grouping[i], IF i < Len(Grouping) THEN i + 1 ELSE i)
  ELSE num

GroupingMod(num) == IF Grouping = <<>> THEN num ELSE GroupingFrom(num, 1)

(* vstr__add_fmt_grouping_num_sz(): the length of len digits with their    *)
(* separators.                                                             *)
RECURSIVE GroupingNumSz(_)
GroupingNumSz(len) ==
  LET num == GroupingMod(len)
  IN  IF len = num THEN len ELSE num + Len(ThouSep) + GroupingNumSz(len - num)

(* vstr_sc_add_grpbasenum_buf() *)
RECURSIVE Grouped(_)
Grouped(ds) ==
  LET num == GroupingMod(Len(ds))
  IN  IF Len(ds) = num THEN ds
      ELSE SubSeq(ds, 1, num) \o ThouSep \o Grouped(SubSeq(ds, num + 1, Len(ds)))

-----------------------------------------------------------------------------
(* A conversion of the core: val is the value without its sign, signed     *)
(* says that it is %d.                                                     *)

Less(w, n) == IF w > n THEN w - n ELSE 0

SignOf(n) ==
  CASE ~n.signed -> <<>>
    [] n.neg -> <<45>>
    [] n.plus -> <<43>>
    [] n.space -> <<32>>
    [] OTHER -> <<>>

(* Octal with "#": the precision is raised so that a zero comes first. *)
Precision(n, prec, real) ==
  IF n.hash /\ n.base = 8 /\ ((n.val = 0 /\ prec = 0) \/ prec <= real)
  THEN real + 1 ELSE prec

(* vstr__add_fmt_number() *)
AddFmtNumber(n) ==
  LET zeropad == n.zero /\ n.prec = None /\ ~n.minus
      thou == n.quote /\ ThouSep # <<>> /\ Grouping # <<>> /\ Grouping[1] < CharMax
      ds == Digs(n.val, n.base, n.large)
      real == IF thou THEN GroupingNumSz(Len(ds)) ELSE Len(ds)
      hex == n.hash /\ n.base = 16 /\ n.val # 0
      head == SignOf(n) \o IF ~hex THEN <<>> ELSE <<48, IF n.large THEN 88 ELSE 120>>
      prec == Precision(n, IF n.prec = None THEN 1 ELSE n.prec, real)
      pad == Less(Less(n.width, Len(head)), IF real > prec THEN real ELSE prec)
  IN  Spaces(IF zeropad \/ n.minus THEN 0 ELSE pad)
      \o head
      \o Zeros((IF zeropad THEN pad ELSE 0) + Less(prec, real))
      \o (IF thou THEN Grouped(ds) ELSE ds)
      \o Spaces(IF n.minus THEN pad ELSE 0)

-----------------------------------------------------------------------------
(* Formatters.  An object is [kind, len, neg, prefix]: the length it is    *)
(* announced with, and, for a number, its sign and what "#" puts before    *)
(* it.                                                                     *)

Obj(kind, len) == [kind |-> kind, len |-> len, neg |-> FALSE, prefix |-> <<>>]

(* vstr_sc_fmt_cb_beg(): what it prints, and what it leaves for the end:   *)
(* the length of the object, of its separators and of the padding.         *)
CbBeg(s, obj) ==
  LET num == obj.kind = "NUM"
      cut == obj.kind = "STR" /\ s.prec # None
      len == IF cut /\ obj.len > s.prec THEN s.prec ELSE obj.len
      width == IF cut /\ s.width > s.prec THEN s.prec ELSE s.width
      quote == IF num /\ s.quote THEN GroupingNumSz(len) - len ELSE 0
      head == IF ~num THEN <<>>
              ELSE SignOf([signed |-> TRUE, neg |-> obj.neg, plus |-> s.plus,
                           space |-> s.space])
                   \o (IF s.hash THEN obj.prefix ELSE <<>>)
      prec == IF num /\ s.prec # None THEN Less(s.prec, len + quote) ELSE 0
      zero == num /\ s.zero /\ prec = 0
      fill == Less(width, len + quote + Len(head) + prec)
  IN  [out |-> Spaces(IF zero \/ s.minus THEN 0 ELSE fill)
               \o head \o Zeros(IF zero THEN fill ELSE prec),
       len |-> len, quote |-> quote,
       space |-> IF zero \/ ~s.minus THEN 0 ELSE fill]

(* Mutant: the separators are not counted. *)
CbEndAtMutant(beg) == beg.len

(* vstr_sc_fmt_cb_end(): where the padding is put, counted from the object.*)
CbEndAt(beg) == beg.len + beg.quote

(* A formatter: text is what it prints between the two calls, behind is    *)
(* what the string has behind its position.  It fails when the padding     *)
(* belongs behind the end of the string, which a "-" is enough for.        *)
LaidAt(s, beg, at, rest) ==
  CASE s.minus /\ at > Len(rest) -> [ok |-> FALSE, out |-> <<>>]
    [] beg.space = 0 -> [ok |-> TRUE, out |-> beg.out \o rest]
    [] OTHER -> [ok |-> TRUE,
                 out |-> beg.out \o SubSeq(rest, 1, at)
                         \o Spaces(beg.space) \o SubSeq(rest, at + 1, Len(rest))]

LaidFrom(s, beg, rest) == LaidAt(s, beg, CbEndAt(beg), rest)

Laid(s, obj, text, behind) == LaidFrom(s, CbBeg(s, obj), text \o behind)

(* VSTR__SC_FMT_MAKE_CB_BASE2() *)
Base2(s, val, large, behind) ==
  LET ds == Plain(val, 2)
      obj == [Obj("NUM", Len(ds)) EXCEPT !.prefix = <<48, IF large THEN 66 ELSE 98>>]
  IN  Laid(s, obj, Grouped(ds), behind)

(* vstr__sc_fmt_add_cb_buf(), vstr__sc_fmt_add_cb_ptr() and the like. *)
BufFmt(s, buf, behind) ==
  LET from(beg) == LaidFrom(s, beg, SubSeq(buf, 1, beg.len) \o behind)
  IN  from(CbBeg(s, Obj("STR", Len(buf))))

(* vstr__sc_fmt_add_cb_bkmg__uint(): the units are B, K, M and G, of which *)
(* names has the texts.  All digits are printed, then the dot is moved     *)
(* back and those behind the precision are deleted.                        *)
Unit(val) == CHOOSE u \in 0 .. 3 : /\ u = 0 \/ val >= 1000 ^ u
                                   /\ u = 3 \/ val < 1000 ^ (u + 1)

Bkmg(s, val, names, behind) ==
  LET unit == Unit(val)
      whole == Len(Plain(val \div 1000 ^ unit, 10))
      back == 3 * unit
      asked == IF s.prec = None THEN 2 ELSE s.prec
      prec == IF asked > back THEN back ELSE asked
      dot == IF prec = 0 THEN <<>> ELSE <<46>>
      end == names[unit + 1]
      ds == Plain(val, 10)
      moved == SubSeq(ds, 1, whole) \o dot \o SubSeq(ds, whole + 1, Len(ds)) \o end
      kept == whole + prec + Len(dot)
      gone == Len(ds) - (whole + prec)
  IN  Laid([s EXCEPT !.quote = FALSE, !.prec = None],
           Obj("NUM", whole + Len(dot) + prec + Len(end)),
           SubSeq(moved, 1, kept) \o SubSeq(moved, kept + gone + 1, Len(moved)), behind)

-----------------------------------------------------------------------------
(* Addresses. *)

Colons(n) == Rep(58, n)

(* vstr__sc_fmt_num10_len(), vstr__sc_fmt_num16_len() *)
Num10Len(n) == IF n = 0 THEN 1 ELSE NumLen(n, 10)

Num16Len(n) == CASE n >= 4096 -> 4 [] n >= 256 -> 3 [] n >= 16 -> 2 [] OTHER -> 1

Total(f(_), seq) == FoldLeft(LAMBDA n, x : n + f(x), 0, seq)

Joined(parts, sep) ==
  FoldLeft(LAMBDA s, p : IF s = <<>> THEN p ELSE s \o sep \o p, <<>>, parts)

Dotted(bytes) == Joined([i \in 1 .. Len(bytes) |-> Plain(bytes[i], 10)], <<46>>)

DottedLen(bytes) == Total(Num10Len, bytes) + 3

(* A CIDR mask is None in the formatters without one. *)
Slashed(cidr) == IF cidr = None THEN <<>> ELSE <<47>> \o Plain(cidr, 10)

SlashedLen(cidr) == IF cidr = None THEN 0 ELSE 1 + Num10Len(cidr)

(* vstr__sc_fmt_add_cb_ipv4_vec(), vstr__sc_fmt_add_cb_ipv4_vec_cidr() *)
Ipv4Vec(s, ips, cidr, behind) ==
  Laid(s, Obj("ATOM", DottedLen(ips) + SlashedLen(cidr)), Dotted(ips) \o Slashed(cidr), behind)

(* vstr__sc_fmt_num_ipv6_compact(): where the zeros are that "::" stands   *)
(* for, counted from 0, and how many characters that saves.  A run at      *)
(* either end saves one less; atend says that the run chosen is there.     *)
CompactScan(ips) ==
  LET step(r, i) ==
        IF ips[i] = 0 THEN [r EXCEPT !.cur = @ + 1]
        ELSE IF r.cur > r.max \/ (r.cur = r.max /\ r.cur # i - 1 /\ r.atend > 0)
        THEN [max |-> r.cur, cur |-> 0, pos |-> i - 1 - r.cur,
              atend |-> IF r.cur = i - 1 THEN 1 ELSE 0]
        ELSE [r EXCEPT !.cur = 0]
  IN  FoldLeft(step, [max |-> 0, cur |-> 0, pos |-> 9, atend |-> 0],
               [i \in 1 .. Len(ips) |-> i])

NumIpv6Compact(ips) ==
  LET r == CompactScan(ips)
      atend == IF r.cur = Len(ips) THEN 1 ELSE r.atend
      last == r.cur > r.max
      max == IF last THEN r.cur ELSE r.max
  IN  [pos |-> IF last THEN Len(ips) - r.cur ELSE r.pos,
       minus |-> IF max = 0 THEN 0
                 ELSE 1 + (max - 1) * 2 - (IF last THEN atend + 1 ELSE atend)]

Ipv6Types == {"ALIGNED", "STD", "COMPACT", "IPV4_ALIGNED", "IPV4_STD", "IPV4_COMPACT"}

IsIpv4Type(type) == type \in {"IPV4_ALIGNED", "IPV4_STD", "IPV4_COMPACT"}

IsCompact(type) == type \in {"COMPACT", "IPV4_COMPACT"}

IsAligned(type) == type \in {"ALIGNED", "IPV4_ALIGNED"}

(* The words that are printed in hexadecimal, and the bytes of the others. *)
HexPart(ips, type) == SubSeq(ips, 1, IF IsIpv4Type(type) THEN 6 ELSE 8)

Ipv4Part(ips) == <<ips[7] \div 256, ips[7] % 256, ips[8] \div 256, ips[8] % 256>>

(* vstr__sc_fmt_num_ipv6() *)
NumIpv6(ips, type) ==
  LET words == HexPart(ips, type)
      colons == IF IsIpv4Type(type) THEN 6 ELSE 7
      hex == IF IsAligned(type) THEN 4 * Len(words) ELSE Total(Num16Len, words)
  IN  colons + hex
      - (IF IsCompact(type) THEN NumIpv6Compact(words).minus ELSE 0)
      + (IF IsIpv4Type(type) THEN DottedLen(Ipv4Part(ips)) ELSE 0)

(* vstr__sc_fmt_prnt_ipv6_compact() *)
PrntIpv6Compact(words) ==
  LET beg == NumIpv6Compact(words).pos
      over == {i \in 1 .. Len(words) : i > beg /\ \A j \in beg + 1 .. i : words[j] = 0}
      step(r, i) ==
        CASE i - 1 = beg -> [out |-> r.out \o Colons(2), done |-> FALSE]
          [] i \in over -> r
          [] OTHER -> [out |-> r.out \o Colons(IF r.done THEN 1 ELSE 0)
                               \o Plain(words[i], 16),
                       done |-> TRUE]
      r == FoldLeft(step, [out |-> <<>>, done |-> FALSE], [i \in 1 .. Len(words) |-> i])
  IN  r.out \o Colons(IF Len(words) # 8 /\ r.done THEN 1 ELSE 0)

(* vstr__sc_fmt_prnt_ipv6() *)
PrntIpv6(ips, type) ==
  LET words == HexPart(ips, type)
      hex(w) == IF IsAligned(type) THEN Zeros(4 - Len(Digs(w, 16, TRUE))) \o Digs(w, 16, TRUE)
                                   ELSE Plain(w, 16)
      all == Joined([i \in 1 .. Len(words) |-> hex(words[i])], Colons(1))
  IN  (IF IsCompact(type) THEN PrntIpv6Compact(words)
       ELSE all \o Colons(IF IsIpv4Type(type) THEN 1 ELSE 0))
      \o (IF IsIpv4Type(type) THEN Dotted(Ipv4Part(ips)) ELSE <<>>)

(* vstr__sc_fmt_add_cb_ipv6_vec(), vstr__sc_fmt_add_cb_ipv6_vec_cidr() *)
Ipv6Vec(s, ips, type, cidr, behind) ==
  Laid(s, Obj("ATOM", NumIpv6(ips, type) + SlashedLen(cidr)),
       PrntIpv6(ips, type) \o Slashed(cidr), behind)
=============================================================================
