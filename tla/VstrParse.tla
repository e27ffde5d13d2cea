----------------------------- MODULE VstrParse -----------------------------
(***************************************************************************)
(* Parsing numbers and netstrings, and making netstrings: the algorithms   *)
(* of src/vstr_parse.c (numbers), src/vstr_parse_netstr.c and              *)
(* src/vstr_add_netstr.c, over the nodes of VstrSrch.                      *)
(*                                                                         *)
(* A number type is [bits, signed, promoted]: the width of the unsigned    *)
(* type the number is put together in, whether the function returns the    *)
(* signed type of that width, and whether arithmetic on it is that of a    *)
(* wider int (true of short alone).                                        *)
(***************************************************************************)
EXTENDS VstrSrch

CONSTANT UlongBits   \* the width of unsigned long

ASSUME UlongAssumption == UlongBits \in 2 .. 6

Ulong == [bits |-> UlongBits, signed |-> FALSE, promoted |-> FALSE]

(* Unsigned arithmetic of a width, and what a signed type makes of it. *)
Wrap(t, n) == n % (2 ^ t.bits)

NumMax(t) == 2 ^ (t.bits - 1) - 1

AsSigned(t, n) == IF Wrap(t, n) > NumMax(t) THEN Wrap(t, n) - 2 ^ t.bits ELSE Wrap(t, n)

Space == 32
Plus == 43
Comma == 44
Minus == 45
Zero == 48
Colon == 58
Sep == 95

-----------------------------------------------------------------------------
(* vstr__parse_num_beg(): what comes before the digits.  It returns the    *)
(* base, 0 for an error and 1 when there is nothing more to parse, and     *)
(* moves pos and len behind what it has read.                              *)

Beg(base, pos, len, neg, zeroed, err) ==
  [base |-> base, pos |-> pos, len |-> len, neg |-> neg, zeroed |-> zeroed, err |-> err]

BegErr(err) == Beg(0, 0, 0, FALSE, FALSE, err)

(* The base that is asked for: 0 is for the base to be found. *)
NumBase(base) == IF base > 36 THEN 36 ELSE IF base = 1 THEN 2 ELSE base

(* The end of it: zeros is how many there are where the digits begin. *)
BegDigits(ns, base, pos, len, neg, zeroed, zeros, flags) ==
  IF zeros > 0 /\ "NO_BEG_ZERO" \in flags
  THEN Beg(1, pos, len - 1, neg, zeroed,
           IF zeros # 1 \/ len # 1 THEN "BEG_ZERO" ELSE "NONE")
  ELSE IF zeros = len THEN Beg(1, pos, 0, neg, zeroed, "NONE")
  ELSE Beg(base, pos + zeros, len - zeros, neg, zeroed, "NONE")

(* After one zero: what may be an "x" or a "b". *)
BegPrefix(ns, base, pos, len, neg, flags) ==
  LET xs == SpnFwd(ns, pos, len, {120, 88})
      bs == SpnFwd(ns, pos, len, {98, 66})
      auto(b) == IF base = 0 THEN b ELSE base
      behind(b) ==
        IF len = 1 THEN BegErr("ONLY_SPMX")
        ELSE BegDigits(ns, auto(b), pos + 1, len - 1, neg, TRUE,
                       SpnFwd(ns, pos + 1, len - 1, {Zero}), flags)
  IN IF xs > 1 \/ (xs = 0 /\ bs > 1) THEN Beg(1, pos, len, neg, TRUE, "OOB")
     ELSE IF xs = 1 THEN behind(16)
     ELSE IF bs = 1 THEN behind(2)
     ELSE BegDigits(ns, auto(8), pos, len, neg, TRUE, 0, flags)

(* After the spaces and the sign. *)
BegZeros(ns, base, pos, len, neg, zeros, flags) ==
  IF zeros = 1 /\ base \in {0, 2, 16}
  THEN IF len = 1 THEN Beg(1, pos, 0, neg, TRUE, "NONE")
       ELSE BegPrefix(ns, base, pos + 1, len - 1, neg, flags)
  ELSE IF base = 0 /\ zeros > 0 THEN BegDigits(ns, 8, pos, len, neg, TRUE, zeros - 1, flags)
  ELSE BegDigits(ns, IF base = 0 THEN 10 ELSE base, pos, len, neg, zeros > 0, zeros, flags)

BegSign(ns, base, pos, len, flags) ==
  LET minus == IF "NO_BEG_PM" \in flags THEN 0 ELSE SpnFwd(ns, pos, len, {Minus})
      plus == IF "NO_BEG_PM" \in flags \/ minus > 0 THEN 0
              ELSE SpnFwd(ns, pos, len, {Plus})
      got == minus + plus
  IN IF minus > 1 \/ plus > 1 THEN BegErr("OOB")
     ELSE IF len = got THEN BegErr("ONLY_SPM")
     ELSE BegZeros(ns, base, pos + got, len - got, minus = 1,
                   SpnFwd(ns, pos + got, len - got, {Zero}), flags)

ParseNumBeg(ns, base, pos, len, flags) ==
  LET spaces == IF "SPACE" \in flags THEN SpnFwd(ns, pos, len, {Space}) ELSE 0 IN
  IF "SPACE" \in flags /\ spaces >= len THEN BegErr("ONLY_S")
  ELSE BegSign(ns, NumBase(base), pos + spaces, len - spaces, flags)

-----------------------------------------------------------------------------
(* VSTR__PARSE_NUM_SFUNC() and VSTR__PARSE_NUM_UFUNC().                    *)

(* The value of a byte as a digit, or the base when it is none. *)
DigitOf(b, base) ==
  LET d == IF IsDigit(b) THEN b - 48
           ELSE IF IsUpper(b) THEN b - 55 ELSE IF IsLower(b) THEN b - 87 ELSE base
  IN Least(d, base)

(* VSTR__PARSE_NUM_BIN_CALC_NUM(): the number with one more digit, and     *)
(* whether the test for an overflow sees one.                              *)
CalcNum(t, ret, base, add) == Wrap(t, ret * base + add)

(* Mutant: the last digit is not taken off before the test. *)
OverflowsMutant(t, ret, base, add) == CalcNum(t, ret, base, add) < ret

Overflows(t, ret, base, add) ==
  LET new == CalcNum(t, ret, base, add)
      was == IF t.promoted THEN new - add ELSE Wrap(t, new - add)
  IN was < 0 \/ (was \div base) # ret

(* VSTR__PARSE_NUM_LOOP_BEG() to VSTR__PARSE_NUM_LOOP_END(), over the      *)
(* bytes; n is [ret, len, err], once says that there was a digit.          *)
RECURSIVE NumLoop(_, _, _, _, _, _)
NumLoop(data, t, base, flags, once, n) ==
  IF data = <<>> THEN n
  ELSE IF once /\ data[1] = Sep
  THEN IF "SEP" \in flags
       THEN NumLoop(Tail(data), t, base, flags, once, [n EXCEPT !.len = @ - 1])
       ELSE n
  ELSE LET add == DigitOf(data[1], base) IN
       IF add = base THEN n
       ELSE NumLoop(Tail(data), t, base, flags, TRUE,
                    [ret |-> CalcNum(t, n.ret, base, add),
                     len |-> n.len - 1,
                     err |-> IF "OVERFLOW" \in flags /\ Overflows(t, n.ret, base, add)
                             THEN "OVERFLOW" ELSE n.err])

Num(ret, len, err) == [ret |-> ret, len |-> len, err |-> err]

Negated(t, neg, ret) == IF ~t.signed THEN ret ELSE AsSigned(t, IF neg THEN -ret ELSE ret)

(* VSTR__PARSE_NUM_END_S(), VSTR__PARSE_NUM_END_U() *)
NumEnd(t, neg, orig, flags, n) ==
  LET one == IF neg THEN 1 ELSE 0
      less == IF t.promoted THEN n.ret - one ELSE Wrap(t, n.ret - one)
      over == t.signed /\ "OVERFLOW" \in flags /\ less > NumMax(t)
      err == IF over THEN "OVERFLOW" ELSE n.err
  IN Num(Negated(t, neg, IF over THEN NumMax(t) + one ELSE n.ret), orig - n.len,
         IF n.len > 0 /\ err = "NONE" THEN "OOB" ELSE err)

ParseNumFrom(ns, len, t, flags, beg) ==
  IF beg.base = 0 THEN Num(0, 0, beg.err)
  ELSE IF beg.base = 1 THEN Num(0, len - beg.len, beg.err)
  ELSE IF beg.neg /\ (~t.signed \/ "NO_NEGATIVE" \in flags) THEN Num(0, 0, "NEGATIVE")
  ELSE NumEnd(t, beg.neg, len, flags,
              NumLoop(FlattenSeq(Datas(Pieces(ns, beg.pos, beg.len))), t, beg.base, flags,
                      beg.zeroed, Num(0, beg.len, "NONE")))

(* vstr_parse_short() ... vstr_parse_uintmax(): what is returned, the      *)
(* length that was parsed, and the error.                                  *)
ParseNum(ns, pos, len, t, base, flags) ==
  ParseNumFrom(ns, len, t, flags, ParseNumBeg(ns, base, pos, len, flags))

-----------------------------------------------------------------------------
(* Netstrings: "<length>:<data>,".                                         *)

ByteAt(ns, pos) == FlattenSeq(Datas(Pieces(ns, pos, 1)))[1]

(* Mutant: the comma is not counted. *)
NetstrLenMutant(num, data) == num + data + 1

(* The length of a netstring with its colon and comma. *)
NetstrLen(num, data) == num + data + 2

(* vstr__parse_netstr(), after the number: the length of the netstring, 0  *)
(* if there is none, and where its data is.  When the length wraps to 0    *)
(* the byte before the netstring is read, and 0 is returned whatever it is.*)
NetstrAt(ns, pos, len, num, all) ==
  IF num.len \in {0, len} \/ ByteAt(ns, pos + num.len) # Colon
  THEN [len |-> 0, pos |-> 0, data |-> 0]
  ELSE [len |-> IF all \notin 1 .. len \/ ByteAt(ns, pos - 1 + all) # Comma THEN 0 ELSE all,
        pos |-> pos + num.len + 1,
        data |-> num.ret]

NetstrOf(ns, pos, len, num) ==
  NetstrAt(ns, pos, len, num, Wrap(Ulong, NetstrLen(num.len, num.ret)))

(* vstr_parse_netstr(), vstr_parse_netstr2(), which takes leading zeros. *)
ParseNetstr(ns, pos, len, netstr2) ==
  NetstrOf(ns, pos, len,
           ParseNum(ns, pos, len, Ulong, 10,
                    {"OVERFLOW"} \cup (IF netstr2 THEN {} ELSE {"NO_BEG_ZERO"})))

Digits(n) == IF n < 10 THEN <<48 + n>> ELSE <<48 + (n \div 10), 48 + (n % 10)>>

(* VSTR__ULONG_MAX_LEN: the digits of ULONG_MAX. *)
UlongMaxLen == Len(Digits(2 ^ UlongBits - 1))

(* vstr_add_netstr_beg(), at the end of the string: as many digits as a    *)
(* length can have, and the colon.                                         *)
NetstrBeg(ns) == Append(ns, Append(Digits(2 ^ UlongBits - 1), Colon))

(* The digits of a length; those of 0 are none (vstr__netstr_end_start()). *)
LenDigits(n) == IF n = 0 THEN <<>> ELSE Digits(n)

(* vstr_sub_buf() of bytes by as many others, and vstr_del(). *)
SubBuf(ns, pos, data) ==
  LET off(i) == Len(FlattenSeq(SubSeq(ns, 1, i - 1)))
  IN [i \in DOMAIN ns |-> [k \in DOMAIN ns[i] |->
        IF off(i) + k \in pos .. pos + Len(data) - 1
        THEN data[off(i) + k - pos + 1] ELSE ns[i][k]]]

DelAt(ns, pos, len) ==
  SelectSeq([i \in DOMAIN ns |->
               LET off == Len(FlattenSeq(SubSeq(ns, 1, i - 1)))
                   kept == {k \in DOMAIN ns[i] : off + k \notin pos .. pos + len - 1}
               IN [k \in 1 .. Cardinality(kept) |->
                     ns[i][CHOOSE j \in kept : Cardinality({x \in kept : x <= j}) = k]]],
            LAMBDA data : data # <<>>)

(* vstr_add_netstr2_end(): the length over the digits, after zeros. *)
Netstr2End(ns, beg, end) ==
  LET digits == LenDigits(end - (beg + UlongMaxLen))
      zeros == [k \in 1 .. UlongMaxLen - Len(digits) |-> Zero]
  IN SubBuf(SubBuf(Append(ns, <<Comma>>), beg, zeros), beg + Len(zeros), digits)

(* vstr_add_netstr_end(): the digits that are not needed are deleted; if   *)
(* that fails the comma is deleted again.  The result and the string.      *)
NetstrEnd(ns, beg, end, delfails) ==
  LET digits == LenDigits(end - (beg + UlongMaxLen))
      buf == IF digits = <<>> THEN <<Zero>> ELSE digits
      count == UlongMaxLen - Len(buf)
      added == Append(ns, <<Comma>>)
  IN IF count > 0 /\ delfails
     THEN [ok |-> FALSE, nodes |-> DelAt(added, end + 1, 1)]
     ELSE [ok |-> TRUE, nodes |-> SubBuf(DelAt(added, beg, count), beg, buf)]
=============================================================================
