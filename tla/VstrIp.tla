------------------------------- MODULE VstrIp -------------------------------
(***************************************************************************)
(* Parsing addresses: vstr_parse_ipv4() and vstr_parse_ipv6() of           *)
(* src/vstr_parse.c, over the nodes of VstrSrch and the numbers of         *)
(* VstrParse.                                                              *)
(***************************************************************************)
EXTENDS VstrParse, VstrLayout

Dot == 46
Slash == 47

(* unsigned int; the numbers that are parsed have at most five digits. *)
Uint == [bits |-> 20, signed |-> FALSE, promoted |-> FALSE]

Is(ns, pos, len, byte) == len > 0 /\ ByteAt(ns, pos) = byte

Upto(n) == [i \in 1 .. n |-> i]

-----------------------------------------------------------------------------
(* IPv4.  The result is [ok, ips, cidr, len, err]; at is how far it got.   *)

NumFlags4(flags) ==
  {"NO_BEG_PM"} \cup (IF "ZEROS" \in flags THEN {} ELSE {"NO_BEG_ZERO"})

(* A number of up to three digits, at where it has got to. *)
Num3(ns, at, flags) ==
  ParseNum(ns, at.pos, Least(3, at.len), Uint, 10, NumFlags4(flags))

Ahead(at, n) == [at EXCEPT !.pos = @ + n, !.len = @ - n]

(* The bytes with their dots, as many as there are. *)
Ipv4Bytes(ns, pos, len, flags) ==
  LET dot(at) ==
        IF Is(ns, at.pos, at.len, Dot) /\ Len(at.ips) < 4
        THEN LET next == Ahead(at, 1)
             IN  [next EXCEPT !.end = Is(ns, next.pos, next.len, Slash)]
        ELSE [at EXCEPT !.end = TRUE]
      byte(at, num) ==
        CASE num.len = 0 -> [at EXCEPT !.end = TRUE]
          [] num.ret > 255 -> [at EXCEPT !.end = TRUE, !.err = "IPV4_OOB"]
          [] OTHER -> dot([Ahead(at, num.len) EXCEPT !.ips = Append(@, num.ret)])
      step(at, i) ==
        IF at.end \/ at.len = 0 THEN at ELSE byte(at, Num3(ns, at, flags))
  IN  FoldLeft(step, [pos |-> pos, len |-> len, ips |-> <<>>, end |-> FALSE, err |-> "NONE"],
               Upto(4))

(* vstr__parse_ipv4_netmask(): ones, then zeros. *)
MaskBits == [m \in {0, 128, 192, 224, 240, 248, 252, 254} |->
               Cardinality({i \in 0 .. 7 : (m \div 2 ^ i) % 2 = 1})]

Ipv4Netmask(ns, pos, len, flags) ==
  LET oob(at) == [at EXCEPT !.end = TRUE, !.err = "NETMASK_OOB"]
      bits(at, tmp) ==
        IF at.rest THEN at.cidr ELSE at.cidr + (IF tmp = 255 THEN 8 ELSE MaskBits[tmp])
      after(at) ==
        IF at.scan = 4 \/ (at.len > 0 /\ ~Is(ns, at.pos, at.len, Dot))
        THEN [at EXCEPT !.end = TRUE]
        ELSE Ahead(at, IF at.len > 0 THEN 1 ELSE 0)
      byte(at, num) ==
        IF num.len = 0 THEN [at EXCEPT !.end = TRUE]
        ELSE IF (at.rest /\ num.ret # 0) \/ (num.ret # 255 /\ num.ret \notin DOMAIN MaskBits)
        THEN oob(at)
        ELSE after([Ahead(at, num.len) EXCEPT !.cidr = bits(at, num.ret),
                                              !.rest = @ \/ num.ret # 255,
                                              !.scan = @ + 1])
      step(at, i) == IF at.end \/ at.len = 0 THEN at ELSE byte(at, Num3(ns, at, flags))
      at == FoldLeft(step, [pos |-> pos, len |-> len, cidr |-> 0, rest |-> FALSE,
                            scan |-> 0, end |-> FALSE, err |-> "NONE"], Upto(4))
  IN  IF at.err = "NONE" /\ "NETMASK_FULL" \in flags /\ at.scan # 4
      THEN [at EXCEPT !.err = "NETMASK_FULL"] ELSE at

(* vstr__parse_ipv4_cidr(), vstr__parse_ipv6_cidr(): what is behind the    *)
(* slash; a netmask is told by its first dot.                              *)
Cidr(len, cidr, err) == [len |-> len, cidr |-> cidr, err |-> err]

CidrOf(len, max, num, flags) ==
  CASE num.len > 0 /\ num.ret <= max -> Cidr(len - num.len, num.ret, "NONE")
    [] num.len > 0 -> Cidr(len, 0, "CIDR_OOB")
    [] "CIDR_FULL" \in flags -> Cidr(len, 0, "CIDR_FULL")
    [] OTHER -> Cidr(len, max, "NONE")

ParseCidr(ns, pos, len, nflags) ==
  IF len = 0 THEN [ret |-> 0, len |-> 0] ELSE ParseNum(ns, pos, len, Uint, 10, nflags)

IsNetmask(ns, pos, len, num, flags) ==
  /\ "NETMASK" \in flags
  /\ "CIDR" \in flags => num.len > 0 /\ num.ret > 32 /\ Is(ns, pos + num.len, len - num.len, Dot)

Ipv4Cidr(ns, pos, len, flags, num) ==
  IF IsNetmask(ns, pos, len, num, flags) THEN Ipv4Netmask(ns, pos, len, flags)
                                         ELSE CidrOf(len, 32, num, flags)

Ipv4Mask(ns, pos, len, flags) ==
  IF Is(ns, pos, len, Slash) /\ {"CIDR", "NETMASK"} \cap flags # {}
  THEN Ipv4Cidr(ns, pos + 1, len - 1, flags, ParseCidr(ns, pos + 1, len - 1, NumFlags4(flags)))
  ELSE Cidr(len, 32, "NONE")

Ip(ok, ips, cidr, len, err) ==
  [ok |-> ok, ips |-> ips, cidr |-> cidr, len |-> len, err |-> err]

Failed(err) == Ip(FALSE, <<>>, 0, 0, err)

Parsed(ips, len, mask, flags) ==
  IF mask.err # "NONE" THEN Failed(mask.err)
  ELSE Ip(TRUE, ips, mask.cidr, len - mask.len,
          IF mask.len > 0 /\ "ONLY" \in flags THEN "ONLY" ELSE "NONE")

Ipv4From(ns, len, flags, at) ==
  CASE at.err # "NONE" -> Failed(at.err)
    [] Len(at.ips) # 4 /\ "FULL" \in flags -> Failed("IPV4_FULL")
    [] OTHER -> Parsed(at.ips \o Rep(0, 4 - Len(at.ips)), len,
                       Ipv4Mask(ns, at.pos, at.len, flags), flags)

ParseIpv4(ns, pos, len, flags) == Ipv4From(ns, len, flags, Ipv4Bytes(ns, pos, len, flags))

-----------------------------------------------------------------------------
(* IPv6.  The sections between the colons, by vstr_split_buf() with        *)
(* VSTR_FLAG_SPLIT_MID_NULL and VSTR_FLAG_SPLIT_NO_RET, into an array of   *)
(* 8: a null section for every further colon in the middle, none for up to *)
(* 8 at the beginning or for those at the end.                             *)

ColonsAt(ns, pos, len) == SpnFwd(ns, pos, len, {Colon})

(* Null sections for n colons, and one of what is before the next colon;   *)
(* the array may have been full.                                           *)
Room(sects) == 8 - Len(sects)

Nulls(sects, pos, n) ==
  sects \o [i \in 1 .. Least(n, Room(sects)) |-> [pos |-> pos + i - 1, len |-> 0]]

RECURSIVE Split(_, _, _, _)
Split(ns, pos, len, sects) ==
  LET n == ColonsAt(ns, pos, len)
      text == CspnFwd(ns, pos, len, {Colon})
  IN  CASE len = 0 \/ n = len \/ Room(sects) = 0 -> sects
        [] n > 0 -> Split(ns, pos + n, len - n, Nulls(sects, pos, n))
        [] OTHER -> Split(ns, pos + text + 1, IF text = len THEN 0 ELSE len - text - 1,
                          Append(sects, [pos |-> pos, len |-> text]))

Sections(ns, pos, len) ==
  LET n == ColonsAt(ns, pos, len)
      first == IF n >= 2 THEN <<[pos |-> pos, len |-> 0]>> ELSE <<>>
      skip == Least(n, 8)
  IN  IF n = len THEN first ELSE Split(ns, pos + skip, len - skip, first)

(* The words of the sections: the null section, counted from 1, and the    *)
(* length of the last number.  A mask ends a null section at the end.      *)
Words(ns, sects) ==
  LET word(w, i, num) ==
        CASE num.len = 0 /\ w.null > 0 /\ w.null = i - 1 /\ i = Len(sects) ->
               [w EXCEPT !.num = 0, !.scan = i]
          [] num.len \notin 1 .. 4 -> [w EXCEPT !.err = "IPV6_OOB"]
          [] OTHER -> [w EXCEPT !.ips[i] = num.ret, !.num = num.len, !.scan = i]
      step(w, i) ==
        CASE w.err # "NONE" -> w
          [] sects[i].len = 0 /\ w.null > 0 -> [w EXCEPT !.err = "IPV6_NULL"]
          [] sects[i].len = 0 -> [w EXCEPT !.null = i, !.scan = i]
          [] OTHER -> word(w, i, ParseNum(ns, sects[i].pos, sects[i].len, Uint, 16,
                                          {"NO_BEG_PM"}))
  IN  FoldLeft(step, [ips |-> [i \in 1 .. 8 |-> 0], null |-> 0, num |-> 0, scan |-> 0,
                      err |-> "NONE"], Upto(Len(sects)))

(* The last section may be an IPv4 address. *)
WithIpv4(ns, sect, w) ==
  LET with(four) ==
        IF ~four.ok THEN w
        ELSE [w EXCEPT !.ips[w.scan] = 256 * four.ips[1] + four.ips[2],
                       !.ips[w.scan + 1] = 256 * four.ips[3] + four.ips[4],
                       !.scan = @ + 1, !.num = four.len]
  IN  IF w.scan # 8 /\ sect.len > 4 /\ (w.null > 0 \/ w.scan = 7)
      THEN with(ParseIpv4(ns, sect.pos, sect.len, {"FULL"}))
      ELSE w

(* Mutant: a word too few is moved. *)
ExpandedMutant(w) ==
  [i \in 1 .. 8 |-> CASE i <= w.null -> w.ips[i]
                      [] i <= 9 - w.scan + w.null -> 0
                      [] OTHER -> w.ips[i - (8 - w.scan)]]

(* The words behind the null section are moved to the end. *)
Expanded(w) ==
  [i \in 1 .. 8 |-> CASE i <= w.null -> w.ips[i]
                      [] i <= 8 - w.scan + w.null -> 0
                      [] OTHER -> w.ips[i - (8 - w.scan)]]

Ipv6Mask(ns, pos, len, flags) ==
  IF Is(ns, pos, len, Slash) /\ "CIDR" \in flags
  THEN CidrOf(len - 1, 128, ParseCidr(ns, pos + 1, len - 1, {"NO_BEG_PM"}), flags)
  ELSE Cidr(len, 128, "NONE")

Ipv6Behind(ns, pos, len, flags, full, gone, w) ==
  IF w.scan # 8 /\ w.null = 0 THEN Failed("IPV6_FULL")
  ELSE Parsed(IF ~full /\ w.null # w.scan THEN Expanded(w) ELSE w.ips, len,
              Ipv6Mask(ns, pos + gone + w.num, len - gone - w.num, flags), flags)

Ipv6Words(ns, pos, len, flags, sects, w) ==
  IF w.err # "NONE" THEN Failed(w.err)
  ELSE Ipv6Behind(ns, pos, len, flags, w.scan = 8, sects[w.scan].pos - pos,
                  WithIpv4(ns, sects[w.scan], w))

Ipv6From(ns, pos, len, flags, sects) ==
  Ipv6Words(ns, pos, len, flags, sects, Words(ns, sects))

ParseIpv6(ns, pos, len, flags) ==
  IF len < 2 THEN Failed("IPV6_FULL")
  ELSE Ipv6From(ns, pos, len, flags, Sections(ns, pos, len))
=============================================================================
