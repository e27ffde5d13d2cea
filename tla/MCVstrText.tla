----------------------------- MODULE MCVstrText -----------------------------
(***************************************************************************)
(* VstrText for TLC.  The bytes: "A" and "a" and NON data to search and to *)
(* compare; digits and a letter for versions; what numbers are made of, in *)
(* two alphabets; what netstrings are made of, short, with signs, with     *)
(* lengths that overflow (66, 600) or wrap with the colon and the comma    *)
(* (60, 0060), and, with five bytes added at once, of a length of two      *)
(* digits; what addresses are made of; and "x" to be behind what is        *)
(* printed.                                                                *)
(***************************************************************************)
EXTENDS VstrText

MCTasks ==
  {[name |-> "srch", bytes |-> {65, 97, Non}, chunks |-> {1}, hay |-> 4, ndl |-> 2, nodes |-> 4],
   [name |-> "srch", bytes |-> {97, 98}, chunks |-> {1}, hay |-> 4, ndl |-> 3, nodes |-> 3],
   [name |-> "vers", bytes |-> {48, 49, 50, 97}, chunks |-> {1}, hay |-> 3, ndl |-> 3, nodes |-> 2],
   [name |-> "num", bytes |-> {32, 45, 48, 49, 51, 95, 120}, chunks |-> {1}, hay |-> 4, ndl |-> 0, nodes |-> 2],
   [name |-> "num", bytes |-> {43, 48, 49, 66, 122}, chunks |-> {1}, hay |-> 4, ndl |-> 0, nodes |-> 1],
   [name |-> "netstr", bytes |-> {44, 48, 49, 58}, chunks |-> {1}, hay |-> 6, ndl |-> 0, nodes |-> 2],
   [name |-> "netstr", bytes |-> {43, 44, 45, 48, 49, 58}, chunks |-> {1}, hay |-> 5, ndl |-> 0, nodes |-> 1],
   [name |-> "netstr", bytes |-> {44, 48, 54, 58}, chunks |-> {1}, hay |-> 6, ndl |-> 0, nodes |-> 1],
   [name |-> "netstr", bytes |-> {44, 49}, chunks |-> {5}, hay |-> 19, ndl |-> 0, nodes |-> 3],
   [name |-> "ipv4", bytes |-> {46, 50, 53}, chunks |-> {1}, hay |-> 8, ndl |-> 0, nodes |-> 1],
   [name |-> "ipv4", bytes |-> {46, 48, 49}, chunks |-> {1}, hay |-> 7, ndl |-> 0, nodes |-> 2],
   [name |-> "ipv6", bytes |-> {58, 49, 70}, chunks |-> {1}, hay |-> 7, ndl |-> 0, nodes |-> 2],
   [name |-> "print", bytes |-> {120}, chunks |-> {3, 12}, hay |-> 3, ndl |-> 0, nodes |-> 1]}

MCNumTypes ==
  {[bits |-> 5, signed |-> sg, promoted |-> pr] : sg \in BOOLEAN, pr \in BOOLEAN}

MCNumBases == {0, 2, 10, 16, 36}

MCNumFlags ==
  {{}, {"OVERFLOW"}, {"SPACE", "SEP", "OVERFLOW"}, {"NO_BEG_PM", "SEP"},
   {"NO_BEG_ZERO", "OVERFLOW"}, {"NO_NEGATIVE", "SPACE"}}

(* A decimal number with three separators by this grouping: 1_234_56. *)
MCGrouping == <<2, 3>>

MCThouSep == <<95>>

Flags == {"plus", "space", "hash", "zero", "minus", "quote"}

Asked(flags, width, prec) ==
  [plus |-> "plus" \in flags, space |-> "space" \in flags, hash |-> "hash" \in flags,
   zero |-> "zero" \in flags, minus |-> "minus" \in flags, quote |-> "quote" \in flags,
   width |-> width, prec |-> prec]

MCNums ==
  {[val |-> v.val, neg |-> v.neg, signed |-> v.signed, base |-> v.base, large |-> v.large,
    plus |-> s.plus, space |-> s.space, hash |-> s.hash, zero |-> s.zero, minus |-> s.minus,
    quote |-> s.quote, width |-> s.width, prec |-> s.prec] :
     v \in [val : {0, 7, 123456}, neg : {FALSE}, signed : BOOLEAN, base : {10}, large : {FALSE}]
          \cup [val : {7, 123456}, neg : {TRUE}, signed : {TRUE}, base : {10}, large : {FALSE}]
          \cup [val : {0, 8, 2834}, neg : {FALSE}, signed : {FALSE}, base : {8, 16}, large : {TRUE}],
     s \in {Asked(f, w, p) : f \in SUBSET Flags, w \in {0, 6, 12}, p \in {None, 0, 5}}}

MCPrints ==
  {[kind |-> "num", n |-> n] : n \in MCNums}
  \cup {[kind |-> "base2", s |-> Asked(f, w, p), val |-> v, large |-> FALSE] :
           f \in SUBSET Flags, w \in {0, 9}, p \in {None, 5}, v \in {0, 2, 45}}
  \cup {[kind |-> "buf", s |-> Asked(f, w, p), buf |-> <<97, 98, 99>>] :
           f \in SUBSET {"zero", "minus"}, w \in {0, 3, 5}, p \in {None, 0, 2, 4}}
  \cup {[kind |-> "bkmg", s |-> Asked(f, w, p), val |-> v] :
           f \in SUBSET {"plus", "zero", "minus"}, w \in {0, 10}, p \in {None, 0, 1, 4},
           v \in {0, 999, 1000, 20480, 1048576}}
  \cup {[kind |-> "ipv4", s |-> Asked(f, w, None), ips |-> <<a, b, 9, 0>>, cidr |-> m] :
           f \in SUBSET {"zero", "minus"}, w \in {0, 20}, a \in {0, 10, 100, 255},
           b \in {0, 99, 255}, m \in {None, 0, 8, 32}}
  \cup {[kind |-> "ipv6", s |-> Asked(f, w, None), ips |-> ips, type |-> y, cidr |-> m] :
           f \in SUBSET {"minus"}, w \in {0, 45}, y \in Ipv6Types, m \in {None, 64},
           ips \in [1 .. 8 -> {0, 1}]
                   \cup {<<43981, 2834, 31, 0, 2730, 0, 0, 258>>, <<1, 0, 0, 2, 0, 0, 65535, 65535>>}}
  \cup {[kind |-> "netmask", ips |-> <<10, 0, 0, 1>>, mask |-> m] :
           m \in [1 .. 4 -> {0, 128, 252, 253, 255}]}
=============================================================================
