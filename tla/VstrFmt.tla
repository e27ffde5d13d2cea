------------------------------ MODULE VstrFmt ------------------------------
(***************************************************************************)
(* Formatting into a string: the table of formatters that a user adds to a *)
(* configuration (src/vstr_fmt.c), and the interpreter of formats          *)
(* vstr__add_vfmt() (src/vstr_add_fmt.c) that looks them up.               *)
(*                                                                         *)
(* The interpreter works in three passes over a list of specs: it parses   *)
(* the format, fetches the arguments in the order of their numbers, and    *)
(* writes.  Specs come from a pool of the configuration.  A formatter of   *)
(* the user runs in the middle of the third pass and may format into the   *)
(* same string; so a call is a frame of a stack and its passes are actions *)
(* of their own.                                                           *)
(*                                                                         *)
(* A format is a sequence of directives (text, %%, a conversion, or a      *)
(* formatter's name after the user's escape), and what a directive prints  *)
(* is one element of the string: the layout of numbers is in VstrLayout.   *)
(* The arguments are 1, 2, 3 ..., or -1, -2, -3 ...                        *)
(***************************************************************************)
EXTENDS Integers, Sequences, FiniteSets, SequencesExt

CONSTANTS
  FmtNames,    \* names of formatters: sequences of characters
  TypesOf,     \* the types of the arguments of each
  Formats,     \* formats that are used
  NestFormats, \* formats that a formatter of the user uses
  UsrSz,       \* VSTR__FMT_USR_SZ
  MaxParam,    \* bound: the number of an argument in a format
  MaxSpecs,    \* bound: specs that malloc() supplies
  AnyFlatten,  \* may the hash be given up while fmt_name_max is too small?
  AnyReuse     \* may a signed argument be used by two conversions?

VARIABLES
  curly,   \* fmt_usr_curly_braces
  hash,    \* fmt_usr_name_hash
  names,   \* fmt_usr_names
  nmax,    \* fmt_name_max
  regd,    \* history: the names the user added and did not delete
  make,    \* vstr__fmt_spec_make: the pool
  list,    \* vstr__fmt_spec_list_beg to vstr__fmt_spec_list_end
  specs,   \* the specs that were allocated
  stack,   \* the calls of vstr__add_vfmt() in progress, the last one on top
  str,     \* the string
  bad      \* malloc_bad

tabVars == <<curly, hash, names, nmax, regd>>
fmtVars == <<curly, hash, names, nmax, regd, make, list, specs, stack, str, bad>>

-----------------------------------------------------------------------------
(* The table.  While every name is in brackets the names are in a hash by  *)
(* their first character; otherwise in one list.  Both are sorted by the   *)
(* length of the names.                                                    *)

Brackets == {<<"{", "}">>, <<"[", "]">>, <<"<", ">">>, <<"(", ")">>}

Bracketed(name) ==
  \E b \in Brackets :
    /\ Len(name) >= 2 /\ name[1] = b[1] /\ name[Len(name)] = b[2]
    /\ \A i \in 2 .. Len(name) - 1 : name[i] \notin {b[1], b[2]}

(* Of the 37 chains only the ones that a name or a text can reach. *)
Buckets == {"a", "b", "other"}

Bucket(c) == CASE c \in {"a", "A"} -> "a" [] c \in {"b", "B"} -> "b" [] OTHER -> "other"

(* vstr__fmt_insert(): before the first that is not shorter. *)
Insert(chain, name) ==
  LET at == SelectInSeq(chain, LAMBDA n : Len(n) >= Len(name))
  IN  InsertAt(chain, IF at = 0 THEN Len(chain) + 1 ELSE at, name)

Chain(name) ==
  CASE ~curly -> names
    [] curly /\ Bracketed(name) -> hash[Bucket(name[2])]
    [] OTHER -> <<>>

(* vstr__fmt_usr_srch(), vstr_fmt_srch(). *)
FmtSrch(name) == Contains(Chain(name), name)

(* vstr__fmt_flatten_hash() *)
FlattenHash(h) == FoldLeft(Insert, <<>>, h["a"] \o h["b"] \o h["other"])

Lengths(chain) == {Len(chain[i]) : i \in 1 .. Len(chain)}

Longest(chain) ==
  CHOOSE n \in {0} \cup Lengths(chain) : \A m \in Lengths(chain) : m <= n

(* vstr__fmt_usr_match(): the formatter whose name a text begins with, or  *)
(* <<>>.  In the list the scan ends at the first name that is longer than  *)
(* the longest name is said to be.                                         *)
NameMax == IF nmax = 0 THEN Longest(names) ELSE nmax

UsrMatch(text) ==
  LET close == {i \in 1 .. Len(text) : <<text[1], text[i]>> \in Brackets}
      end == CHOOSE i \in close : \A j \in close : i <= j
      token == SubSeq(text, 1, end)
      max == IF Len(text) < NameMax THEN Len(text) ELSE NameMax
      hits == {i \in 1 .. Len(names) : /\ IsPrefix(names[i], text)
                                       /\ \A j \in 1 .. i : Len(names[j]) <= max}
  IN  IF curly
      THEN IF close # {} /\ Contains(hash[Bucket(text[2])], token) THEN token
                                                                   ELSE <<>>
      ELSE IF hits = {} THEN <<>>
           ELSE names[CHOOSE i \in hits : \A j \in hits : i <= j]

(* The stale length: a name put into an empty chain of the hash becomes    *)
(* the longest, whatever the other chains hold.                            *)
PlainFlatten(name) ==
  \/ AnyFlatten
  \/ ~curly \/ Bracketed(name)
  \/ nmax = 0 \/ nmax >= Longest(FlattenHash(hash))

NoCall == stack = <<>>

(* Mutant: a longer name does not raise the length of the longest. *)
NewMaxMutant(chain, name) == IF chain = <<>> THEN Len(name) ELSE nmax

NewMax(chain, name) ==
  IF chain = <<>> \/ (nmax # 0 /\ nmax < Len(name)) THEN Len(name) ELSE nmax

(* vstr_fmt_add(): a name that is not in brackets ends the hash. *)
Ends(name) == curly /\ ~Bracketed(name)

Flattened(name) == IF Ends(name) THEN FlattenHash(hash) ELSE names

HashAfter(name) == IF Ends(name) THEN [b \in Buckets |-> <<>>] ELSE hash

FmtAdd(name) ==
  LET bucket == Bucket(name[2])
      chain == IF curly' THEN hash[bucket] ELSE Flattened(name)
  IN  /\ NoCall /\ ~FmtSrch(name) /\ PlainFlatten(name)
      /\ curly' = (curly /\ ~Ends(name))
      /\ names' = IF curly' THEN names ELSE Insert(chain, name)
      /\ hash' = IF curly' THEN [hash EXCEPT ![bucket] = Insert(chain, name)]
                           ELSE HashAfter(name)
      /\ nmax' = NewMax(chain, name)
      /\ regd' = regd \cup {name}
      /\ UNCHANGED <<make, list, specs, stack, str, bad>>

(* malloc() fails, or a realloc() for the types, after the hash has ended. *)
FmtAddFails(name) ==
  /\ NoCall /\ ~FmtSrch(name) /\ PlainFlatten(name)
  /\ \/ UNCHANGED <<curly, names, hash>>
     \/ /\ TypesOf[name] # <<>>
        /\ curly' = (curly /\ ~Ends(name))
        /\ names' = Flattened(name)
        /\ hash' = HashAfter(name)
  /\ bad' = TRUE
  /\ UNCHANGED <<nmax, regd, make, list, specs, stack, str>>

MaxAfterDel(name) == IF Len(name) = nmax THEN 0 ELSE nmax

(* vstr_fmt_del() *)
FmtDel(name) ==
  LET found == FmtSrch(name)
  IN  /\ NoCall
      /\ names' = Remove(names, name)
      /\ hash' = [b \in Buckets |-> Remove(hash[b], name)]
      /\ nmax' = IF found THEN MaxAfterDel(name) ELSE nmax
      /\ curly' = (curly \/ names' = <<>>)
      /\ regd' = regd \ {name}
      /\ UNCHANGED <<make, list, specs, stack, str, bad>>

-----------------------------------------------------------------------------
(* Specs.  main, wp and pp number the arguments that are the value, the    *)
(* field width and the precision, 0 for none.                              *)

NoSpec == [id |-> 0, code |-> "", esc |-> FALSE, usr |-> <<>>,
           main |-> 0, wp |-> 0, pp |-> 0,
           sign |-> FALSE, neg |-> FALSE, left |-> FALSE,
           width |-> 0, prec |-> -1, val |-> 0]

(* vstr__fmt_init_spec() and what vstr__add_fmt_spec() reads from the      *)
(* format: the number of the argument, and the width and the precision if  *)
(* an argument gives them, the next one or a numbered one.                 *)
NextArg == -1

Star(by) == IF by = NextArg THEN 1 ELSE 0

Numbered(by, params) == IF by = NextArg THEN params + 1 ELSE by

AddFmtSpec(id, d, params) ==
  [NoSpec EXCEPT !.id = id,
                 !.main = d.main,
                 !.wp = Numbered(d.width, params),
                 !.pp = Numbered(d.prec, params + Star(d.width))]

(* vstr__fmt_mv_spec(): a value without a number takes the next. *)
MvSpec(s, have, params) ==
  IF have /\ s.main = 0 THEN [s EXCEPT !.main = params + 1] ELSE s

(* A type that takes no argument: VSTR_TYPE_FMT_ERRNO, or no type at all. *)
HasArg(type) == type \notin {"errno", "end"}

TypeList(name) == IF TypesOf[name] = <<>> THEN <<"end">> ELSE TypesOf[name]

UsrMain(first, nargs) == IF first = 0 THEN 0 ELSE first + nargs

(* vstr__add_fmt_usr_esc(): a formatter has a spec for every type; the     *)
(* first has what the format says, the others are blank.                   *)
UsrSpec(first, id, name, j, params) ==
  LET types == TypeList(name)
      nargs == Cardinality({i \in 1 .. j - 1 : HasArg(types[i])})
      have == HasArg(types[j])
      blank == IF j = 1 THEN first ELSE [NoSpec EXCEPT !.id = id]
  IN  MvSpec([blank EXCEPT !.esc = TRUE,
                           !.usr = IF j = 1 THEN name ELSE <<>>,
                           !.code = types[j],
                           !.sign = types[j] = "d",
                           !.main = IF have THEN UsrMain(first.main, nargs) ELSE 0],
             have, params + nargs)

-----------------------------------------------------------------------------
(* The first pass. *)

Top == stack[Len(stack)]

Below == SubSeq(stack, 1, Len(stack) - 1)

Push(f) == Append(stack, f)

SetTop(f) == Append(Below, f)

(* A call with its format and arguments; before is the string it found.    *)
Frame(s, fmt, pos, user, neg) ==
  [fmt |-> fmt, user |-> user, neg |-> neg, at |-> 1, params |-> 0,
   dollars |-> FALSE, phase |-> "parse", specs |-> <<>>, next |-> 1,
   done |-> 0, nested |-> <<>>, stored |-> <<>>,
   pos_diff |-> Len(s) - pos, orig_len |-> Len(s), before |-> s,
   orig_bad |-> bad]

Fresh(n) == CHOOSE S \in SUBSET (1 .. MaxSpecs \ specs) :
              /\ Cardinality(S) = n
              /\ \A i \in S, k \in 1 .. MaxSpecs \ (specs \cup S) : i < k

(* n specs: from the pool, then from malloc(). *)
Missing(n) == IF Len(make) >= n THEN 0 ELSE n - Len(make)

CanTake(n) == Cardinality(specs) + Missing(n) <= MaxSpecs

Taken(n) == SubSeq(make \o SetToSeq(Fresh(Missing(n))), 1, n)

TakeSpecs(n) ==
  /\ CanTake(n)
  /\ make' = SubSeq(make, n + 1, Len(make))
  /\ specs' = specs \cup Fresh(Missing(n))

Ids(ss) == [i \in 1 .. Len(ss) |-> ss[i].id]

(* The specs of a call go back to the pool when it ends, however it ends. *)
GiveBack(ids, pool) == ids \o pool

(* What the call in f has put into string s. *)
Inserted(f, s) == SubSeq(s, f.orig_len - f.pos_diff + 1, Len(s) - f.pos_diff)

(* The call returns to its caller, or to the formatter that made it. *)
Return(ok) ==
  stack' = IF Len(stack) = 1 THEN <<>>
           ELSE [Below EXCEPT ![Len(Below)].phase = IF ok THEN "good" ELSE "poor",
                              ![Len(Below)].nested =
                                Append(@, [own |-> FALSE, out |-> Inserted(Top, str')])]

(* Directive d as it is read: in vstr_add_sysfmt() there is no user escape *)
(* and a name is text.                                                     *)
IsUsr(f, d) == d.k = "usr" /\ f.user

Parsing == stack # <<>> /\ Top.phase = "parse" /\ Top.at <= Len(Top.fmt)

(* The specs of directive d, from those with the given ids. *)
SpecsOf(f, d, name, ids) ==
  LET first == AddFmtSpec(ids[1], d, f.params)
      next == f.params + Star(d.width) + Star(d.prec)
  IN  CASE d.k = "conv" ->
             <<MvSpec([first EXCEPT !.code = d.code, !.sign = d.code = "d"], TRUE, next)>>
        [] IsUsr(f, d) ->
             [j \in 1 .. Len(ids) |-> UsrSpec(first, ids[j], name, j, next)]
        [] OTHER -> <<[NoSpec EXCEPT !.id = ids[1], !.code = "text"]>>

(* The arguments that a directive takes without giving their numbers. *)
Unnumbered(f, d, name) ==
  Star(d.width) + Star(d.prec)
  + CASE d.k = "conv" /\ d.main = 0 -> 1
      [] IsUsr(f, d) /\ d.main = 0 ->
           Cardinality({j \in 1 .. Len(TypeList(name)) : HasArg(TypeList(name)[j])})
      [] OTHER -> 0

TextDir == [k |-> "text", main |-> 0, width |-> 0, prec |-> 0, code |-> "", name |-> <<>>]

(* A formatter's name may be the beginning of what follows the escape; the *)
(* rest is text.                                                           *)
Rest(d, name) == IF Len(name) < Len(d.name) THEN <<TextDir>> ELSE <<>>

Parse ==
  LET f == Top
      d == f.fmt[f.at]
      name == IF IsUsr(f, d) THEN UsrMatch(d.name) ELSE <<>>
      n == IF name = <<>> THEN 1 ELSE Len(TypeList(name))
      read == [f EXCEPT !.at = @ + 1,
                        !.params = @ + Unnumbered(f, d, name),
                        !.dollars = @ \/ (d.k # "text" /\ d.main # 0),
                        !.fmt = IF IsUsr(f, d)
                                THEN SubSeq(@, 1, f.at - 1)
                                     \o <<[d EXCEPT !.name = name]>> \o Rest(d, name)
                                     \o SubSeq(@, f.at + 1, Len(@))
                                ELSE @]
  IN  /\ Parsing
      /\ nmax' = IF IsUsr(f, d) /\ ~curly THEN NameMax ELSE nmax
      /\ IF IsUsr(f, d) /\ name = <<>>
         THEN /\ stack' = SetTop([f EXCEPT !.at = Len(f.fmt) + 1])
              /\ UNCHANGED <<make, list, specs>>
         ELSE /\ TakeSpecs(n)
              /\ list' = list \o SpecsOf(f, d, name, Taken(n))
              /\ stack' = SetTop(read)
      /\ UNCHANGED <<curly, hash, names, regd, str, bad>>

(* malloc() fails for one of the specs of the directive, after m others. *)
ParseFails(m) ==
  LET f == Top
      d == f.fmt[f.at]
      name == IF IsUsr(f, d) THEN UsrMatch(d.name) ELSE <<>>
      n == IF name = <<>> THEN 1 ELSE Len(TypeList(name))
  IN  /\ Parsing
      /\ m < Missing(n) /\ Cardinality(specs) + m <= MaxSpecs
      /\ make' = GiveBack(Ids(list) \o make, SetToSeq(Fresh(m)))
      /\ specs' = specs \cup Fresh(m)
      /\ list' = <<>>
      /\ nmax' = IF IsUsr(f, d) /\ ~curly THEN NameMax ELSE nmax
      /\ bad' = (bad \/ f.orig_bad)
      /\ UNCHANGED <<curly, hash, names, regd, str>>
      /\ Return(FALSE)

(* vstr_add_fmt() and vstr_add_sysfmt().  That a formatter is registered   *)
(* for every name is the caller's duty.                                    *)
FmtCall(s, fmt, pos, user, neg) ==
  /\ user => \A i \in 1 .. Len(fmt) :
               fmt[i].k = "usr" => \E n \in regd : IsPrefix(n, fmt[i].name)
  /\ stack' = Push(Frame(s, fmt, pos, user, neg))
  /\ bad' = FALSE

-----------------------------------------------------------------------------
(* The second pass, vstr__fmt_fillin_spec(): for 1, 2, 3 ... the specs     *)
(* that the argument of this number is for.  It is fetched, by va_arg(),   *)
(* for the first of them and as that one's type; %m fetches nothing.       *)

Fields == {"wp", "pp", "main"}

FieldNo == [wp |-> 1, pp |-> 2, main |-> 3]

Earlier(p, q) == p[1] < q[1] \/ (p[1] = q[1] /\ FieldNo[p[2]] <= FieldNo[q[2]])

Abs(x) == IF x < 0 THEN -x ELSE x

AsWidth(s, u) == [s EXCEPT !.width = Abs(u), !.left = @ \/ u < 0, !.wp = 0]

AsPrec(s, u) == [s EXCEPT !.prec = IF u < 0 THEN -1 ELSE u, !.pp = 0]

AsMain(s, u, neg) == [s EXCEPT !.val = u, !.neg = neg, !.main = 0]

Readers(ss, c) ==
  {<<i, f>> \in (1 .. Len(ss)) \X Fields : ss[i][f] = c}

Unread(ss) == \E i \in 1 .. Len(ss), f \in Fields : ss[i][f] # 0

Fetches(s, f) == f # "main" \/ s.code # "m"

(* The sign is taken off for the conversion that fetches, and kept in its  *)
(* own spec only.                                                          *)
FillArg(fill, c, f) ==
  LET all == Readers(fill.ss, c)
      first == CHOOSE p \in all : \A q \in all : Earlier(p, q)
      to == IF f.dollars THEN all ELSE {first}
      spec == fill.ss[first[1]]
      fetch == Fetches(spec, first[2])
      arg == IF f.neg THEN -fill.ap ELSE fill.ap
      signed == first[2] = "main" /\ spec.sign /\ arg < 0
      u == CASE ~fetch -> 0 [] signed -> -arg [] OTHER -> arg
      width(s, i) == IF <<i, "wp">> \in to THEN AsWidth(s, u) ELSE s
      prec(s, i) == IF <<i, "pp">> \in to THEN AsPrec(s, u) ELSE s
      main(s, i) == IF <<i, "main">> \in to THEN AsMain(s, u, signed /\ i = first[1])
                                             ELSE s
      given == [i \in 1 .. Len(fill.ss) |-> main(prec(width(fill.ss[i], i), i), i)]
  IN  IF fill.fail \/ ~Unread(fill.ss) THEN fill
      ELSE IF fill.gap \/ all = {}
           THEN [fill EXCEPT !.fail = fill.gap, !.gap = TRUE]
           ELSE [fill EXCEPT !.ss = given, !.ap = IF fetch THEN @ + 1 ELSE @]

(* Numbers beyond the specs' own are reached when one is missing. *)
FillinSpec(ss, f) ==
  LET step(fill, c) == FillArg(fill, c, f)
      top == CHOOSE n \in 0 .. 3 * Len(ss) + MaxParam :
               /\ \A i \in 1 .. Len(ss), g \in Fields : ss[i][g] <= n
               /\ n = 0 \/ \E i \in 1 .. Len(ss), g \in Fields : ss[i][g] = n
  IN  FoldLeft(step, [ss |-> ss, ap |-> 1, gap |-> FALSE, fail |-> FALSE],
               [n \in 1 .. top + 2 |-> n])

Fetching == stack # <<>> /\ Top.phase = "parse" /\ Top.at > Len(Top.fmt)

(* Mutant: the list stays with the configuration. *)
ListAfterMutant == list

(* The list becomes the call's own: a formatter may format too. *)
ListAfter == <<>>

FetchArgs ==
  LET fill == FillinSpec(list, Top)
  IN  /\ Fetching
      /\ ~fill.fail
      /\ stack' = SetTop([Top EXCEPT !.phase = "write", !.specs = fill.ss])
      /\ list' = ListAfter
      /\ UNCHANGED <<tabVars, make, specs, str, bad>>

(* An argument that no directive names: an error that is found here. *)
FetchFails ==
  /\ Fetching
  /\ FillinSpec(list, Top).fail
  /\ make' = GiveBack(Ids(list), make)
  /\ list' = <<>>
  /\ bad' = (bad \/ Top.orig_bad)
  /\ UNCHANGED <<tabVars, specs, str>>
  /\ Return(FALSE)

-----------------------------------------------------------------------------
(* The third pass, vstr__fmt_write_spec(). *)

Item(k, name, s, vals) ==
  [k |-> k, name |-> name, width |-> s.width, left |-> s.left, prec |-> s.prec,
   vals |-> vals]

Signed(s) == IF s.neg THEN -s.val ELSE s.val

ItemOf(s) ==
  CASE s.code = "text" -> Item("text", <<>>, NoSpec, <<>>)
    [] s.code = "m" -> Item("m", <<>>, s, <<>>)
    [] OTHER -> Item(s.code, <<>>, s, <<Signed(s)>>)

(* What a formatter is given: the arguments of its specs, in order. *)
Group(f) == Len(TypeList(f.specs[f.next].usr))

UsrItem(f) ==
  LET s == f.specs[f.next]
      mine == SubSeq(f.specs, f.next, f.next + Group(f) - 1)
      args == SelectSeq(mine, LAMBDA t : HasArg(t.code))
  IN  Item("usr", s.usr, s, [i \in 1 .. Len(args) |-> Signed(args[i])])

(* VSTR__FMT_ADD(): at the place where the call has got to. *)
AddItem(f, item) == InsertAt(str, Len(str) - f.pos_diff + 1, item)

Writing == stack # <<>> /\ Top.phase = "write"

WriteSpec ==
  LET f == Top
      s == f.specs[f.next]
      on == [f EXCEPT !.next = @ + 1, !.done = @ + 1]
  IN  /\ Writing /\ f.next <= Len(f.specs) /\ ~s.esc
      /\ str' = IF s.code = "n" THEN str ELSE AddItem(f, ItemOf(s))
      /\ stack' = SetTop(IF s.code = "n"
                         THEN [on EXCEPT !.stored = Append(@, Len(str) - f.orig_len)]
                         ELSE on)
      /\ UNCHANGED <<tabVars, make, list, specs, bad>>

AtUsr == Writing /\ Top.next <= Len(Top.specs) /\ Top.specs[Top.next].esc

(* vstr__add_fmt_usr_write_spec(): the formatter writes its arguments, or  *)
(* formats something else in their place.                                  *)
UsrDone(f) == [f EXCEPT !.next = @ + Group(f), !.done = @ + 1, !.phase = "write"]

UsrWrites ==
  /\ AtUsr
  /\ str' = AddItem(Top, UsrItem(Top))
  /\ stack' = SetTop([UsrDone(Top) EXCEPT !.nested =
                                       Append(@, [own |-> TRUE, out |-> <<>>])])
  /\ UNCHANGED <<tabVars, make, list, specs, bad>>

UsrFormats(fmt, neg) ==
  /\ AtUsr /\ Len(stack) = 1
  /\ FmtCall(str, fmt, Len(str) - Top.pos_diff, TRUE, neg)
  /\ UNCHANGED <<tabVars, make, list, specs, str>>

(* The call ends: with everything written, *)
WriteEnd ==
  /\ Writing /\ Top.next > Len(Top.specs)
  /\ make' = GiveBack(Ids(Top.specs), make)
  /\ bad' = Top.orig_bad
  /\ UNCHANGED <<tabVars, list, specs, str>>
  /\ Return(TRUE)

(* Mutant: what was written stays. *)
UndoMutant(f) == str

(* or with an error, after which what was written is deleted. *)
Undo(f) == SubSeq(str, 1, f.orig_len - f.pos_diff)
           \o SubSeq(str, Len(str) - f.pos_diff + 1, Len(str))

Failed(isBad) ==
  /\ make' = GiveBack(Ids(Top.specs), make)
  /\ bad' = (isBad \/ Top.orig_bad)
  /\ str' = Undo(Top)
  /\ UNCHANGED <<tabVars, list, specs>>
  /\ Return(FALSE)

(* Memory runs out in the library's own conversions. *)
WriteFails ==
  /\ Writing /\ Top.next <= Len(Top.specs)
  /\ ~Top.specs[Top.next].esc /\ Top.specs[Top.next].code # "n"
  /\ Failed(TRUE)

(* The formatter fails, for lack of memory or another reason; or there is  *)
(* no memory for its arguments, which are too many for the stack.          *)
UsrFails ==
  /\ AtUsr
  /\ \/ \E isBad \in BOOLEAN : Failed(bad \/ isBad)
     \/ Group(Top) + 1 > UsrSz /\ Failed(bad)

(* A formatter's own call has returned; it may go on without it. *)
UsrResumes ==
  /\ stack # <<>> /\ Top.phase \in {"good", "poor"}
  /\ stack' = SetTop(UsrDone(Top))
  /\ UNCHANGED <<tabVars, make, list, specs, str, bad>>

UsrGivesUp ==
  /\ stack # <<>> /\ Top.phase = "poor"
  /\ Failed(bad)

-----------------------------------------------------------------------------
(* A string of the caller, with a position in the middle of it. *)
Old(i) == Item("old", <<>>, NoSpec, <<i>>)

UserString == <<Old(1), Old(2)>>

(* The conversions that share a signed argument. *)
Shares(fmt) ==
  \E i, j \in 1 .. Len(fmt) :
    /\ i < j /\ fmt[i].main # 0 /\ fmt[i].main = fmt[j].main
    /\ "d" \in {fmt[i].code, fmt[j].code}

UserFormats(fmt, user, neg) ==
  /\ NoCall
  /\ Shares(fmt) => AnyReuse
  /\ str' = UserString
  /\ \E pos \in 1 .. Len(UserString) : FmtCall(str', fmt, pos, user, neg)
  /\ UNCHANGED <<tabVars, make, list, specs>>

FmtInit ==
  /\ curly = TRUE
  /\ hash = [b \in Buckets |-> <<>>]
  /\ names = <<>> /\ nmax = 0 /\ regd = {}
  /\ make = <<>> /\ list = <<>> /\ specs = {}
  /\ stack = <<>> /\ str = UserString /\ bad = FALSE

(* vstr__add_fmt_free_conf(), and a new configuration. *)
FmtFreeConf ==
  /\ NoCall
  /\ curly' = TRUE
  /\ hash' = [b \in Buckets |-> <<>>]
  /\ names' = <<>> /\ nmax' = 0 /\ regd' = {}
  /\ make' = <<>> /\ specs' = {}
  /\ bad' = FALSE
  /\ UNCHANGED <<list, stack, str>>

FmtNext ==
  \/ \E name \in FmtNames : FmtAdd(name) \/ FmtAddFails(name) \/ FmtDel(name)
  \/ FmtFreeConf
  \/ \E fmt \in Formats, user, neg \in BOOLEAN : UserFormats(fmt, user, neg)
  \/ \E fmt \in NestFormats, neg \in BOOLEAN : UsrFormats(fmt, neg)
  \/ Parse \/ \E m \in 0 .. MaxSpecs : ParseFails(m)
  \/ FetchArgs \/ FetchFails
  \/ WriteSpec \/ WriteFails
  \/ UsrWrites \/ UsrFails \/ UsrResumes \/ UsrGivesUp
  \/ WriteEnd

-----------------------------------------------------------------------------
(* What a call promises, after C99 and POSIX: a conversion takes the       *)
(* arguments it names by number, or the next ones in the order width,      *)
(* precision, value.                                                       *)

Count(P(_), seq) == Cardinality({i \in 1 .. Len(seq) : P(seq[i])})

ValuesOf(f, d) ==
  CASE d.k = "conv" /\ d.code # "m" -> 1
    [] IsUsr(f, d) -> Count(HasArg, TypeList(d.name))
    [] OTHER -> 0

ArgsBefore(f, i) ==
  FoldLeft(LAMBDA n, d : n + Star(d.width) + Star(d.prec) + ValuesOf(f, d), 0,
           SubSeq(f.fmt, 1, i - 1))

Printed(f, i) ==
  LET d == f.fmt[i]
      before == ArgsBefore(f, i)
      val(n) == IF f.neg THEN -n ELSE n
      width == Numbered(d.width, before)
      prec == Numbered(d.prec, before + Star(d.width))
      main == IF d.main # 0 THEN d.main
              ELSE before + Star(d.width) + Star(d.prec) + 1
  IN  IF d.k = "text" \/ (d.k = "usr" /\ ~f.user)
      THEN Item("text", <<>>, NoSpec, <<>>)
      ELSE [k |-> IF d.k = "usr" THEN "usr" ELSE d.code, name |-> d.name,
            width |-> width, left |-> f.neg /\ width # 0,
            prec |-> IF f.neg \/ prec = 0 THEN -1 ELSE prec,
            vals |-> [j \in 1 .. ValuesOf(f, d) |-> val(main + j - 1)]]

(* The first n directives; nested has what each formatter did instead. *)
Expected(f, n) ==
  LET usrs(i) == Count(LAMBDA d : IsUsr(f, d), SubSeq(f.fmt, 1, i))
      out(i) == CASE IsUsr(f, f.fmt[i]) /\ ~f.nested[usrs(i)].own -> f.nested[usrs(i)].out
                  [] f.fmt[i].code = "n" -> <<>>
                  [] OTHER -> <<Printed(f, i)>>
  IN  FlattenSeq([i \in 1 .. n |-> out(i)])

FmtTypeOK ==
  /\ curly \in BOOLEAN /\ bad \in BOOLEAN
  /\ hash \in [Buckets -> Seq(FmtNames)] /\ names \in Seq(FmtNames)
  /\ nmax \in Nat /\ regd \subseteq FmtNames
  /\ specs \subseteq 1 .. MaxSpecs /\ make \in Seq(specs)
  /\ Ids(list) \in Seq(specs)
  /\ Len(stack) <= 2

(* After any history of additions and deletions a text that begins with    *)
(* the name of a registered formatter is recognised as the shortest such.  *)
FmtFound ==
  \A text \in FmtNames :
    LET known == {n \in regd : IsPrefix(n, text)}
    IN  IF known = {} THEN UsrMatch(text) = <<>>
        ELSE UsrMatch(text) \in known /\ \A n \in known : Len(UsrMatch(text)) <= Len(n)

(* The names are where the searches look for them, sorted as the scans     *)
(* that stop early need it, and every spec is in one place: the pool, the  *)
(* list being parsed, or a call that writes.                               *)
FmtInv ==
  /\ FmtTypeOK /\ FmtFound
  /\ IF curly THEN names = <<>> ELSE \A b \in Buckets : hash[b] = <<>>
  /\ \A c \in {names} \cup {hash[b] : b \in Buckets} :
       \A i, j \in 1 .. Len(c) : i < j => Len(c[i]) <= Len(c[j]) /\ c[i] # c[j]
  /\ \A name \in FmtNames : FmtSrch(name) <=> name \in regd
  /\ LET writing == FlattenSeq([i \in 1 .. Len(stack) |-> Ids(stack[i].specs)])
         all == make \o Ids(list) \o writing
     IN  Len(all) = Cardinality(specs) /\ {all[i] : i \in 1 .. Len(all)} = specs

(* At every moment of its third pass a call has written what the format    *)
(* and the arguments say, whatever its formatters do with the same         *)
(* configuration and string; %n has stored how much that was.              *)
FmtRight ==
  (stack # <<>> /\ Top.phase = "write") =>
    LET f == Top
        ns == SelectSeq([i \in 1 .. f.done |-> i], LAMBDA i : f.fmt[i].code = "n")
    IN  /\ Inserted(f, str) = Expected(f, f.done)
        /\ f.stored = [i \in 1 .. Len(ns) |-> Len(Expected(f, ns[i]))]

(* A call prints the whole format or leaves the string as it was, and does *)
(* not lose the record of an earlier failure.                              *)
FmtAtomic ==
  [][Len(stack') < Len(stack) =>
       /\ Top.orig_bad => bad'
       /\ \/ str' = Top.before
          \/ str' = str /\ Top.done = Len(Top.fmt)]_fmtVars

=============================================================================
