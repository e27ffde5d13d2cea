---------------------------- MODULE MCVstrData ----------------------------
(***************************************************************************)
(* The two tables of a configuration for TLC.  Of VstrData three names, so *)
(* that a hole has a used entry on either side, and two objects.  Of       *)
(* VstrFmt names that share a chain of the hash, that sort differently in  *)
(* the list, and of which one begins another; formats with arguments       *)
(* numbered, taken in turn, missing, and used by formatters.               *)
(*                                                                         *)
(* The tables are different fields of Vstr_conf that no function reads     *)
(* together: it is enough to run one while the other is untouched.         *)
(***************************************************************************)
EXTENDS VstrData, VstrFmt, TLC

CONSTANTS n1, n2, n3, o1, o2

const_Names == {n1, n2, n3}
const_Objs == {o1, o2}

ab == <<"[", "a", "b", "]">>
b == <<"{", "b", "}">>
x == <<"x">>
xy == <<"x", "y">>
const_FmtNames == {ab, b, x, xy}
const_TypesOf ==
  [n \in const_FmtNames |-> CASE n = ab -> <<"d", "errno", "s">>
                              [] n = b -> <<>>
                              [] n = x -> <<"errno">>
                              [] n = xy -> <<"s", "d">>]

Dir(k, main, width, prec, code, name) ==
  [k |-> k, main |-> main, width |-> width, prec |-> prec, code |-> code, name |-> name]

Nth(n, code) == Dir("conv", n, 0, 0, code, <<>>)

Conv(code) == Nth(0, code)

Usr(n, name) == Dir("usr", n, 0, 0, "", name)

const_Formats ==
  {<<Conv("d"), TextDir, Dir("conv", 0, NextArg, NextArg, "s", <<>>)>>,
   <<Conv("m"), Conv("s"), Conv("d")>>,
   <<Nth(2, "s"), Nth(1, "d"), Nth(2, "s")>>,
   <<Nth(2, "d")>>,
   <<Dir("conv", 3, 1, 2, "d", <<>>), Nth(1, "n")>>,
   <<Usr(0, b), Conv("d"), Conv("n")>>,
   <<Usr(2, ab), Nth(1, "s")>>,
   <<Usr(0, ab), Dir("usr", 0, NextArg, 0, "", xy)>>,
   <<Usr(0, x), Usr(0, xy)>>}
const_NestFormats ==
  {<<Usr(0, ab), TextDir>>, <<Nth(2, "s")>>}

TablesInit == Init /\ FmtInit

TablesNext ==
  \/ FmtInit /\ Next /\ UNCHANGED fmtVars
  \/ Init /\ FmtNext /\ UNCHANGED vars

TablesSpec ==
  /\ TablesInit /\ [][TablesNext]_<<vars, fmtVars>>
  /\ WF_vars(SrchTurn /\ UNCHANGED fmtVars) /\ WF_vars(SrchRet /\ UNCHANGED fmtVars)
=============================================================================
