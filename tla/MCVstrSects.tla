---------------------------- MODULE MCVstrSects ----------------------------
(***************************************************************************)
(* VstrSects for TLC: one Vstr_sects that grows and shrinks and one that   *)
(* is an array of a fixed size.                                            *)
(***************************************************************************)
EXTENDS VstrSects, TLC

CONSTANTS grows, fixed,
          MaxCalls    \* bound: the calls that are made in a run

MCSects == {grows, fixed}
MCBegSz == grows :> 1 @@ fixed :> 2
MCCanAdd == grows :> TRUE @@ fixed :> FALSE
MCCanDel == grows :> TRUE @@ fixed :> FALSE
MCTexts == {<<"a">>}

(* Every string of up to five bytes is split; this one is also changed, and *)
(* split first or not at all.                                              *)
Changing == <<"a", ":", "a">>

MCStrs == UNION {[1 .. n -> {"a", ":"}] : n \in 0 .. 5}

MCFlagSets ==
  {{}, {"BEG_NULL"}, {"END_NULL"}, {"POST_NULL"}, {"REMAIN"}, {"NO_RET", "END_NULL"},
   {"BEG_NULL", "MID_NULL"}, {"MID_NULL", "REMAIN", "BEG_NULL"},
   {"BEG_NULL", "MID_NULL", "END_NULL", "POST_NULL"},
   {"BEG_NULL", "MID_NULL", "END_NULL", "POST_NULL", "REMAIN"}}

(* The calls that change the string, the sections, or what is kept up to   *)
(* date; those of vstr_sects_foreach(), and of the sections it goes        *)
(* through those that its callback deletes, are not counted.  There are    *)
(* MaxNum sections only where the first call, a split, made the others.    *)
VARIABLES calls, deep

MCInit == /\ Init /\ calls = 0
          /\ deep = ([k \in DOMAIN str |-> str[k].c] = Changing)

MCNext ==
  /\ calls < IF deep THEN MaxCalls ELSE 1
  /\ Next
  /\ split' # NoSplit => calls = 0
  /\ (\E i \in Sects : sects[i].num < sects'[i].num /\ sects'[i].num = MaxNum) => calls = 1
  /\ calls' = IF iter # iter' THEN calls ELSE calls + 1
  /\ UNCHANGED deep

MCSpec == MCInit /\ [][MCNext]_<<vars, calls, deep>>
=============================================================================
