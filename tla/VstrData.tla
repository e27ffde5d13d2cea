------------------------------ MODULE VstrData ------------------------------
(***************************************************************************)
(* The table of user data of a configuration (src/vstr_data.c): named      *)
(* references, found by name and then used by the cookie, which is the     *)
(* number of the entry.  A deleted entry in the middle leaves a hole (an   *)
(* entry with a NULL name) that a later vstr_data_add() fills.             *)
(*                                                                         *)
(* ents is the used part of conf->data_usr_ents, so conf->data_usr_len is  *)
(* Len(ents); sz is conf->data_usr_sz.  vstr_data_srch() is modelled one   *)
(* turn of its loop at a time, to ask whether it ends.                     *)
(***************************************************************************)
EXTENDS Integers, Sequences, FiniteSets

CONSTANTS Names, Objs,   \* names of data, and Vstr_ref objects
          Null,          \* the NULL pointer
          MaxSz          \* bound: the size of the table

ASSUME DataAssumption ==
  /\ Null \notin Names \cup Objs
  /\ MaxSz \in Nat \ {0}

VARIABLES ents, sz,
          refs,    \* ref->ref of each object
          held,    \* the objects the user still holds a reference to
          srch,    \* the search in progress, or Idle; turn tells its turns apart
          freed    \* has the configuration been freed?

vars == <<ents, sz, refs, held, srch, freed>>

Idle == [name |-> Null, pos |-> 0, found |-> 0, turn |-> 0]

Hole == [name |-> Null, data |-> Null]

Used(es) == {i \in 1 .. Len(es) : es[i].name # Null}

(* Mutant: the reference to the old object is not dropped. *)
RefMoveMutant(r, from, to) == [o \in Objs |-> r[o] + (IF o = to THEN 1 ELSE 0)]

(* The changes of vstr_ref_del() and vstr_ref_add(), which allow NULL. *)
RefMove(r, from, to) ==
  [o \in Objs |-> r[o] - (IF o = from THEN 1 ELSE 0) + (IF o = to THEN 1 ELSE 0)]

(* vstr__data_conf_init(); the user made one reference to each object. *)
Init ==
  /\ ents = <<>>
  /\ sz = 1
  /\ refs = [o \in Objs |-> 1]
  /\ held = Objs
  /\ srch = Idle
  /\ freed = FALSE

(* The library has no threads: a call begins when no search is running. *)
Ready == srch = Idle /\ ~freed

(* Mutant: the search for a hole takes the first entry, used or not. *)
AddSlotMutant(es, size) == IF Len(es) < size THEN Len(es) + 1 ELSE 1

(* vstr_data_add(): holes are looked for only when the table is full. *)
AddSlot(es, size) ==
  IF Len(es) < size \/ Used(es) = 1 .. Len(es) THEN Len(es) + 1
  ELSE CHOOSE i \in 1 .. Len(es) :
         es[i].name = Null /\ \A j \in 1 .. i - 1 : es[j].name # Null

(* The table is doubled when the new entry does not fit. *)
GrownSz(slot, size) == IF slot > size THEN 2 * size ELSE size

DataAdd(name, obj) ==
  LET slot == AddSlot(ents, sz)
      ent  == [name |-> name, data |-> obj]
  IN  /\ Ready
      /\ \A i \in 1 .. Len(ents) : ents[i].name # name
      /\ obj \in held \cup {Null}
      /\ sz' = GrownSz(slot, sz)
      /\ sz' <= MaxSz
      /\ ents' = IF slot > Len(ents) THEN Append(ents, ent)
                                     ELSE [ents EXCEPT ![slot] = ent]
      /\ refs' = RefMove(refs, Null, obj)
      /\ UNCHANGED <<held, srch, freed>>

(* vstr_data_del(): trailing holes are dropped with the last entry. *)
Trim(es) ==
  LET last == CHOOSE n \in 0 .. Len(es) :
                (n > 0 => n \in Used(es)) /\ \A i \in Used(es) : i <= n
  IN  SubSeq(es, 1, last)

DataDel(pos) ==
  /\ Ready
  /\ pos \in Used(ents)
  /\ refs' = RefMove(refs, ents[pos].data, Null)
  /\ ents' = IF pos = Len(ents) THEN Trim([ents EXCEPT ![pos] = Hole])
                                ELSE [ents EXCEPT ![pos] = Hole]
  /\ UNCHANGED <<sz, held, srch, freed>>

(* vstr_data_set(), with a cookie that was not deleted. *)
DataSet(pos, obj) ==
  /\ Ready
  /\ pos \in Used(ents)
  /\ obj \in held \cup {Null}
  /\ refs' = RefMove(refs, ents[pos].data, obj)
  /\ ents' = [ents EXCEPT ![pos].data = obj]
  /\ UNCHANGED <<sz, held, srch, freed>>

(* vstr_data_srch(): the call, and each turn of its loop.  pos is advanced *)
(* by the evaluation of strcmp()'s argument, so only at a used entry.      *)
SrchCall(name) ==
  /\ Ready
  /\ srch' = [Idle EXCEPT !.name = name]
  /\ UNCHANGED <<ents, sz, refs, held, freed>>

Found(ent, pos) == IF ent.name = srch.name THEN pos ELSE 0

(* Mutant: an entry that does not match is not passed. *)
PassedMutant(ent, pos) == IF ent.name = srch.name THEN pos + 1 ELSE pos

Passed(ent, pos) == IF ent.name = Null THEN pos ELSE pos + 1

SrchTurn ==
  /\ srch # Idle /\ srch.found = 0 /\ srch.pos < Len(ents)
  /\ LET ent == ents[srch.pos + 1]
         pos == Passed(ent, srch.pos)
     IN  srch' = [srch EXCEPT !.pos = pos, !.turn = 1 - @,
                              !.found = Found(ent, pos)]
  /\ UNCHANGED <<ents, sz, refs, held, freed>>

SrchRet ==
  /\ srch # Idle /\ (srch.found # 0 \/ srch.pos = Len(ents))
  /\ srch' = Idle
  /\ UNCHANGED <<ents, sz, refs, held, freed>>

(* The user drops its own reference; vstr__data_conf_free(). *)
UserDrop(obj) ==
  /\ srch = Idle
  /\ obj \in held
  /\ held' = held \ {obj}
  /\ refs' = RefMove(refs, obj, Null)
  /\ UNCHANGED <<ents, sz, srch, freed>>

ConfFree ==
  /\ Ready
  /\ freed' = TRUE
  /\ refs' = [o \in Objs |->
                refs[o] - Cardinality({i \in Used(ents) : ents[i].data = o})]
  /\ ents' = <<>>
  /\ UNCHANGED <<sz, held, srch>>

Next ==
  \/ \E n \in Names, o \in Objs \cup {Null} : DataAdd(n, o)
  \/ \E p \in 1 .. MaxSz : DataDel(p)
  \/ \E p \in 1 .. MaxSz, o \in Objs \cup {Null} : DataSet(p, o)
  \/ \E n \in Names : SrchCall(n)
  \/ SrchTurn
  \/ SrchRet
  \/ \E o \in Objs : UserDrop(o)
  \/ ConfFree

(* A call that was made runs: the processor executes the loop. *)
Spec == Init /\ [][Next]_vars /\ WF_vars(SrchTurn) /\ WF_vars(SrchRet)

-----------------------------------------------------------------------------
(* The state's type; the table never outgrows what was allocated. *)
TypeOK ==
  /\ ents \in Seq([name : Names \cup {Null}, data : Objs \cup {Null}])
  /\ sz \in 1 .. MaxSz /\ Len(ents) <= sz
  /\ refs \in [Objs -> Nat]
  /\ held \subseteq Objs
  /\ srch \in [name : Names \cup {Null}, pos : 0 .. MaxSz, found : 0 .. MaxSz,
               turn : 0 .. 1]
  /\ freed \in BOOLEAN

(* Every reference is accounted for: an object's count is the user's own   *)
(* reference and the entries that store it, through every order of add,    *)
(* set, delete and reuse of holes; so none is leaked or freed too early,   *)
(* and freeing the configuration releases exactly the table's.             *)
RefsExact ==
  \A o \in Objs : refs[o] = (IF o \in held THEN 1 ELSE 0)
                            + Cardinality({i \in 1 .. Len(ents) : ents[i].data = o})

(* A name has one entry, a hole stores nothing, the last entry is used. *)
TableShape ==
  /\ \A i, j \in Used(ents) : ents[i].name = ents[j].name => i = j
  /\ \A i \in 1 .. Len(ents) : ents[i].name = Null => ents[i].data = Null
  /\ ents # <<>> => Len(ents) \in Used(ents)

(* A cookie stays valid: no call moves or renames an entry other than the  *)
(* one it deletes; a hole that is filled was given up before.              *)
CookiesStable ==
  [][~freed' => Cardinality({i \in Used(ents) :
                               i > Len(ents') \/ ents'[i].name # ents[i].name}) <= 1
                /\ (Cardinality(Used(ents')) >= Cardinality(Used(ents)) =>
                      \A i \in Used(ents) : ents'[i].name = ents[i].name)]_vars

(* vstr_data_srch() returns the cookie of the name, or 0 only if it has    *)
(* none.                                                                   *)
SrchRight ==
  srch # Idle =>
    /\ srch.found # 0 => srch.found \in Used(ents) /\ ents[srch.found].name = srch.name
    /\ srch.found = 0 /\ srch.pos = Len(ents) =>
         \A i \in Used(ents) : ents[i].name # srch.name

(* The table and the counts of references are consistent after every call, *)
(* and a search finds what it should.                                      *)
DataInv == TypeOK /\ TableShape /\ RefsExact /\ SrchRight

(* vstr_data_srch() returns if the table has no hole, however the entries  *)
(* came to be where they are.                                              *)
SrchReturnsFull ==
  (srch # Idle /\ Used(ents) = 1 .. Len(ents)) ~> srch = Idle

(* vstr_data_srch() returns, as the users of the function suppose. *)
SrchReturns == srch # Idle ~> srch = Idle

=============================================================================
