------------------------------ MODULE VstrAbs ------------------------------
(***************************************************************************)
(* What a Vstr_base promises its callers, whatever nodes and caches hold   *)
(* the data: it is a sequence of bytes, a call that succeeds edits it as   *)
(* the call says, and a call that fails, for want of memory, leaves it as  *)
(* it was (Documentation/functions.txt: vstr_add_*(), vstr_del(),          *)
(* vstr_sub_*() and vstr_mov()).                                           *)
(* "call" is the interface: the last call made and what it returned.       *)
(***************************************************************************)
EXTENDS Integers, Sequences

VARIABLES str,   \* the string
          from,  \* another string, which data is copied and moved to and from
          call

absVars == <<str, from, call>>

(* The bytes an added input stands for; a NON input has no data of its own *)
ByteAt(obj, off) == IF obj = "non" THEN <<"non", 0>> ELSE <<obj, off>>

BytesOf(in) == IF in.type = "BUF" THEN in.data
               ELSE [k \in 1 .. in.len |-> ByteAt(in.obj, in.off + k - 1)]

(* s with bytes inserted after its first pos bytes *)
Insert(s, pos, bytes) ==
  SubSeq(s, 1, pos) \o bytes \o SubSeq(s, pos + 1, Len(s))

(* s without the len bytes that start at pos *)
Remove(s, pos, len) ==
  SubSeq(s, 1, pos - 1) \o SubSeq(s, pos + len, Len(s))

AbsInit ==
  /\ str = <<>>
  /\ from = <<>>
  /\ call = [op |-> "make", ok |-> TRUE]

AbsAdd ==
  /\ call'.op = "add"
  /\ call'.pos \in 0 .. Len(str)
  /\ str' = IF call'.ok THEN Insert(str, call'.pos, BytesOf(call'.in)) ELSE str
  /\ UNCHANGED from

AbsDel ==
  /\ call'.op = "del"
  /\ call'.pos \in 1 .. Len(str)
  /\ str' = IF call'.ok THEN Remove(str, call'.pos, call'.len) ELSE str
  /\ UNCHANGED from

(* vstr_sub_*(): the len bytes at pos are replaced by the input. *)
AbsSub ==
  /\ call'.op = "sub"
  /\ call'.pos \in 1 .. Len(str)
  /\ str' = IF call'.ok
            THEN Insert(Remove(str, call'.pos, call'.len), call'.pos - 1,
                        BytesOf(call'.in))
            ELSE str
  /\ UNCHANGED from

(* The len bytes of s at pos. *)
Part(s, pos, len) == SubSeq(s, pos, pos + len - 1)

(* vstr_mov() within a string: the bytes follow the one they are put       *)
(* after, wherever that is once they are gone; to move them into           *)
(* themselves changes nothing.                                             *)
AbsMov ==
  /\ call'.op = "mov"
  /\ LET c == call' IN
     str' = CASE ~c.ok \/ c.pos \in c.fpos - 1 .. c.fpos + c.len - 1 -> str
              [] c.ok /\ c.pos < c.fpos - 1 ->
                   Insert(Remove(str, c.fpos, c.len), c.pos,
                          Part(str, c.fpos, c.len))
              [] OTHER -> Insert(Remove(str, c.fpos, c.len), c.pos - c.len,
                                 Part(str, c.fpos, c.len))
  /\ UNCHANGED from

(* vstr_add_vstr() of a part of the string itself. *)
AbsCopy ==
  /\ call'.op = "copy"
  /\ str' = IF call'.ok
            THEN Insert(str, call'.pos, Part(str, call'.fpos, call'.len))
            ELSE str
  /\ UNCHANGED from

(* vstr_mov() from the other string, and vstr_add_vstr() to it. *)
AbsMovFrom ==
  /\ call'.op = "mov from"
  /\ str' = IF call'.ok
            THEN Insert(str, call'.pos, Part(from, call'.fpos, call'.len))
            ELSE str
  /\ from' = IF call'.ok THEN Remove(from, call'.fpos, call'.len) ELSE from

AbsCopyTo ==
  /\ call'.op = "copy to"
  /\ from' = IF call'.ok
             THEN Insert(from, call'.pos, Part(str, call'.fpos, call'.len))
             ELSE from
  /\ UNCHANGED str

(* Calls that only look at the string, or only change spare resources. *)
AbsLook ==
  /\ call'.op = "look"
  /\ UNCHANGED <<str, from>>

(* vstr_sc_write_fd(): the bytes that were put out leave the string. *)
AbsWrite ==
  /\ call'.op = "write"
  /\ str' = Remove(str, 1, call'.len)
  /\ call'.out = Part(str, 1, call'.len)
  /\ UNCHANGED from

(* vstr_free_base() and vstr_make_base(). *)
AbsRemake ==
  /\ call'.op = "remake"
  /\ str' = <<>>
  /\ UNCHANGED from

AbsNext ==
  \/ AbsAdd \/ AbsDel \/ AbsSub \/ AbsMov \/ AbsCopy \/ AbsMovFrom
  \/ AbsCopyTo \/ AbsWrite \/ AbsRemake \/ AbsLook

AbsSpec == AbsInit /\ [][AbsNext]_absVars
=============================================================================
